---------------------------- MODULE FollowUpsProofs ---------------------------
(***************************************************************************)
(* Proofs about FollowUps, for any number of orders, deliveries, operator  *)
(* requests, failed attempts and refused enqueues.                         *)
(***************************************************************************)
EXTENDS FollowUps, TLAPS

-----------------------------------------------------------------------------
(* The inductive invariant.                                                *)

\* An insert finds its row absent: what a delivery or a request has yet to
\* insert is not there.
FreshInv ==
  /\ \A o \in Order, d \in Delivery :
       /\ status[o] = "NONE" => sched[<<o, d>>] = "idle"
       /\ sched[<<o, d>>] \in {"idle", "pair"} => \A j \in Reminder : row[<<o, d, j>>] = "absent"
       /\ sched[<<o, d>>] \in {"queued", "second"}
            => row[<<o, d, "unpaid-invoice-second">>] = "absent"
  /\ \A o \in Order, n \in Request :
       patchPc[<<o, n>>] # "done" => row[<<o, n, "delivery-confirmation">>] = "absent"

\* A scan works on rows it read as due.  A claimed row stays due until the
\* scan ends, since the cancellation waits for it; the others may be
\* cancelled meanwhile.
ScanInv ==
  /\ ~sweeping => todo = {} /\ claimed = {}
  /\ todo \cap claimed = {}
  /\ \A r \in todo : row[r] \in {"due", "cancelled"}
  /\ \A r \in claimed : row[r] = "due"

\* Claimed, for good or by the scan that is running.
Taken(r) == r \in claimed \/ row[r] \in {"executed", "graced"}

\* A message of the row is still to come.
Coming(r) == IF task[r] = "none" THEN 0 ELSE 1

\* Each failed attempt accounts for one message of a row, and its claim for
\* one more.
SentInv ==
  \A r \in Row :
    /\ reminders[r] + Coming(r) <= 1 + faults
    /\ ~Taken(r) => reminders[r] + Coming(r) <= faults

\* The two reminders that count as late payments, of the only delivery there
\* is as long as nothing failed; and whether the counter has counted one.
Invoice(o, j) == <<o, 1, j>>
Counted(r) == IF Taken(r) /\ task[r] # "queued" THEN 1 ELSE 0

LateInv ==
  faults = 0 =>
    /\ \A o \in Order, d \in Delivery : d # 1 => sched[<<o, d>>] = "idle"
    /\ \A o \in Order :
         late[o] <= Counted(Invoice(o, "unpaid-invoice-first"))
                    + Counted(Invoice(o, "unpaid-invoice-second"))

\* What was claimed was handed to the queue, unless the queue refused it; an
\* order that is expiring or expired has a final reminder whose grace ended.
FinalGraced(o) ==
  \E r \in RowsOf(o) : JobOf(r) = "unpaid-invoice-second" /\ row[r] = "graced"

ExpiryInv ==
  /\ refusals = 0 => \A r \in Row : Taken(r) => r \in handed
  /\ \A o \in expiring \cup expired : FinalGraced(o)

\* Of an undisturbed order: the rows of a delivery are there because it is
\* past its first insert, and a delivery that is done leaves the third
\* reminder behind or to one that is about to insert it.
AllThere(o) == \A j \in Reminder : \E d \in Delivery : row[<<o, d, j>>] # "absent"

Ordered(o) ==
  \A d \in Delivery :
    /\ sched[<<o, d>>] = "second" => /\ row[<<o, d, "abandoned-cart">>] # "absent"
                                    /\ row[<<o, d, "unpaid-invoice-first">>] # "absent"
    /\ (\E j \in Reminder : row[<<o, d, j>>] # "absent") => sched[<<o, d>>] \in {"second", "done"}
    /\ sched[<<o, d>>] = "done" => \/ AllThere(o)
                                  \/ \E e \in Delivery : sched[<<o, e>>] = "second"

ScheduleInv == \A o \in Order : Undisturbed(o) => Ordered(o)

IInv ==
  TypeOK /\ FreshInv /\ ScanInv /\ SentInv /\ LateInv /\ ExpiryInv /\ ScheduleInv

-----------------------------------------------------------------------------
(* Facts about the constants.                                              *)

LEMMA Constants ==
  /\ 1 \in Delivery /\ MaxFaults \in Nat /\ MaxRefusals \in Nat /\ PatchStatuses \subseteq Status
BY FollowUpAssumption DEF Delivery

\* The rows are those that a delivery or a request inserts.
LEMMA RowIn ==
  /\ \A o \in Order, d \in Delivery, j \in Reminder :
       <<o, d, j>> \in Row /\ OrderOf(<<o, d, j>>) = o /\ JobOf(<<o, d, j>>) = j
  /\ \A o \in Order, n \in Request :
       /\ <<o, n, "delivery-confirmation">> \in Row
       /\ OrderOf(<<o, n, "delivery-confirmation">>) = o
BY DEF Row, OrderOf, JobOf

LEMMA RowCases ==
  ASSUME NEW r \in Row
  PROVE  /\ OrderOf(r) \in Order
         /\ \/ \E d \in Delivery, j \in Reminder : r = <<OrderOf(r), d, j>>
            \/ \E n \in Request : r = <<OrderOf(r), n, "delivery-confirmation">>
<1>1. CASE r \in Order \X Delivery \X Reminder
  <2>1. PICK o \in Order, d \in Delivery, j \in Reminder : r = <<o, d, j>>
    BY <1>1
  <2> QED BY <2>1, RowIn
<1>2. CASE r \in Order \X Request \X {"delivery-confirmation"}
  <2>1. PICK o \in Order, n \in Request : r = <<o, n, "delivery-confirmation">>
    BY <1>2
  <2> QED BY <2>1, RowIn
<1> QED BY <1>1, <1>2 DEF Row

LEMMA JobFacts ==
  /\ "abandoned-cart" \in Reminder /\ "unpaid-invoice-first" \in Reminder
  /\ "unpaid-invoice-second" \in Reminder /\ "delivery-confirmation" \notin Reminder
BY DEF Reminder

-----------------------------------------------------------------------------
(* Type correctness.                                                       *)

LEMMA TypesStart == Init => TypeOK
<1> SUFFICES ASSUME Init PROVE TypeOK
  OBVIOUS
<1>1. sweeping \in BOOLEAN
  BY DEF Init
<1> QED BY <1>1, Constants DEF Init, TypeOK, RowState

LEMMA TypesStep ==
  ASSUME TypeOK, Next
  PROVE  TypeOK'
<1> USE Constants, RowIn, RowCases, JobFacts
    DEF TypeOK, RowState, Status, OpenStatuses,
        sweepVars, patchVars, runVars, expiryVars, faultVars
<1>1. ASSUME NEW o \in Order, Create(o) PROVE TypeOK'
  BY <1>1 DEF Create
<1>2. ASSUME NEW o \in Order, NEW d \in Delivery, Redeliver(o, d) PROVE TypeOK'
  BY <1>2 DEF Redeliver, Fault
<1>3. ASSUME NEW o \in Order, NEW d \in Delivery, ScheduleCheck(o, d) PROVE TypeOK'
  BY <1>3 DEF ScheduleCheck
<1>4. ASSUME NEW o \in Order, NEW d \in Delivery, SchedulePair(o, d) PROVE TypeOK'
  BY <1>4 DEF SchedulePair
<1>5. ASSUME NEW o \in Order, NEW d \in Delivery, ScheduleSecond(o, d) PROVE TypeOK'
  BY <1>5 DEF ScheduleSecond
<1>6. ASSUME NEW o \in Order, NEW d \in Delivery, ScheduleFails(o, d) PROVE TypeOK'
  BY <1>6 DEF ScheduleFails, Fault
<1>7. ASSUME NEW r \in Row, FallsDue(r) PROVE TypeOK'
  BY <1>7 DEF FallsDue
<1>8. ASSUME NEW r \in Row, GraceEnds(r) PROVE TypeOK'
  BY <1>8 DEF GraceEnds
<1>9. CASE SweepBegin
  BY <1>9 DEF SweepBegin, Due
<1>10. ASSUME NEW r \in Row, Claim(r) PROVE TypeOK'
  BY <1>10 DEF Claim, FirstOf, Claimable
<1>11. ASSUME NEW r \in Row, ClaimRefused(r) PROVE TypeOK'
  BY <1>11 DEF ClaimRefused, FirstOf, Claimable
<1>12. CASE SweepCommit
  BY <1>12 DEF SweepCommit, SweepEnds
<1>13. CASE SweepDies
  <2>1. sweeping' \in BOOLEAN
    BY <1>13 DEF SweepDies, SweepEnds
  <2> QED BY <1>13, <2>1 DEF SweepDies, SweepEnds, Fault
<1>14. ASSUME NEW r \in Row, RunRead(r) PROVE TypeOK'
  <2>1. PICK t \in {"none", "send"} : task' = [task EXCEPT ![r] = t]
    BY <1>14 DEF RunRead
  <2>2. PICK n \in Nat : late' = [late EXCEPT ![OrderOf(r)] = n]
    BY <1>14 DEF RunRead
  <2> QED BY <1>14, <2>1, <2>2 DEF RunRead
<1>15. ASSUME NEW r \in Row, RunSend(r) PROVE TypeOK'
  BY <1>15 DEF RunSend
<1>16. ASSUME NEW r \in Row, RunFails(r) PROVE TypeOK'
  <2>1. reminders' \in [Row -> Nat]
    BY <1>16 DEF RunFails
  <2>2. /\ task' = [task EXCEPT ![r] = "queued"] /\ faults' \in 0..MaxFaults
        /\ UNCHANGED <<status, row, sched, sweepVars, late, paying, expiryVars, patchVars, half>>
    BY <1>16 DEF RunFails, Fault
  <2> QED BY <2>1, <2>2
<1>17. ASSUME NEW o \in Order, Settle(o) PROVE TypeOK'
  BY <1>17 DEF Settle
<1>18. ASSUME NEW o \in Order, CancelFollowUps(o) PROVE TypeOK'
  BY <1>18 DEF CancelFollowUps, Cancellable
<1>19. CASE ExpiryScan
  BY <1>19 DEF ExpiryScan, Overdue
<1>20. ASSUME NEW o \in Order, ExpiryCancel(o) PROVE TypeOK'
  BY <1>20 DEF ExpiryCancel
<1>21. ASSUME NEW o \in Order, NEW n \in Request, PatchRead(o, n) PROVE TypeOK'
  BY <1>21 DEF PatchRead
<1>22. ASSUME NEW o \in Order, NEW n \in Request, PatchUpdate(o, n) PROVE TypeOK'
  BY <1>22 DEF PatchUpdate
<1>23. ASSUME NEW o \in Order, NEW n \in Request, PatchInsert(o, n) PROVE TypeOK'
  BY <1>23 DEF PatchInsert
<1> QED BY <1>1, <1>2, <1>3, <1>4, <1>5, <1>6, <1>7, <1>8, <1>9, <1>10, <1>11, <1>12, <1>13,
    <1>14, <1>15, <1>16, <1>17, <1>18, <1>19, <1>20, <1>21, <1>22, <1>23
        DEF Next, ScheduleStep, SweepStep, RunStep

\* The first insert of a delivery adds two rows that were absent.
PairAdded(o, d) ==
  /\ sched[<<o, d>>] = "pair" /\ sched' = [sched EXCEPT ![<<o, d>>] = "second"]
  /\ UNCHANGED <<status, sweepVars, runVars, paying, expiryVars, patchVars, faultVars>>
  /\ \A r \in Row : \/ row'[r] = row[r]
                     \/ /\ row[r] = "absent" /\ row'[r] = "waiting"
                        /\ r \in {<<o, d, "abandoned-cart">>, <<o, d, "unpaid-invoice-first">>}
  /\ row'[<<o, d, "abandoned-cart">>] # "absent"
  /\ row'[<<o, d, "unpaid-invoice-first">>] # "absent"
  /\ \A p \in Order, n \in Request :
       row'[<<p, n, "delivery-confirmation">>] = row[<<p, n, "delivery-confirmation">>]

LEMMA PairInserted ==
  ASSUME TypeOK, FreshInv, NEW o \in Order, NEW d \in Delivery, SchedulePair(o, d)
  PROVE  PairAdded(o, d)
<1>1. /\ <<o, d, "abandoned-cart">> \in Row /\ row[<<o, d, "abandoned-cart">>] = "absent"
      /\ <<o, d, "unpaid-invoice-first">> \in Row
      /\ row[<<o, d, "unpaid-invoice-first">>] = "absent"
  BY RowIn, RowCases, JobFacts DEF SchedulePair, FreshInv
<1>2. \A p \in Order, n \in Request :
        row'[<<p, n, "delivery-confirmation">>] = row[<<p, n, "delivery-confirmation">>]
  BY <1>1, RowIn DEF SchedulePair, TypeOK
<1> QED BY <1>1, <1>2 DEF SchedulePair, TypeOK, RowState, PairAdded

LEMMA FreshStep ==
  ASSUME TypeOK, FreshInv, ScanInv, Next
  PROVE  FreshInv'
<1>0. \A o \in Order, d \in Delivery : SchedulePair(o, d) => PairAdded(o, d)
  BY PairInserted
<1> USE Constants, RowIn, RowCases, JobFacts
    DEF TypeOK, RowState, Status, OpenStatuses, FreshInv, ScanInv,
        sweepVars, patchVars, runVars, expiryVars, faultVars
<1>1. ASSUME NEW o \in Order, Create(o) PROVE FreshInv'
  BY <1>1 DEF Create
<1>2. ASSUME NEW o \in Order, NEW d \in Delivery, Redeliver(o, d) PROVE FreshInv'
  BY <1>2 DEF Redeliver, Fault
<1>3. ASSUME NEW o \in Order, NEW d \in Delivery, ScheduleCheck(o, d) PROVE FreshInv'
  BY <1>3 DEF ScheduleCheck, Scheduled, RowsOf
<1>4. ASSUME NEW o \in Order, NEW d \in Delivery, SchedulePair(o, d) PROVE FreshInv'
  <2>1. PairAdded(o, d)
    BY <1>0, <1>4
  <2>2. \A p \in Order, e \in Delivery, j \in Reminder :
          <<p, e>> # <<o, d>> \/ j = "unpaid-invoice-second" => row'[<<p, e, j>>] = row[<<p, e, j>>]
    BY <2>1 DEF PairAdded
  <2>3. \A p \in Order, n \in Request :
          row'[<<p, n, "delivery-confirmation">>] = row[<<p, n, "delivery-confirmation">>]
    BY <2>1 DEF PairAdded
  <2>4. /\ sched[<<o, d>>] = "pair" /\ sched' = [sched EXCEPT ![<<o, d>>] = "second"]
        /\ UNCHANGED <<status, patchPc>>
    BY <2>1 DEF PairAdded
  <2> QED BY <2>2, <2>3, <2>4
<1>5. ASSUME NEW o \in Order, NEW d \in Delivery, ScheduleSecond(o, d) PROVE FreshInv'
  BY <1>5 DEF ScheduleSecond
<1>6. ASSUME NEW o \in Order, NEW d \in Delivery, ScheduleFails(o, d) PROVE FreshInv'
  BY <1>6 DEF ScheduleFails, Fault
<1>7. ASSUME NEW r \in Row, FallsDue(r) PROVE FreshInv'
  BY <1>7 DEF FallsDue
<1>8. ASSUME NEW r \in Row, GraceEnds(r) PROVE FreshInv'
  BY <1>8 DEF GraceEnds
<1>9. CASE SweepBegin
  BY <1>9 DEF SweepBegin, Due
<1>10. ASSUME NEW r \in Row, Claim(r) PROVE FreshInv'
  BY <1>10 DEF Claim, FirstOf, Claimable
<1>11. ASSUME NEW r \in Row, ClaimRefused(r) PROVE FreshInv'
  BY <1>11 DEF ClaimRefused, FirstOf, Claimable
<1>12. CASE SweepCommit
  BY <1>12 DEF SweepCommit, SweepEnds
<1>13. CASE SweepDies
  BY <1>13 DEF SweepDies, SweepEnds, Fault
<1>14. ASSUME NEW r \in Row, RunRead(r) PROVE FreshInv'
  BY <1>14 DEF RunRead
<1>15. ASSUME NEW r \in Row, RunSend(r) PROVE FreshInv'
  BY <1>15 DEF RunSend
<1>16. ASSUME NEW r \in Row, RunFails(r) PROVE FreshInv'
  BY <1>16 DEF RunFails, Fault
<1>17. ASSUME NEW o \in Order, Settle(o) PROVE FreshInv'
  BY <1>17 DEF Settle
<1>18. ASSUME NEW o \in Order, CancelFollowUps(o) PROVE FreshInv'
  BY <1>18 DEF CancelFollowUps, Cancellable
<1>19. CASE ExpiryScan
  BY <1>19 DEF ExpiryScan, Overdue
<1>20. ASSUME NEW o \in Order, ExpiryCancel(o) PROVE FreshInv'
  BY <1>20 DEF ExpiryCancel
<1>21. ASSUME NEW o \in Order, NEW n \in Request, PatchRead(o, n) PROVE FreshInv'
  BY <1>21 DEF PatchRead
<1>22. ASSUME NEW o \in Order, NEW n \in Request, PatchUpdate(o, n) PROVE FreshInv'
  BY <1>22 DEF PatchUpdate
<1>23. ASSUME NEW o \in Order, NEW n \in Request, PatchInsert(o, n) PROVE FreshInv'
  BY <1>23 DEF PatchInsert
<1> QED BY <1>1, <1>2, <1>3, <1>4, <1>5, <1>6, <1>7, <1>8, <1>9, <1>10, <1>11, <1>12, <1>13,
    <1>14, <1>15, <1>16, <1>17, <1>18, <1>19, <1>20, <1>21, <1>22, <1>23
        DEF Next, ScheduleStep, SweepStep, RunStep

LEMMA ScanStep ==
  ASSUME TypeOK, FreshInv, ScanInv, Next
  PROVE  ScanInv'
<1>0. \A o \in Order, d \in Delivery : SchedulePair(o, d) => PairAdded(o, d)
  BY PairInserted
<1> USE Constants, RowIn, RowCases, JobFacts
    DEF TypeOK, RowState, FreshInv, ScanInv,
        sweepVars, patchVars, runVars, expiryVars, faultVars
<1>1. ASSUME NEW o \in Order, Create(o) PROVE ScanInv'
  BY <1>1 DEF Create
<1>2. ASSUME NEW o \in Order, NEW d \in Delivery, Redeliver(o, d) PROVE ScanInv'
  BY <1>2 DEF Redeliver, Fault
<1>3. ASSUME NEW o \in Order, NEW d \in Delivery, ScheduleCheck(o, d) PROVE ScanInv'
  BY <1>3 DEF ScheduleCheck
<1>4. ASSUME NEW o \in Order, NEW d \in Delivery, SchedulePair(o, d) PROVE ScanInv'
  <2>1. PairAdded(o, d)
    BY <1>0, <1>4
  <2>2. /\ \A r \in Row : row'[r] = row[r] \/ (row[r] = "absent" /\ row'[r] = "waiting")
        /\ UNCHANGED <<sweepVars, runVars, faultVars>>
    BY <2>1 DEF PairAdded
  <2> QED BY <2>2
<1>5. ASSUME NEW o \in Order, NEW d \in Delivery, ScheduleSecond(o, d) PROVE ScanInv'
  BY <1>5 DEF ScheduleSecond
<1>6. ASSUME NEW o \in Order, NEW d \in Delivery, ScheduleFails(o, d) PROVE ScanInv'
  BY <1>6 DEF ScheduleFails, Fault
<1>7. ASSUME NEW r \in Row, FallsDue(r) PROVE ScanInv'
  BY <1>7 DEF FallsDue
<1>8. ASSUME NEW r \in Row, GraceEnds(r) PROVE ScanInv'
  BY <1>8 DEF GraceEnds
<1>9. CASE SweepBegin
  BY <1>9 DEF SweepBegin, Due
<1>10. ASSUME NEW r \in Row, Claim(r) PROVE ScanInv'
  BY <1>10 DEF Claim, FirstOf, Claimable
<1>11. ASSUME NEW r \in Row, ClaimRefused(r) PROVE ScanInv'
  BY <1>11 DEF ClaimRefused, FirstOf, Claimable
<1>12. CASE SweepCommit
  BY <1>12 DEF SweepCommit, SweepEnds
<1>13. CASE SweepDies
  BY <1>13 DEF SweepDies, SweepEnds, Fault
<1>14. ASSUME NEW r \in Row, RunRead(r) PROVE ScanInv'
  BY <1>14 DEF RunRead
<1>15. ASSUME NEW r \in Row, RunSend(r) PROVE ScanInv'
  BY <1>15 DEF RunSend
<1>16. ASSUME NEW r \in Row, RunFails(r) PROVE ScanInv'
  BY <1>16 DEF RunFails, Fault
<1>17. ASSUME NEW o \in Order, Settle(o) PROVE ScanInv'
  BY <1>17 DEF Settle
<1>18. ASSUME NEW o \in Order, CancelFollowUps(o) PROVE ScanInv'
  BY <1>18 DEF CancelFollowUps, Cancellable, RowsOf
<1>19. CASE ExpiryScan
  BY <1>19 DEF ExpiryScan, Overdue
<1>20. ASSUME NEW o \in Order, ExpiryCancel(o) PROVE ScanInv'
  BY <1>20 DEF ExpiryCancel
<1>21. ASSUME NEW o \in Order, NEW n \in Request, PatchRead(o, n) PROVE ScanInv'
  BY <1>21 DEF PatchRead
<1>22. ASSUME NEW o \in Order, NEW n \in Request, PatchUpdate(o, n) PROVE ScanInv'
  BY <1>22 DEF PatchUpdate
<1>23. ASSUME NEW o \in Order, NEW n \in Request, PatchInsert(o, n) PROVE ScanInv'
  BY <1>23 DEF PatchInsert
<1> QED BY <1>1, <1>2, <1>3, <1>4, <1>5, <1>6, <1>7, <1>8, <1>9, <1>10, <1>11, <1>12, <1>13,
    <1>14, <1>15, <1>16, <1>17, <1>18, <1>19, <1>20, <1>21, <1>22, <1>23
        DEF Next, ScheduleStep, SweepStep, RunStep

LEMMA SentStep ==
  ASSUME TypeOK, FreshInv, ScanInv, SentInv, Next
  PROVE  SentInv'
<1>0. \A o \in Order, d \in Delivery : SchedulePair(o, d) => PairAdded(o, d)
  BY PairInserted
<1> USE Constants, RowIn, RowCases, JobFacts
    DEF TypeOK, RowState, FreshInv, ScanInv, SentInv, Taken, Coming,
        sweepVars, patchVars, runVars, expiryVars, faultVars
<1>1. ASSUME NEW o \in Order, Create(o) PROVE SentInv'
  BY <1>1 DEF Create
<1>2. ASSUME NEW o \in Order, NEW d \in Delivery, Redeliver(o, d) PROVE SentInv'
  BY <1>2 DEF Redeliver, Fault
<1>3. ASSUME NEW o \in Order, NEW d \in Delivery, ScheduleCheck(o, d) PROVE SentInv'
  BY <1>3 DEF ScheduleCheck
<1>4. ASSUME NEW o \in Order, NEW d \in Delivery, SchedulePair(o, d) PROVE SentInv'
  <2>1. PairAdded(o, d)
    BY <1>0, <1>4
  <2> QED BY <2>1 DEF PairAdded
<1>5. ASSUME NEW o \in Order, NEW d \in Delivery, ScheduleSecond(o, d) PROVE SentInv'
  BY <1>5 DEF ScheduleSecond
<1>6. ASSUME NEW o \in Order, NEW d \in Delivery, ScheduleFails(o, d) PROVE SentInv'
  BY <1>6 DEF ScheduleFails, Fault
<1>7. ASSUME NEW r \in Row, FallsDue(r) PROVE SentInv'
  BY <1>7 DEF FallsDue
<1>8. ASSUME NEW r \in Row, GraceEnds(r) PROVE SentInv'
  BY <1>8 DEF GraceEnds
<1>9. CASE SweepBegin
  BY <1>9 DEF SweepBegin, Due
<1>10. ASSUME NEW r \in Row, Claim(r) PROVE SentInv'
  BY <1>10 DEF Claim, FirstOf, Claimable
<1>11. ASSUME NEW r \in Row, ClaimRefused(r) PROVE SentInv'
  BY <1>11 DEF ClaimRefused, FirstOf, Claimable
<1>12. CASE SweepCommit
  BY <1>12 DEF SweepCommit, SweepEnds
<1>13. CASE SweepDies
  BY <1>13 DEF SweepDies, SweepEnds, Fault
<1>14. ASSUME NEW r \in Row, RunRead(r) PROVE SentInv'
  BY <1>14 DEF RunRead
<1>15. ASSUME NEW r \in Row, RunSend(r) PROVE SentInv'
  BY <1>15 DEF RunSend
<1>16. ASSUME NEW r \in Row, RunFails(r) PROVE SentInv'
  BY <1>16 DEF RunFails, Fault
<1>17. ASSUME NEW o \in Order, Settle(o) PROVE SentInv'
  BY <1>17 DEF Settle
<1>18. ASSUME NEW o \in Order, CancelFollowUps(o) PROVE SentInv'
  BY <1>18 DEF CancelFollowUps, Cancellable, RowsOf
<1>19. CASE ExpiryScan
  BY <1>19 DEF ExpiryScan, Overdue
<1>20. ASSUME NEW o \in Order, ExpiryCancel(o) PROVE SentInv'
  BY <1>20 DEF ExpiryCancel
<1>21. ASSUME NEW o \in Order, NEW n \in Request, PatchRead(o, n) PROVE SentInv'
  BY <1>21 DEF PatchRead
<1>22. ASSUME NEW o \in Order, NEW n \in Request, PatchUpdate(o, n) PROVE SentInv'
  BY <1>22 DEF PatchUpdate
<1>23. ASSUME NEW o \in Order, NEW n \in Request, PatchInsert(o, n) PROVE SentInv'
  <2>1. row[<<o, n, "delivery-confirmation">>] = "absent"
    BY <1>23 DEF PatchInsert
  <2>2. \A r \in Row : row'[r] = row[r] \/ (row[r] = "absent" /\ row'[r] = "waiting")
    BY <1>23, <2>1 DEF PatchInsert
  <2>3. UNCHANGED <<task, claimed, reminders, faults>>
    BY <1>23 DEF PatchInsert
  <2> QED BY <2>2, <2>3
<1> QED BY <1>1, <1>2, <1>3, <1>4, <1>5, <1>6, <1>7, <1>8, <1>9, <1>10, <1>11, <1>12, <1>13,
    <1>14, <1>15, <1>16, <1>17, <1>18, <1>19, <1>20, <1>21, <1>22, <1>23
        DEF Next, ScheduleStep, SweepStep, RunStep

\* Where nothing failed, a task runs once and for a row of delivery 1: the
\* read that counts it finds it uncounted.
LEMMA ReadLate ==
  ASSUME TypeOK, FreshInv, ScanInv, SentInv, LateInv, NEW r \in Row, RunRead(r)
  PROVE  LateInv'
<1> DEFINE First(p) == Invoice(p, "unpaid-invoice-first")
           Second(p) == Invoice(p, "unpaid-invoice-second")
<1>1. /\ task[r] = "queued"
      /\ \E t \in {"none", "send"} : task' = [task EXCEPT ![r] = t]
      /\ UNCHANGED <<row, claimed, sched, faults>>
  BY DEF RunRead, sweepVars, faultVars
<1> SUFFICES ASSUME faults = 0
             PROVE  \A p \in Order : late'[p] <= Counted(First(p))' + Counted(Second(p))'
  BY <1>1 DEF LateInv
<1>2. Taken(r) /\ row[r] # "absent"
  BY <1>1 DEF SentInv, ScanInv, Coming, TypeOK, Taken
<1>3. Counted(r) = 0 /\ Counted(r)' = 1
  BY <1>1, <1>2 DEF Counted, Taken, TypeOK
<1>4. \A q \in Row : q # r => Counted(q)' = Counted(q)
  BY <1>1 DEF Counted, Taken, TypeOK
<1>5. \A q \in Row : Counted(q) \in {0, 1} /\ Counted(q)' \in {0, 1}
  BY DEF Counted
<1>6. \A p \in Order : First(p) \in Row /\ Second(p) \in Row /\ First(p) # Second(p)
  BY RowIn, Constants, JobFacts DEF Invoice
<1>7. \A p \in Order : late[p] \in Nat /\ late[p] <= Counted(First(p)) + Counted(Second(p))
  BY DEF LateInv, TypeOK
<1> HIDE DEF First, Second
<1>8. CASE late' = late
  <2>1. \A q \in Row : Counted(q) <= Counted(q)'
    BY <1>3, <1>4, <1>5
  <2> QED BY <1>5, <1>6, <1>7, <1>8, <2>1
<1>9. CASE late' # late
  <2>1. /\ JobOf(r) \in {"unpaid-invoice-first", "unpaid-invoice-second"}
        /\ late' = [late EXCEPT ![OrderOf(r)] = @ + 1]
    BY <1>9, RowCases DEF RunRead, TypeOK
  <2>2. r = Invoice(OrderOf(r), JobOf(r))
    <3>1. PICK d \in Delivery, j \in Reminder : r = <<OrderOf(r), d, j>>
      BY <2>1, RowCases, JobFacts DEF JobOf
    <3>2. d = 1
      <4>0. PICK o \in Order : o = OrderOf(r)
        BY RowCases
      <4>1. sched[<<OrderOf(r), d>>] # "idle"
        BY <1>2, <3>1, <4>0 DEF FreshInv
      <4> QED BY <4>1, RowCases DEF LateInv
    <3>3. JobOf(r) = j
      BY <3>1, RowIn, RowCases
    <3> QED BY <3>1, <3>2, <3>3 DEF Invoice
  <2>3. r = First(OrderOf(r)) \/ r = Second(OrderOf(r))
    BY <2>1, <2>2 DEF First, Second
  <2>4. \A p \in Order : p # OrderOf(r) => First(p) # r /\ Second(p) # r
    BY <2>2, RowIn, JobFacts, Constants DEF First, Second, Invoice
  <2>5. ASSUME NEW p \in Order, p # OrderOf(r)
        PROVE  late'[p] <= Counted(First(p))' + Counted(Second(p))'
    BY <1>4, <1>6, <1>7, <2>1, <2>4, <2>5 DEF TypeOK
  <2>6. late'[OrderOf(r)] <= Counted(First(OrderOf(r)))' + Counted(Second(OrderOf(r)))'
    BY <1>3, <1>4, <1>5, <1>6, <1>7, <2>1, <2>3, RowCases DEF TypeOK
  <2> QED BY <2>5, <2>6
<1> QED BY <1>8, <1>9

\* The other steps leave the counter alone, start no second delivery and
\* uncount no row, unless they are failures.
Uncounting ==
  /\ UNCHANGED late
  /\ faults' = 0 =>
       /\ faults = 0
       /\ \A o \in Order, d \in Delivery :
            d # 1 /\ sched[<<o, d>>] = "idle" => sched'[<<o, d>>] = "idle"
       /\ \A r \in Row : Taken(r) /\ task[r] # "queued" => Taken(r)' /\ task'[r] # "queued"

LEMMA LateKept ==
  ASSUME TypeOK, LateInv, Uncounting
  PROVE  LateInv'
<1> SUFFICES ASSUME faults' = 0
             PROVE  /\ \A o \in Order, d \in Delivery : d # 1 => sched'[<<o, d>>] = "idle"
                    /\ \A o \in Order :
                         late[o] <= Counted(Invoice(o, "unpaid-invoice-first"))'
                                    + Counted(Invoice(o, "unpaid-invoice-second"))'
  BY DEF LateInv, Uncounting
<1>1. \A r \in Row : /\ Counted(r) \in {0, 1} /\ Counted(r)' \in {0, 1}
                     /\ Counted(r) <= Counted(r)'
  BY DEF Uncounting, Counted
<1>2. \A o \in Order : /\ Invoice(o, "unpaid-invoice-first") \in Row
                       /\ Invoice(o, "unpaid-invoice-second") \in Row
  BY RowIn, JobFacts, Constants DEF Invoice
<1>3. \A o \in Order : late[o] \in Nat
  BY DEF TypeOK
<1>4. \A o \in Order : late[o] <= Counted(Invoice(o, "unpaid-invoice-first"))
                                  + Counted(Invoice(o, "unpaid-invoice-second"))
  BY DEF LateInv, Uncounting
<1> HIDE DEF Counted, Invoice
<1>5. \A o \in Order : late[o] <= Counted(Invoice(o, "unpaid-invoice-first"))'
                                  + Counted(Invoice(o, "unpaid-invoice-second"))'
  BY <1>1, <1>2, <1>3, <1>4
<1> QED BY <1>5 DEF LateInv, Uncounting

LEMMA LateStep ==
  ASSUME TypeOK, FreshInv, ScanInv, SentInv, LateInv, Next
  PROVE  LateInv'
<1> SUFFICES ASSUME ~ \E r \in Row : RunRead(r)
             PROVE  Uncounting
  BY ReadLate, LateKept
<1>0. \A o \in Order, d \in Delivery : SchedulePair(o, d) => PairAdded(o, d)
  BY PairInserted
<1> USE Constants, RowIn, RowCases
    DEF TypeOK, RowState, ScanInv, Uncounting, Taken,
        sweepVars, patchVars, runVars, expiryVars, faultVars
<1>1. ASSUME NEW o \in Order, Create(o) PROVE Uncounting
  BY <1>1 DEF Create
<1>2. ASSUME NEW o \in Order, NEW d \in Delivery, Redeliver(o, d) PROVE Uncounting
  BY <1>2 DEF Redeliver, Fault
<1>3. ASSUME NEW o \in Order, NEW d \in Delivery, ScheduleCheck(o, d) PROVE Uncounting
  BY <1>3 DEF ScheduleCheck
<1>4. ASSUME NEW o \in Order, NEW d \in Delivery, SchedulePair(o, d) PROVE Uncounting
  <2>1. PairAdded(o, d)
    BY <1>0, <1>4
  <2> QED BY <2>1 DEF PairAdded
<1>5. ASSUME NEW o \in Order, NEW d \in Delivery, ScheduleSecond(o, d) PROVE Uncounting
  <2>1. row[<<o, d, "unpaid-invoice-second">>] = "absent"
    BY <1>5 DEF ScheduleSecond, FreshInv
  <2>2. \A r \in Row : row[r] # "absent" => row'[r] = row[r]
    BY <1>5, <2>1 DEF ScheduleSecond
  <2>3. /\ sched[<<o, d>>] = "second" /\ sched' = [sched EXCEPT ![<<o, d>>] = "done"]
        /\ UNCHANGED <<claimed, task, late, faults>>
    BY <1>5 DEF ScheduleSecond
  <2> QED BY <2>2, <2>3
<1>6. ASSUME NEW o \in Order, NEW d \in Delivery, ScheduleFails(o, d) PROVE Uncounting
  BY <1>6 DEF ScheduleFails, Fault
<1>7. ASSUME NEW r \in Row, FallsDue(r) PROVE Uncounting
  BY <1>7 DEF FallsDue
<1>8. ASSUME NEW r \in Row, GraceEnds(r) PROVE Uncounting
  BY <1>8 DEF GraceEnds
<1>9. CASE SweepBegin
  BY <1>9 DEF SweepBegin
<1>10. ASSUME NEW r \in Row, Claim(r) PROVE Uncounting
  BY <1>10 DEF Claim, FirstOf, Claimable
<1>11. ASSUME NEW r \in Row, ClaimRefused(r) PROVE Uncounting
  BY <1>11 DEF ClaimRefused
<1>12. CASE SweepCommit
  BY <1>12 DEF SweepCommit, SweepEnds
<1>13. CASE SweepDies
  BY <1>13 DEF SweepDies, SweepEnds, Fault
<1>14. ASSUME NEW r \in Row, RunSend(r) PROVE Uncounting
  BY <1>14 DEF RunSend
<1>15. ASSUME NEW r \in Row, RunFails(r) PROVE Uncounting
  BY <1>15 DEF RunFails, Fault
<1>16. ASSUME NEW o \in Order, Settle(o) PROVE Uncounting
  BY <1>16 DEF Settle
<1>17. ASSUME NEW o \in Order, CancelFollowUps(o) PROVE Uncounting
  BY <1>17 DEF CancelFollowUps, Cancellable
<1>18. CASE ExpiryScan
  BY <1>18 DEF ExpiryScan
<1>19. ASSUME NEW o \in Order, ExpiryCancel(o) PROVE Uncounting
  BY <1>19 DEF ExpiryCancel
<1>20. ASSUME NEW o \in Order, NEW n \in Request, PatchRead(o, n) PROVE Uncounting
  BY <1>20 DEF PatchRead
<1>21. ASSUME NEW o \in Order, NEW n \in Request, PatchUpdate(o, n) PROVE Uncounting
  BY <1>21 DEF PatchUpdate
<1>22. ASSUME NEW o \in Order, NEW n \in Request, PatchInsert(o, n) PROVE Uncounting
  BY <1>22 DEF PatchInsert, FreshInv
<1> QED BY <1>1, <1>2, <1>3, <1>4, <1>5, <1>6, <1>7, <1>8, <1>9, <1>10, <1>11, <1>12, <1>13,
    <1>14, <1>15, <1>16, <1>17, <1>18, <1>19, <1>20, <1>21, <1>22
        DEF Next, ScheduleStep, SweepStep, RunStep

LEMMA ExpiryStep ==
  ASSUME TypeOK, FreshInv, ScanInv, ExpiryInv, Next
  PROVE  ExpiryInv'
<1>0. \A o \in Order, d \in Delivery : SchedulePair(o, d) => PairAdded(o, d)
  BY PairInserted
<1> USE Constants, RowIn, RowCases, JobFacts
    DEF TypeOK, RowState, ScanInv, ExpiryInv, Taken, FinalGraced, RowsOf,
        sweepVars, patchVars, runVars, expiryVars, faultVars
<1>1. ASSUME NEW o \in Order, Create(o) PROVE ExpiryInv'
  BY <1>1 DEF Create
<1>2. ASSUME NEW o \in Order, NEW d \in Delivery, Redeliver(o, d) PROVE ExpiryInv'
  BY <1>2 DEF Redeliver, Fault
<1>3. ASSUME NEW o \in Order, NEW d \in Delivery, ScheduleCheck(o, d) PROVE ExpiryInv'
  BY <1>3 DEF ScheduleCheck
<1>4. ASSUME NEW o \in Order, NEW d \in Delivery, SchedulePair(o, d) PROVE ExpiryInv'
  <2>1. PairAdded(o, d)
    BY <1>0, <1>4
  <2>2. /\ \A r \in Row : row'[r] = row[r] \/ (row[r] = "absent" /\ row'[r] = "waiting")
        /\ UNCHANGED <<claimed, handed, refusals, expiring, expired>>
    BY <2>1 DEF PairAdded
  <2>3. \A p \in Order : FinalGraced(p) => FinalGraced(p)'
    BY <2>2
  <2> QED BY <2>2, <2>3
<1>5. ASSUME NEW o \in Order, NEW d \in Delivery, ScheduleSecond(o, d) PROVE ExpiryInv'
  BY <1>5 DEF ScheduleSecond, FreshInv
<1>6. ASSUME NEW o \in Order, NEW d \in Delivery, ScheduleFails(o, d) PROVE ExpiryInv'
  BY <1>6 DEF ScheduleFails, Fault
<1>7. ASSUME NEW r \in Row, FallsDue(r) PROVE ExpiryInv'
  BY <1>7 DEF FallsDue
<1>8. ASSUME NEW r \in Row, GraceEnds(r) PROVE ExpiryInv'
  BY <1>8 DEF GraceEnds
<1>9. CASE SweepBegin
  BY <1>9 DEF SweepBegin, Due
<1>10. ASSUME NEW r \in Row, Claim(r) PROVE ExpiryInv'
  BY <1>10 DEF Claim, FirstOf, Claimable
<1>11. ASSUME NEW r \in Row, ClaimRefused(r) PROVE ExpiryInv'
  BY <1>11 DEF ClaimRefused, FirstOf, Claimable
<1>12. CASE SweepCommit
  BY <1>12 DEF SweepCommit, SweepEnds
<1>13. CASE SweepDies
  BY <1>13 DEF SweepDies, SweepEnds, Fault
<1>14. ASSUME NEW r \in Row, RunRead(r) PROVE ExpiryInv'
  BY <1>14 DEF RunRead
<1>15. ASSUME NEW r \in Row, RunSend(r) PROVE ExpiryInv'
  BY <1>15 DEF RunSend
<1>16. ASSUME NEW r \in Row, RunFails(r) PROVE ExpiryInv'
  BY <1>16 DEF RunFails, Fault
<1>17. ASSUME NEW o \in Order, Settle(o) PROVE ExpiryInv'
  BY <1>17 DEF Settle
<1>18. ASSUME NEW o \in Order, CancelFollowUps(o) PROVE ExpiryInv'
  BY <1>18 DEF CancelFollowUps, Cancellable
<1>19. CASE ExpiryScan
  BY <1>19 DEF ExpiryScan, Overdue
<1>20. ASSUME NEW o \in Order, ExpiryCancel(o) PROVE ExpiryInv'
  BY <1>20 DEF ExpiryCancel
<1>21. ASSUME NEW o \in Order, NEW n \in Request, PatchRead(o, n) PROVE ExpiryInv'
  BY <1>21 DEF PatchRead
<1>22. ASSUME NEW o \in Order, NEW n \in Request, PatchUpdate(o, n) PROVE ExpiryInv'
  BY <1>22 DEF PatchUpdate
<1>23. ASSUME NEW o \in Order, NEW n \in Request, PatchInsert(o, n) PROVE ExpiryInv'
  BY <1>23 DEF PatchInsert, FreshInv
<1> QED BY <1>1, <1>2, <1>3, <1>4, <1>5, <1>6, <1>7, <1>8, <1>9, <1>10, <1>11, <1>12, <1>13,
    <1>14, <1>15, <1>16, <1>17, <1>18, <1>19, <1>20, <1>21, <1>22, <1>23
        DEF Next, ScheduleStep, SweepStep, RunStep

\* The steps outside the schedule consumer: they insert no reminder, remove
\* none and undo no disturbance.
Aside ==
  /\ UNCHANGED <<sched, half>>
  /\ \A o \in Order, n \in Request :
       patchPc'[<<o, n>>] = "read" => patchPc[<<o, n>>] = "read"
  /\ \A o \in Order, d \in Delivery, j \in Reminder :
       row'[<<o, d, j>>] = "absent" <=> row[<<o, d, j>>] = "absent"

LEMMA AsideSteps ==
  ASSUME TypeOK, FreshInv, ScanInv, Next,
         ~ \E o \in Order : Create(o) \/ \E d \in Delivery :
             Redeliver(o, d) \/ ScheduleStep(o, d) \/ ScheduleFails(o, d)
  PROVE  Aside
<1> USE RowIn, JobFacts
    DEF TypeOK, RowState, ScanInv, Aside,
        sweepVars, patchVars, runVars, expiryVars, faultVars
<1>1. ASSUME NEW r \in Row, FallsDue(r) PROVE Aside
  BY <1>1 DEF FallsDue
<1>2. ASSUME NEW r \in Row, GraceEnds(r) PROVE Aside
  BY <1>2 DEF GraceEnds
<1>3. CASE SweepBegin
  BY <1>3 DEF SweepBegin
<1>4. ASSUME NEW r \in Row, Claim(r) PROVE Aside
  BY <1>4 DEF Claim
<1>5. ASSUME NEW r \in Row, ClaimRefused(r) PROVE Aside
  BY <1>5 DEF ClaimRefused
<1>6. CASE SweepCommit
  BY <1>6 DEF SweepCommit, SweepEnds
<1>7. CASE SweepDies
  BY <1>7 DEF SweepDies, SweepEnds
<1>8. ASSUME NEW r \in Row, RunRead(r) PROVE Aside
  BY <1>8 DEF RunRead
<1>9. ASSUME NEW r \in Row, RunSend(r) PROVE Aside
  BY <1>9 DEF RunSend
<1>10. ASSUME NEW r \in Row, RunFails(r) PROVE Aside
  BY <1>10 DEF RunFails
<1>11. ASSUME NEW o \in Order, Settle(o) PROVE Aside
  BY <1>11 DEF Settle
<1>12. ASSUME NEW o \in Order, CancelFollowUps(o) PROVE Aside
  BY <1>12 DEF CancelFollowUps, Cancellable
<1>13. CASE ExpiryScan
  BY <1>13 DEF ExpiryScan
<1>14. ASSUME NEW o \in Order, ExpiryCancel(o) PROVE Aside
  BY <1>14 DEF ExpiryCancel
<1>15. ASSUME NEW o \in Order, NEW n \in Request, PatchRead(o, n) PROVE Aside
  BY <1>15 DEF PatchRead
<1>16. ASSUME NEW o \in Order, NEW n \in Request, PatchUpdate(o, n) PROVE Aside
  BY <1>16 DEF PatchUpdate
<1>17. ASSUME NEW o \in Order, NEW n \in Request, PatchInsert(o, n) PROVE Aside
  BY <1>17 DEF PatchInsert
<1> QED BY <1>1, <1>2, <1>3, <1>4, <1>5, <1>6, <1>7, <1>8, <1>9, <1>10, <1>11, <1>12, <1>13,
    <1>14, <1>15, <1>16, <1>17
        DEF Next, SweepStep, RunStep

\* An order stays scheduled in order while its deliveries and reminders stay
\* as they are.
LEMMA OrderedKept ==
  ASSUME NEW o \in Order, Ordered(o),
         \A d \in Delivery : sched'[<<o, d>>] = sched[<<o, d>>],
         \A d \in Delivery, j \in Reminder :
           row'[<<o, d, j>>] = "absent" <=> row[<<o, d, j>>] = "absent"
  PROVE  Ordered(o)'
BY JobFacts DEF Ordered, AllThere

\* The steps of the schedule consumer for delivery d of order o, seen from
\* that order.
LEMMA CheckOrdered ==
  ASSUME TypeOK, FreshInv, NEW o \in Order, NEW d \in Delivery, ScheduleCheck(o, d),
         Undisturbed(o), Ordered(o)
  PROVE  Ordered(o)'
<1>1. /\ sched[<<o, d>>] = "queued" /\ UNCHANGED row
      /\ sched' = [sched EXCEPT ![<<o, d>>] = IF Scheduled(o) THEN "done" ELSE "pair"]
  BY DEF ScheduleCheck
<1>2. AllThere(o)' <=> AllThere(o)
  BY <1>1 DEF AllThere
<1>3. \A j \in Reminder : row[<<o, d, j>>] = "absent"
  BY <1>1 DEF Ordered
<1>4. CASE Scheduled(o)
  <2>1. PICK r \in Row : OrderOf(r) = o /\ row[r] # "absent"
    BY <1>4 DEF Scheduled, RowsOf
  <2>2. PICK e \in Delivery, j \in Reminder : r = <<o, e, j>>
    <3>1. \A n \in Request : row[<<o, n, "delivery-confirmation">>] = "absent"
      BY DEF Undisturbed, FreshInv
    <3> QED BY <2>1, <3>1, RowCases
  <2>3. sched[<<o, e>>] \in {"second", "done"}
    BY <2>1, <2>2 DEF Ordered
  <2>4. AllThere(o) \/ \E f \in Delivery : sched[<<o, f>>] = "second"
    BY <2>3 DEF Ordered
  <2>5. AllThere(o)' \/ \E f \in Delivery : sched'[<<o, f>>] = "second"
    BY <1>1, <1>2, <2>4 DEF TypeOK
  <2> QED BY <1>1, <1>3, <1>4, <2>5 DEF Ordered, TypeOK
<1>5. CASE ~Scheduled(o)
  <2>1. \A e \in Delivery : sched'[<<o, e>>] = "second" <=> sched[<<o, e>>] = "second"
    BY <1>1, <1>5 DEF TypeOK
  <2>2. \A e \in Delivery : sched'[<<o, e>>] = "done" <=> sched[<<o, e>>] = "done"
    BY <1>1, <1>5 DEF TypeOK
  <2> QED BY <1>1, <1>2, <2>1, <2>2 DEF Ordered, TypeOK
<1> QED BY <1>4, <1>5

LEMMA PairOrdered ==
  ASSUME TypeOK, FreshInv, NEW o \in Order, NEW d \in Delivery, SchedulePair(o, d),
         Ordered(o)
  PROVE  Ordered(o)'
<1>1. PairAdded(o, d)
  BY PairInserted
<1>2. /\ \A e \in Delivery, j \in Reminder :
           /\ row[<<o, e, j>>] # "absent" => row'[<<o, e, j>>] # "absent"
           /\ e # d => row'[<<o, e, j>>] = row[<<o, e, j>>]
      /\ row'[<<o, d, "abandoned-cart">>] # "absent"
      /\ row'[<<o, d, "unpaid-invoice-first">>] # "absent"
  BY <1>1, RowIn DEF PairAdded
<1>3. sched' = [sched EXCEPT ![<<o, d>>] = "second"]
  BY <1>1 DEF PairAdded
<1>4. sched'[<<o, d>>] = "second" /\ \A e \in Delivery : e # d => sched'[<<o, e>>] = sched[<<o,
    e>>]
  BY <1>3 DEF TypeOK
<1> SUFFICES ASSUME NEW e \in Delivery
             PROVE  /\ sched'[<<o, e>>] = "second"
                         => /\ row'[<<o, e, "abandoned-cart">>] # "absent"
                            /\ row'[<<o, e, "unpaid-invoice-first">>] # "absent"
                    /\ (\E j \in Reminder : row'[<<o, e, j>>] # "absent")
                         => sched'[<<o, e>>] \in {"second", "done"}
  BY <1>4 DEF Ordered
<1>5. CASE e = d
  BY <1>2, <1>4, <1>5
<1>6. CASE e # d
  BY <1>2, <1>4, <1>6, JobFacts DEF Ordered
<1> QED BY <1>5, <1>6

LEMMA SecondOrdered ==
  ASSUME TypeOK, NEW o \in Order, NEW d \in Delivery, ScheduleSecond(o, d), Ordered(o)
  PROVE  Ordered(o)'
<1>1. /\ sched[<<o, d>>] = "second" /\ sched' = [sched EXCEPT ![<<o, d>>] = "done"]
      /\ row' = [row EXCEPT ![<<o, d, "unpaid-invoice-second">>] = "waiting"]
  BY DEF ScheduleSecond
<1>2. sched'[<<o, d>>] = "done" /\ \A e \in Delivery : e # d => sched'[<<o, e>>] = sched[<<o, e>>]
  BY <1>1 DEF TypeOK
<1>3. /\ \A e \in Delivery, j \in Reminder :
           e # d \/ j # "unpaid-invoice-second" => row'[<<o, e, j>>] = row[<<o, e, j>>]
      /\ row'[<<o, d, "unpaid-invoice-second">>] = "waiting"
  BY <1>1, RowIn, JobFacts DEF TypeOK
<1>4. \A j \in Reminder : row'[<<o, d, j>>] # "absent"
  BY <1>1, <1>3 DEF Ordered, Reminder
<1>5. AllThere(o)'
  BY <1>4 DEF AllThere
<1> SUFFICES ASSUME NEW e \in Delivery
             PROVE  /\ sched'[<<o, e>>] = "second"
                         => /\ row'[<<o, e, "abandoned-cart">>] # "absent"
                            /\ row'[<<o, e, "unpaid-invoice-first">>] # "absent"
                    /\ (\E j \in Reminder : row'[<<o, e, j>>] # "absent")
                         => sched'[<<o, e>>] \in {"second", "done"}
  BY <1>5 DEF Ordered
<1>6. CASE e = d
  BY <1>2, <1>6
<1>7. CASE e # d
  BY <1>2, <1>3, <1>7, JobFacts DEF Ordered
<1> QED BY <1>6, <1>7

\* Putting a delivery back into the queue: nothing was inserted for it, or
\* the order is disturbed.
LEMMA QueuedOrdered ==
  ASSUME TypeOK, NEW o \in Order, NEW d \in Delivery,
         sched[<<o, d>>] \in {"idle", "pair"}, sched' = [sched EXCEPT ![<<o, d>>] = "queued"],
         UNCHANGED row, FreshInv, Ordered(o)
  PROVE  Ordered(o)'
<1>1. sched'[<<o, d>>] = "queued" /\ \A e \in Delivery : e # d => sched'[<<o, e>>] = sched[<<o,
    e>>]
  BY DEF TypeOK
<1>2. \A j \in Reminder : row[<<o, d, j>>] = "absent"
  BY DEF FreshInv
<1>3. AllThere(o)' <=> AllThere(o)
  BY DEF AllThere
<1>4. \A e \in Delivery : sched[<<o, e>>] = "second" => sched'[<<o, e>>] = "second"
  BY <1>1
<1> QED BY <1>1, <1>2, <1>3, <1>4 DEF Ordered

LEMMA ScheduleKept ==
  ASSUME TypeOK, FreshInv, ScanInv, ScheduleInv, Next
  PROVE  ScheduleInv'
<1> SUFFICES ASSUME NEW p \in Order, Undisturbed(p)'
             PROVE  Ordered(p)'
  BY DEF ScheduleInv
<1>1. CASE Aside
  <2>1. Undisturbed(p)
    BY <1>1 DEF Aside, Undisturbed
  <2>2. Ordered(p)
    BY <2>1 DEF ScheduleInv
  <2> QED BY <1>1, <2>2, OrderedKept DEF Aside
<1>2. ASSUME NEW o \in Order, NEW d \in Delivery,
             \/ Create(o) /\ d = 1
             \/ Redeliver(o, d) \/ ScheduleStep(o, d) \/ ScheduleFails(o, d)
      PROVE  Ordered(p)'
  <2> USE DEF sweepVars, patchVars, runVars, expiryVars, faultVars
  <2>1. half \subseteq half' /\ UNCHANGED patchPc
    BY <1>2 DEF Create, Redeliver, ScheduleStep, ScheduleCheck, SchedulePair, ScheduleSecond,
        ScheduleFails
  <2>2. Undisturbed(p) /\ Ordered(p)
    BY <2>1 DEF Undisturbed, ScheduleInv
  <2>3. CASE p # o
    <3>1. \A e \in Delivery : sched'[<<p, e>>] = sched[<<p, e>>]
      BY <1>2, <2>3 DEF TypeOK, Create, Redeliver, ScheduleStep, ScheduleCheck, SchedulePair,
                        ScheduleSecond, ScheduleFails
    <3>2. \A e \in Delivery, j \in Reminder : row'[<<p, e, j>>] = row[<<p, e, j>>]
      <4>1. CASE SchedulePair(o, d)
        <5>1. PairAdded(o, d)
          BY <4>1, PairInserted
        <5> QED BY <2>3, <5>1, RowIn DEF PairAdded
      <4>2. CASE ~SchedulePair(o, d)
        BY <1>2, <2>3, <4>2, RowIn DEF TypeOK, Create, Redeliver, ScheduleStep, ScheduleCheck,
                        ScheduleSecond, ScheduleFails
      <4> QED BY <4>1, <4>2
    <3> QED BY <2>2, <3>1, <3>2, OrderedKept
  <2>4. CASE p = o
    <3>1. CASE Create(o) /\ d = 1
      BY <2>2, <2>4, <3>1, QueuedOrdered DEF Create, FreshInv
    <3>2. CASE Redeliver(o, d)
      BY <2>2, <2>4, <3>2, QueuedOrdered DEF Redeliver
    <3>3. CASE ScheduleCheck(o, d)
      BY <2>2, <2>4, <3>3, CheckOrdered
    <3>4. CASE SchedulePair(o, d)
      BY <2>2, <2>4, <3>4, PairOrdered
    <3>5. CASE ScheduleSecond(o, d)
      BY <2>2, <2>4, <3>5, SecondOrdered
    <3>6. CASE ScheduleFails(o, d)
      <4>1. sched[<<o, d>>] = "pair"
        BY <2>4, <3>6 DEF ScheduleFails, Undisturbed
      <4> QED BY <2>2, <2>4, <3>6, <4>1, QueuedOrdered DEF ScheduleFails
    <3> QED BY <1>2, <3>1, <3>2, <3>3, <3>4, <3>5, <3>6 DEF ScheduleStep
  <2> QED BY <2>3, <2>4
<1> QED BY <1>1, <1>2, AsideSteps, Constants

-----------------------------------------------------------------------------
(* The theorems.                                                           *)

LEMMA InvStart == Init => IInv
<1> SUFFICES ASSUME Init PROVE IInv
  OBVIOUS
<1>1. TypeOK
  BY TypesStart
<1>2. FreshInv /\ ScanInv
  BY RowIn DEF Init, FreshInv, ScanInv
<1>3. SentInv /\ ExpiryInv
  BY RowIn DEF Init, SentInv, ExpiryInv, Taken, Coming
<1>4. LateInv
  BY RowIn, Constants, JobFacts DEF Init, LateInv, Counted, Taken, Invoice
<1>5. ScheduleInv
  BY RowIn, JobFacts DEF Init, ScheduleInv, Ordered
<1> QED BY <1>1, <1>2, <1>3, <1>4, <1>5 DEF IInv

LEMMA InvKept == IInv /\ UNCHANGED vars => IInv'
<1> SUFFICES ASSUME IInv, UNCHANGED vars PROVE IInv'
  OBVIOUS
<1> USE DEF IInv, vars
<1>1. TypeOK' /\ FreshInv' /\ ScanInv'
  BY DEF TypeOK, FreshInv, ScanInv
<1>2. SentInv' /\ LateInv'
  BY DEF SentInv, LateInv, Counted, Taken, Coming
<1>3. ExpiryInv' /\ ScheduleInv'
  BY DEF ExpiryInv, Taken, FinalGraced, ScheduleInv, Ordered, AllThere, Undisturbed
<1> QED BY <1>1, <1>2, <1>3

LEMMA Invariant == Spec => []IInv
<1>1. Init => IInv
  BY InvStart
<1>2. IInv /\ [Next]_vars => IInv'
  BY TypesStep, FreshStep, ScanStep, SentStep, LateStep, ExpiryStep, ScheduleKept,
      InvKept DEF IInv
<1> QED BY <1>1, <1>2, PTL DEF Spec

\* Type correctness.
THEOREM TypesHold == Spec => []TypeOK
<1>1. IInv => TypeOK
  BY DEF IInv
<1> QED BY <1>1, Invariant, PTL

\* A row's reminder is sent once, and once more for each attempt that died:
\* overlapping scans, cancellations and refused enqueues repeat none.  And
\* where none died, an order's two invoice reminders are counted as late
\* payments once each (followup.go:116-124, 183-261).
THEOREM RepeatsAreFailures == Spec => []RemindersExplained
<1>1. IInv => RemindersExplained
  <2> SUFFICES ASSUME IInv PROVE RemindersExplained
    OBVIOUS
  <2>1. \A r \in Row : reminders[r] <= 1 + faults
    BY DEF IInv, SentInv, Coming, TypeOK
  <2>2. faults = 0 => \A o \in Order : late[o] <= 2
    BY DEF IInv, LateInv, Counted, TypeOK
  <2> QED BY <2>1, <2>2 DEF RemindersExplained
<1> QED BY <1>1, Invariant, PTL

\* A reminder that a payment cancelled was not sent and will not be, as long
\* as no attempt died: the cancellation waits for the scan that holds the
\* row and leaves claimed rows alone (payment_events.go:254-269).
THEOREM CancelledStayUnsent == Spec => []CancelledUnsent
<1>1. IInv => CancelledUnsent
  BY DEF IInv, SentInv, ScanInv, Taken, Coming, TypeOK, CancelledUnsent
<1> QED BY <1>1, Invariant, PTL

\* An order expires only when its final reminder was handed to the queue and
\* the grace after it passed, unless the queue refused a reminder
\* (checkout_expiry.go:23-86).
THEOREM ExpiryAfterFinal == Spec => []ExpiredAfterFinal
<1>1. IInv => ExpiredAfterFinal
  BY DEF IInv, ExpiryInv, FinalGraced, Taken, RowsOf, ExpiredAfterFinal
<1> QED BY <1>1, Invariant, PTL

\* Once the schedule consumer is done with an order, however often its event
\* was delivered and whichever deliveries raced, all three reminders exist,
\* unless an attempt died between the two inserts or an operator had
\* touched the order (followup_schedule.go:39-89).
THEOREM ScheduleComplete == Spec => []AllThreeScheduled
<1>1. IInv => AllThreeScheduled
  BY DEF IInv, ScheduleInv, Ordered, AllThere, AllThreeScheduled
<1> QED BY <1>1, Invariant, PTL
=============================================================================
