---------------------------- MODULE OutboundProofs ----------------------------
(***************************************************************************)
(* Proofs about Outbound, for any number of messages, replies, retries and *)
(* failures.                                                               *)
(***************************************************************************)
EXTENDS Outbound, TLAPS

-----------------------------------------------------------------------------
(* The inductive invariant.                                                *)

\* Only the holder of the conversation lock sends and records, and it has
\* something left to do, no message beyond its own.
LockInv ==
  /\ \A x \in Runner : run[x] \in {"send", "mark"} <=> holder = x
  /\ holder = NoOne <=> backlog = {}
  /\ \A x \in Runner : holder = x => \A m \in backlog : m <= Own(x)

\* Everything refers to messages that were written, and they were written in
\* the order of their numbers.
Present(m) == status[m] # "absent"

PresentInv ==
  /\ \A x \in Runner : run[x] # "none" => Present(Own(x))
  /\ \A m \in unpub \cup backlog \cup todo \cup stale : Present(m)
  /\ \A m \in Msg : sends[m] > 0 => Present(m)
  /\ \A i, m \in Msg : i < m /\ Present(m) => Present(i)

\* Failures after which a message that reached the customer may stay pending.
Unrecorded == crashes + timeouts + lost

\* The message whose delivery the holder has yet to record.
Marking(m) == Least(backlog, m) /\ \E x \in Runner : run[x] = "mark"

\* A message that may still be sent was sent before only because of such a
\* failure; one that is settled, or about to be recorded, once more.
SendsInv ==
  \A m \in Msg :
    /\ sends[m] <= 1 + Unrecorded
    /\ (~Present(m) \/ status[m] = "pending" \/ m \in backlog) /\ ~Marking(m)
         => sends[m] <= Unrecorded
    /\ Marking(m) => sends[m] > 0

\* A message that failed is not looked at again.
FailedInv ==
  /\ \A m \in Msg : status[m] = "failed" => m \notin backlog
  /\ FailedUndelivered

\* No send was rejected or timed out, and no reply was withdrawn.
Calm == rejects + timeouts + cancels = 0

\* Then nothing is settled that was not sent, and whatever precedes a message
\* of the backlog is in the backlog or was sent.
OrderInv ==
  /\ Calm => /\ \A m \in Msg : status[m] \notin {"failed", "deleted"}
             /\ \A m \in Msg : status[m] \in {"sent", "failed_stale"} => sends[m] > 0
             /\ \A m \in stale : sends[m] > 0
             /\ \A x \in Runner : run[x] # "delete"
             /\ \A m \in backlog, i \in Msg : i < m => i \in backlog \/ sends[i] > 0
  /\ InOrder

IInv == TypeOK /\ LockInv /\ PresentInv /\ SendsInv /\ FailedInv /\ OrderInv

-----------------------------------------------------------------------------
(* Facts about the constants.                                              *)

LEMMA Constants ==
  /\ MaxMsg \in Nat \ {0} /\ Reply \subseteq Msg /\ MaxRetry \in Nat /\ MaxCrashes \in Nat
  /\ MaxRejects \in Nat /\ MaxTimeouts \in Nat /\ MaxLost \in Nat /\ MaxCancels \in Nat
  /\ Window \in Nat \ {0} /\ NoOne \notin Runner
BY OutboundAssumption

\* A runner delivers a message of its own: m that of the queue task m, and
\* of the inline delivery -m.
LEMMA RunnerFacts ==
  /\ \A x \in Runner : /\ x \in Int /\ x # NoOne /\ Own(x) \in Msg
                       /\ x >= 0 => x \in Msg /\ Own(x) = x
  /\ \A m \in Msg : m \in Nat /\ m > 0 /\ m \in Runner /\ Own(m) = m
  /\ \A m \in Reply : -m \in Runner /\ Own(-m) = m
<1>1. \A m \in Msg : m \in Nat /\ m > 0 /\ m \in Runner /\ Own(m) = m
  BY Constants DEF Msg, Runner, Own
<1>2. \A m \in Reply : m \in Msg /\ -m \in Runner /\ -m < 0 /\ Own(-m) = m
  BY <1>1, Constants DEF Runner, Own
<1>3. ASSUME NEW x \in Runner
      PROVE  x \in Int /\ x # NoOne /\ Own(x) \in Msg /\ (x >= 0 => x \in Msg /\ Own(x) = x)
  <2>1. CASE x \in Msg
    BY <1>1, <2>1, Constants
  <2>2. CASE \E m \in Reply : x = -m
    BY <1>1, <1>2, <2>2, Constants
  <2> QED BY <2>1, <2>2 DEF Runner
<1> QED BY <1>1, <1>2, <1>3

-----------------------------------------------------------------------------
(* Type correctness.                                                       *)

LEMMA TypesStart == Init => TypeOK
<1> SUFFICES ASSUME Init PROVE TypeOK
  OBVIOUS
<1>1. sweeping \in BOOLEAN
  BY DEF Init
<1> QED BY <1>1, Constants DEF Init, TypeOK

LEMMA TypesStep ==
  ASSUME TypeOK, Next
  PROVE  TypeOK'
<1> USE Constants, RunnerFacts
    DEF TypeOK,
        rowVars, runVars, sweepVars, failures
<1>1. ASSUME NEW m \in Msg, Insert(m) PROVE TypeOK'
  BY <1>1 DEF Insert
<1>2. ASSUME NEW m \in Msg, Publish(m) PROVE TypeOK'
  BY <1>2 DEF Publish, Enqueue
<1>3. ASSUME NEW m \in Msg, PublishLost(m) PROVE TypeOK'
  BY <1>3 DEF PublishLost
<1>4. ASSUME NEW x \in Runner, Load(x) PROVE TypeOK'
  BY <1>4 DEF Load
<1>5. ASSUME NEW x \in Runner, Lock(x) PROVE TypeOK'
  <2>1. Backlog(x) \subseteq Msg
    BY DEF Backlog, Msg
  <2> QED BY <1>5, <2>1 DEF Lock, Finish
<1>6. ASSUME NEW x \in Runner, Send(x) PROVE TypeOK'
  BY <1>6 DEF Send
<1>7. ASSUME NEW x \in Runner, Mark(x) PROVE TypeOK'
  BY <1>7 DEF Mark, GoOn, Finish
<1>8. ASSUME NEW x \in Runner, SendRejected(x) PROVE TypeOK'
  BY <1>8 DEF SendRejected, SendError, GoOn, Finish, Fail, AfterFailure, MarkFailed
<1>9. ASSUME NEW x \in Runner, SendTimesOut(x) PROVE TypeOK'
  BY <1>9 DEF SendTimesOut, SendError, GoOn, Finish, Fail, AfterFailure, MarkFailed
<1>10. ASSUME NEW x \in Runner, MarkLost(x) PROVE TypeOK'
  BY <1>10 DEF MarkLost, GoOn, Finish
<1>11. ASSUME NEW x \in Runner, Crash(x) PROVE TypeOK'
  BY <1>11 DEF Crash, Fail, AfterFailure
<1>12. ASSUME NEW x \in Runner, CancelReply(x) PROVE TypeOK'
  BY <1>12 DEF CancelReply
<1>13. CASE SweepBegin
  <2>1. PICK age \in Msg, room \in 1..Window : todo' = Stranded(age, room)
    BY <1>13 DEF SweepBegin
  <2>2. todo' \subseteq Msg
    BY <2>1 DEF Msg, Stranded
  <2>3. sweeping' \in BOOLEAN
    BY <1>13 DEF SweepBegin
  <2> QED BY <1>13, <2>2, <2>3 DEF SweepBegin
<1>14. ASSUME NEW m \in Msg, SweepRow(m) PROVE TypeOK'
  BY <1>14 DEF SweepRow, Enqueue
<1>15. CASE SweepCommit
  BY <1>15 DEF SweepCommit, SweepEnds
<1>16. CASE SweepDies
  <2>1. sweeping' \in BOOLEAN
    BY <1>16 DEF SweepDies, SweepEnds
  <2> QED BY <1>16, <2>1 DEF SweepDies, SweepEnds
<1>17. ASSUME NEW x \in Runner, DropReply(x) PROVE TypeOK'
  BY <1>17 DEF DropReply
<1>18. ASSUME NEW x \in Runner, DropFails(x) PROVE TypeOK'
  BY <1>18 DEF DropFails
<1> QED BY <1>1, <1>2, <1>3, <1>4, <1>5, <1>6, <1>7, <1>8, <1>9, <1>10, <1>11, <1>12, <1>13, <1>14,
        <1>15, <1>16, <1>17, <1>18
     DEF Next, RunnerStep, RunnerFailure, SweepStep

LEMMA LockStep ==
  ASSUME TypeOK, LockInv, PresentInv, Next
  PROVE  LockInv'
<1> USE Constants, RunnerFacts
    DEF TypeOK, LockInv, Least,
        rowVars, runVars, sweepVars, failures
<1>1. ASSUME NEW m \in Msg, Insert(m) PROVE LockInv'
  BY <1>1 DEF Insert, PresentInv, Present
<1>2. ASSUME NEW m \in Msg, Publish(m) PROVE LockInv'
  BY <1>2 DEF Publish, Enqueue
<1>3. ASSUME NEW m \in Msg, PublishLost(m) PROVE LockInv'
  BY <1>3 DEF PublishLost
<1>4. ASSUME NEW x \in Runner, Load(x) PROVE LockInv'
  BY <1>4 DEF Load
<1>5. ASSUME NEW x \in Runner, Lock(x) PROVE LockInv'
  BY <1>5 DEF Lock, Backlog, Finish
<1>6. ASSUME NEW x \in Runner, Send(x) PROVE LockInv'
  BY <1>6 DEF Send
<1>7. ASSUME NEW x \in Runner, Mark(x) PROVE LockInv'
  BY <1>7 DEF Mark, GoOn, Finish
<1>8. ASSUME NEW x \in Runner, SendRejected(x) PROVE LockInv'
  BY <1>8 DEF SendRejected, SendError, GoOn, Finish, Fail, AfterFailure, MarkFailed
<1>9. ASSUME NEW x \in Runner, SendTimesOut(x) PROVE LockInv'
  BY <1>9 DEF SendTimesOut, SendError, GoOn, Finish, Fail, AfterFailure, MarkFailed
<1>10. ASSUME NEW x \in Runner, MarkLost(x) PROVE LockInv'
  BY <1>10 DEF MarkLost, GoOn, Finish
<1>11. ASSUME NEW x \in Runner, Crash(x) PROVE LockInv'
  BY <1>11 DEF Crash, Fail, AfterFailure
<1>12. ASSUME NEW x \in Runner, CancelReply(x) PROVE LockInv'
  BY <1>12 DEF CancelReply
<1>13. CASE SweepBegin
  BY <1>13 DEF SweepBegin
<1>14. ASSUME NEW m \in Msg, SweepRow(m) PROVE LockInv'
  BY <1>14 DEF SweepRow, Enqueue
<1>15. CASE SweepCommit
  BY <1>15 DEF SweepCommit, SweepEnds
<1>16. CASE SweepDies
  BY <1>16 DEF SweepDies, SweepEnds
<1>17. ASSUME NEW x \in Runner, DropReply(x) PROVE LockInv'
  BY <1>17 DEF DropReply
<1>18. ASSUME NEW x \in Runner, DropFails(x) PROVE LockInv'
  BY <1>18 DEF DropFails
<1> QED BY <1>1, <1>2, <1>3, <1>4, <1>5, <1>6, <1>7, <1>8, <1>9, <1>10, <1>11, <1>12, <1>13, <1>14,
        <1>15, <1>16, <1>17, <1>18
     DEF Next, RunnerStep, RunnerFailure, SweepStep

LEMMA PresentStep ==
  ASSUME TypeOK, LockInv, PresentInv, Next
  PROVE  PresentInv'
<1> USE Constants, RunnerFacts
    DEF TypeOK, PresentInv, Present, Least,
        rowVars, runVars, sweepVars, failures
<1>1. ASSUME NEW m \in Msg, Insert(m) PROVE PresentInv'
  BY <1>1 DEF Insert
<1>2. ASSUME NEW m \in Msg, Publish(m) PROVE PresentInv'
  BY <1>2 DEF Publish, Enqueue
<1>3. ASSUME NEW m \in Msg, PublishLost(m) PROVE PresentInv'
  BY <1>3 DEF PublishLost
<1>4. ASSUME NEW x \in Runner, Load(x) PROVE PresentInv'
  BY <1>4 DEF Load
<1>5. ASSUME NEW x \in Runner, Lock(x) PROVE PresentInv'
  BY <1>5 DEF Lock, Backlog, Finish
<1>6. ASSUME NEW x \in Runner, Send(x) PROVE PresentInv'
  BY <1>6 DEF Send
<1>7. ASSUME NEW x \in Runner, Mark(x) PROVE PresentInv'
  BY <1>7 DEF Mark, GoOn, Finish
<1>8. ASSUME NEW x \in Runner, SendRejected(x) PROVE PresentInv'
  BY <1>8 DEF SendRejected, SendError, GoOn, Finish, Fail, AfterFailure, MarkFailed
<1>9. ASSUME NEW x \in Runner, SendTimesOut(x) PROVE PresentInv'
  BY <1>9 DEF SendTimesOut, SendError, GoOn, Finish, Fail, AfterFailure, MarkFailed
<1>10. ASSUME NEW x \in Runner, MarkLost(x) PROVE PresentInv'
  BY <1>10 DEF MarkLost, GoOn, Finish
<1>11. ASSUME NEW x \in Runner, Crash(x) PROVE PresentInv'
  BY <1>11 DEF Crash, Fail, AfterFailure
<1>12. ASSUME NEW x \in Runner, CancelReply(x) PROVE PresentInv'
  BY <1>12 DEF CancelReply
<1>13. CASE SweepBegin
  BY <1>13 DEF SweepBegin, Stranded
<1>14. ASSUME NEW m \in Msg, SweepRow(m) PROVE PresentInv'
  BY <1>14 DEF SweepRow, Enqueue
<1>15. CASE SweepCommit
  BY <1>15 DEF SweepCommit, SweepEnds
<1>16. CASE SweepDies
  BY <1>16 DEF SweepDies, SweepEnds
<1>17. ASSUME NEW x \in Runner, DropReply(x) PROVE PresentInv'
  BY <1>17 DEF DropReply
<1>18. ASSUME NEW x \in Runner, DropFails(x) PROVE PresentInv'
  BY <1>18 DEF DropFails
<1> QED BY <1>1, <1>2, <1>3, <1>4, <1>5, <1>6, <1>7, <1>8, <1>9, <1>10, <1>11, <1>12, <1>13, <1>14,
        <1>15, <1>16, <1>17, <1>18
     DEF Next, RunnerStep, RunnerFailure, SweepStep

LEMMA SendsStep ==
  ASSUME TypeOK, LockInv, PresentInv, SendsInv, Next
  PROVE  SendsInv'
<1> USE Constants, RunnerFacts
    DEF TypeOK, LockInv, PresentInv, Present, SendsInv, Marking, Unrecorded, Least,
        rowVars, runVars, sweepVars, failures
<1>1. ASSUME NEW m \in Msg, Insert(m) PROVE SendsInv'
  BY <1>1 DEF Insert
<1>2. ASSUME NEW m \in Msg, Publish(m) PROVE SendsInv'
  BY <1>2 DEF Publish, Enqueue
<1>3. ASSUME NEW m \in Msg, PublishLost(m) PROVE SendsInv'
  BY <1>3 DEF PublishLost
<1>4. ASSUME NEW x \in Runner, Load(x) PROVE SendsInv'
  BY <1>4 DEF Load
<1>5. ASSUME NEW x \in Runner, Lock(x) PROVE SendsInv'
  BY <1>5 DEF Lock, Backlog, Finish
<1>6. ASSUME NEW x \in Runner, Send(x) PROVE SendsInv'
  BY <1>6 DEF Send
<1>7. ASSUME NEW x \in Runner, Mark(x) PROVE SendsInv'
  BY <1>7 DEF Mark, GoOn, Finish
<1>8. ASSUME NEW x \in Runner, SendRejected(x) PROVE SendsInv'
  BY <1>8 DEF SendRejected, SendError, GoOn, Finish, Fail, AfterFailure, MarkFailed
<1>9. ASSUME NEW x \in Runner, SendTimesOut(x) PROVE SendsInv'
  BY <1>9 DEF SendTimesOut, SendError, GoOn, Finish, Fail, AfterFailure, MarkFailed
<1>10. ASSUME NEW x \in Runner, MarkLost(x) PROVE SendsInv'
  BY <1>10 DEF MarkLost, GoOn, Finish
<1>11. ASSUME NEW x \in Runner, Crash(x) PROVE SendsInv'
  BY <1>11 DEF Crash, Fail, AfterFailure
<1>12. ASSUME NEW x \in Runner, CancelReply(x) PROVE SendsInv'
  BY <1>12 DEF CancelReply
<1>13. CASE SweepBegin
  BY <1>13 DEF SweepBegin
<1>14. ASSUME NEW m \in Msg, SweepRow(m) PROVE SendsInv'
  BY <1>14 DEF SweepRow, Enqueue
<1>15. CASE SweepCommit
  BY <1>15 DEF SweepCommit, SweepEnds
<1>16. CASE SweepDies
  BY <1>16 DEF SweepDies, SweepEnds
<1>17. ASSUME NEW x \in Runner, DropReply(x) PROVE SendsInv'
  BY <1>17 DEF DropReply
<1>18. ASSUME NEW x \in Runner, DropFails(x) PROVE SendsInv'
  BY <1>18 DEF DropFails
<1> QED BY <1>1, <1>2, <1>3, <1>4, <1>5, <1>6, <1>7, <1>8, <1>9, <1>10, <1>11, <1>12, <1>13, <1>14,
        <1>15, <1>16, <1>17, <1>18
     DEF Next, RunnerStep, RunnerFailure, SweepStep

LEMMA FailedStep ==
  ASSUME TypeOK, LockInv, PresentInv, SendsInv, FailedInv, Next
  PROVE  FailedInv'
<1> USE Constants, RunnerFacts
    DEF TypeOK, LockInv, FailedInv, FailedUndelivered, Least,
        rowVars, runVars, sweepVars, failures
<1>1. ASSUME NEW m \in Msg, Insert(m) PROVE FailedInv'
  BY <1>1 DEF Insert
<1>2. ASSUME NEW m \in Msg, Publish(m) PROVE FailedInv'
  BY <1>2 DEF Publish, Enqueue
<1>3. ASSUME NEW m \in Msg, PublishLost(m) PROVE FailedInv'
  BY <1>3 DEF PublishLost
<1>4. ASSUME NEW x \in Runner, Load(x) PROVE FailedInv'
  BY <1>4 DEF Load
<1>5. ASSUME NEW x \in Runner, Lock(x) PROVE FailedInv'
  BY <1>5 DEF Lock, Backlog, Finish
<1>6. ASSUME NEW x \in Runner, Send(x) PROVE FailedInv'
  BY <1>6 DEF Send
<1>7. ASSUME NEW x \in Runner, Mark(x) PROVE FailedInv'
  BY <1>7 DEF Mark, GoOn, Finish
<1>8. ASSUME NEW x \in Runner, SendRejected(x) PROVE FailedInv'
  <2>1. PICK i \in Msg : Least(backlog, i) /\ SendError(x, i)
    BY <1>8 DEF SendRejected
  <2>2. ~Marking(i) /\ UNCHANGED <<sends, crashes, timeouts>>
    BY <1>8 DEF SendRejected, Marking
  <2>3. Unrecorded = 0 => sends[i] = 0
    BY <2>1, <2>2 DEF SendsInv
  <2> QED BY <2>1, <2>2, <2>3
          DEF SendError, GoOn, Finish, Fail, AfterFailure, MarkFailed, Unrecorded
<1>9. ASSUME NEW x \in Runner, SendTimesOut(x) PROVE FailedInv'
  BY <1>9 DEF SendTimesOut, SendError, GoOn, Finish, Fail, AfterFailure, MarkFailed
<1>10. ASSUME NEW x \in Runner, MarkLost(x) PROVE FailedInv'
  BY <1>10 DEF MarkLost, GoOn, Finish
<1>11. ASSUME NEW x \in Runner, Crash(x) PROVE FailedInv'
  BY <1>11 DEF Crash, Fail, AfterFailure
<1>12. ASSUME NEW x \in Runner, CancelReply(x) PROVE FailedInv'
  BY <1>12 DEF CancelReply
<1>13. CASE SweepBegin
  BY <1>13 DEF SweepBegin
<1>14. ASSUME NEW m \in Msg, SweepRow(m) PROVE FailedInv'
  BY <1>14 DEF SweepRow, Enqueue
<1>15. CASE SweepCommit
  BY <1>15 DEF SweepCommit, SweepEnds
<1>16. CASE SweepDies
  BY <1>16 DEF SweepDies, SweepEnds
<1>17. ASSUME NEW x \in Runner, DropReply(x) PROVE FailedInv'
  BY <1>17 DEF DropReply
<1>18. ASSUME NEW x \in Runner, DropFails(x) PROVE FailedInv'
  BY <1>18 DEF DropFails
<1> QED BY <1>1, <1>2, <1>3, <1>4, <1>5, <1>6, <1>7, <1>8, <1>9, <1>10, <1>11, <1>12, <1>13, <1>14,
        <1>15, <1>16, <1>17, <1>18
     DEF Next, RunnerStep, RunnerFailure, SweepStep

LEMMA OrderStep ==
  ASSUME TypeOK, LockInv, PresentInv, SendsInv, OrderInv, Next
  PROVE  OrderInv'
<1> USE Constants, RunnerFacts
    DEF TypeOK, LockInv, PresentInv, Present, OrderInv, InOrder, Calm, Least,
        rowVars, runVars, sweepVars, failures
<1>1. ASSUME NEW m \in Msg, Insert(m) PROVE OrderInv'
  BY <1>1 DEF Insert
<1>2. ASSUME NEW m \in Msg, Publish(m) PROVE OrderInv'
  BY <1>2 DEF Publish, Enqueue
<1>3. ASSUME NEW m \in Msg, PublishLost(m) PROVE OrderInv'
  BY <1>3 DEF PublishLost
<1>4. ASSUME NEW x \in Runner, Load(x) PROVE OrderInv'
  BY <1>4 DEF Load
<1>5. ASSUME NEW x \in Runner, Lock(x) PROVE OrderInv'
  BY <1>5 DEF Lock, Backlog, Finish
<1>6. ASSUME NEW x \in Runner, Send(x) PROVE OrderInv'
  BY <1>6 DEF Send
<1>7. ASSUME NEW x \in Runner, Mark(x) PROVE OrderInv'
  <2>1. PICK i \in Msg :
          /\ Least(backlog, i)
          /\ status' = [status EXCEPT ![i] = IF @ = "deleted" THEN @ ELSE "sent"]
          /\ backlog' = backlog \ {i}
    BY <1>7 DEF Mark, GoOn
  <2>2. sends[i] > 0
    BY <1>7, <2>1 DEF Mark, SendsInv, Marking
  <2>3. \A y \in Runner : run'[y] = "delete" => run[y] = "delete"
    BY <1>7 DEF Mark, GoOn, Finish
  <2> QED BY <1>7, <2>1, <2>2, <2>3 DEF Mark
<1>8. ASSUME NEW x \in Runner, SendRejected(x) PROVE OrderInv'
  BY <1>8 DEF SendRejected, SendError, GoOn, Finish, Fail, AfterFailure, MarkFailed
<1>9. ASSUME NEW x \in Runner, SendTimesOut(x) PROVE OrderInv'
  BY <1>9 DEF SendTimesOut, SendError, GoOn, Finish, Fail, AfterFailure, MarkFailed
<1>10. ASSUME NEW x \in Runner, MarkLost(x) PROVE OrderInv'
  <2>1. PICK i \in Msg :
          /\ Least(backlog, i)
          /\ backlog' = backlog \ {i}
          /\ \A y \in Runner : run'[y] = "delete" => run[y] = "delete"
    BY <1>10 DEF MarkLost, GoOn, Finish
  <2>2. sends[i] > 0
    BY <1>10, <2>1 DEF MarkLost, SendsInv, Marking
  <2> QED BY <1>10, <2>1, <2>2 DEF MarkLost
<1>11. ASSUME NEW x \in Runner, Crash(x) PROVE OrderInv'
  BY <1>11 DEF Crash, Fail, AfterFailure
<1>12. ASSUME NEW x \in Runner, CancelReply(x) PROVE OrderInv'
  BY <1>12 DEF CancelReply
<1>13. CASE SweepBegin
  BY <1>13 DEF SweepBegin
<1>14. ASSUME NEW m \in Msg, SweepRow(m) PROVE OrderInv'
  BY <1>14 DEF SweepRow, Enqueue, NewerSent
<1>15. CASE SweepCommit
  BY <1>15 DEF SweepCommit, SweepEnds
<1>16. CASE SweepDies
  BY <1>16 DEF SweepDies, SweepEnds
<1>17. ASSUME NEW x \in Runner, DropReply(x) PROVE OrderInv'
  BY <1>17 DEF DropReply
<1>18. ASSUME NEW x \in Runner, DropFails(x) PROVE OrderInv'
  BY <1>18 DEF DropFails
<1> QED BY <1>1, <1>2, <1>3, <1>4, <1>5, <1>6, <1>7, <1>8, <1>9, <1>10, <1>11, <1>12, <1>13, <1>14,
        <1>15, <1>16, <1>17, <1>18
     DEF Next, RunnerStep, RunnerFailure, SweepStep

-----------------------------------------------------------------------------
(* The theorems.                                                           *)

LEMMA InvStart == Init => IInv
<1> SUFFICES ASSUME Init PROVE IInv
  OBVIOUS
<1>1. TypeOK
  BY TypesStart
<1>2. LockInv /\ PresentInv
  BY Constants, RunnerFacts DEF Init, LockInv, PresentInv, Present
<1>3. SendsInv /\ FailedInv /\ OrderInv
  BY Constants, RunnerFacts
     DEF Init, SendsInv, Marking, Unrecorded, FailedInv, FailedUndelivered, OrderInv, InOrder, Least
<1> QED BY <1>1, <1>2, <1>3 DEF IInv

LEMMA InvKept == IInv /\ UNCHANGED vars => IInv'
<1> SUFFICES ASSUME IInv, UNCHANGED vars PROVE IInv'
  OBVIOUS
<1> USE DEF IInv, vars
<1>1. TypeOK' /\ LockInv' /\ PresentInv'
  BY DEF TypeOK, LockInv, PresentInv, Present
<1>2. SendsInv'
  BY DEF SendsInv, Present, Marking, Unrecorded, Least
<1>3. FailedInv' /\ OrderInv'
  BY DEF FailedInv, FailedUndelivered, OrderInv, InOrder, Calm
<1> QED BY <1>1, <1>2, <1>3

LEMMA Invariant == Spec => []IInv
<1>1. Init => IInv
  BY InvStart
<1>2. IInv /\ [Next]_vars => IInv'
  BY TypesStep, LockStep, PresentStep, SendsStep, FailedStep, OrderStep, InvKept DEF IInv
<1> QED BY <1>1, <1>2, PTL DEF Spec

\* Type correctness; no task is retried more often than the queue allows.
THEOREM TypesHold == Spec => []TypeOK
<1>1. IInv => TypeOK
  BY DEF IInv
<1> QED BY <1>1, Invariant, PTL

\* However runners, replies and sweeps interleave, a customer sees a message
\* again only after a runner died, a send reported an error for a message
\* that went out, or a result could not be recorded: the conversation lock
\* and the re-read of pending rows under it exclude every other double send
\* (outbound.go:132-146).
THEOREM NoUnexplainedDuplicate == Spec => []DuplicatesExplained
<1>1. IInv => DuplicatesExplained
  BY DEF IInv, SendsInv, Unrecorded, DuplicatesExplained, TypeOK
<1> QED BY <1>1, Invariant, PTL

\* A message recorded as failed never reached the customer, unless a runner
\* died, a send timed out or a result was lost (outbound.go:170-183).
THEOREM FailedNeverArrived == Spec => []FailedUndelivered
<1>1. IInv => FailedUndelivered
  BY DEF IInv, FailedInv
<1> QED BY <1>1, Invariant, PTL

\* Messages of a conversation reach the customer in the order they were
\* written, though runners and sweeps die and results are lost, as long as
\* no send is rejected and no reply withdrawn (outbound.go:8-14).
THEOREM DeliveredInOrder == Spec => []InOrder
<1>1. IInv => InOrder
  BY DEF IInv, OrderInv
<1> QED BY <1>1, Invariant, PTL
=============================================================================
