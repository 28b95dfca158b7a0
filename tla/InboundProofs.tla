---------------------------- MODULE InboundProofs -----------------------------
(***************************************************************************)
(* Proofs about Inbound, for any number of messages, deliveries, turns,    *)
(* retries, failures and takeovers.                                        *)
(***************************************************************************)
EXTENDS Inbound, FiniteSetTheorems, TLAPS

USE DEF NoMark

-----------------------------------------------------------------------------
(* Type correctness.                                                       *)

LEMMA Constants ==
  /\ MaxMessages \in Nat /\ Keyword \subseteq Message /\ Media \subseteq Message
  /\ Redelivered \subseteq Message /\ MaxDeliveries \in Nat \ {0}
  /\ MaxFresh \in Nat /\ MaxRetry \in Nat
  /\ MaxFaults \in Nat /\ MaxTakeovers \in Nat
BY InboundAssumption

LEMMA FixedIsTurn == Fixed \in Turn /\ Fresh \subseteq Turn
BY DEF Turn, Fixed

\* Counting the stored messages, and one more.
LEMMA CountRows ==
  ASSUME rows \subseteq Message
  PROVE  /\ Cardinality(rows) \in Nat
         /\ \A m \in Message \ rows : Cardinality(rows \cup {m}) = Cardinality(rows) + 1
<1>1. IsFiniteSet(Message)
  BY Constants, FS_Interval DEF Message
<1>2. IsFiniteSet(rows)
  BY <1>1, FS_Subset
<1>3. Cardinality(rows) \in Nat
  BY <1>2, FS_CardinalityType
<1>4. ASSUME NEW m \in Message \ rows
      PROVE  Cardinality(rows \cup {m}) = Cardinality(rows) + 1
  BY <1>2, <1>4, FS_AddElement
<1> QED BY <1>3, <1>4

LEMMA InitTypes == Init => TypeOK
<1> SUFFICES ASSUME Init PROVE TypeOK
  OBVIOUS
<1>1. tries \in [Message -> 0..MaxRetry] /\ faults \in 0..MaxFaults /\ takeovers \in 0..MaxTakeovers
  BY Constants DEF Init
<1>2. escalated \in BOOLEAN
  BY DEF Init
<1> QED BY <1>1, <1>2 DEF Init, TypeOK

LEMMA IngestTypes ==
  ASSUME TypeOK, NEW m \in Message, NEW d \in Delivery,
         \/ Receive(m, d) \/ Claim(m, d) \/ QueueJob(m, d) \/ CommitClaim(m, d)
         \/ AbandonClaim(m, d)
  PROVE  TypeOK'
<1> USE Constants DEF TypeOK, jobVars, turnVars, guardVars
<1>1. CASE Receive(m, d)
  BY <1>1 DEF Receive
<1>2. CASE Claim(m, d)
  BY <1>2 DEF Claim
<1>3. CASE QueueJob(m, d)
  BY <1>3 DEF QueueJob
<1>4. CASE CommitClaim(m, d)
  BY <1>4 DEF CommitClaim
<1>5. CASE AbandonClaim(m, d)
  BY <1>5 DEF AbandonClaim, Fault
<1> QED BY <1>1, <1>2, <1>3, <1>4, <1>5

LEMMA JobTypes ==
  ASSUME TypeOK, NEW m \in Message, JobNext(m) \/ FailJob(m) \/ AbortJob(m)
  PROVE  TypeOK'
<1> USE Constants, FixedIsTurn DEF TypeOK, ingestVars, turnVars, guardVars
<1>1. CASE Store(m)
  <2>1. rows' = rows \cup {m} /\ UNCHANGED <<ingest, turnVars, lost, faults, takeovers>>
    BY <1>1 DEF Store
  <2>2. claims' \subseteq Message /\ job' \in [Message -> {"none", "queued", "publish", "archived"}]
        /\ tries' \in [Message -> 0..MaxRetry]
    BY <1>1 DEF Store, JobDone
  <2>3. latest' \in [Turn -> SUBSET rows'] /\ context' \in [Turn -> SUBSET rows']
    BY <2>1
  <2> QED BY <2>1, <2>2, <2>3
<1>2. CASE PublishTurn(m)
  BY <1>2 DEF PublishTurn, JobDone
<1>3. CASE FailJob(m)
  BY <1>3 DEF FailJob, Fault, MayRetry
<1>4. CASE AbortJob(m)
  BY <1>4 DEF AbortJob, Fault
<1> QED BY <1>1, <1>2, <1>3, <1>4 DEF JobNext

\* What a failure may lose are stored messages.
LEMMA StrandedTypes == TypeOK => Stranded \subseteq Message
BY Constants DEF TypeOK, Stranded, Asked, Waiting

LEMMA TurnTypes ==
  ASSUME TypeOK, NEW i \in Turn,
         TurnNext(i) \/ MarkFails(i) \/ FailTurn(i) \/ RecheckFails(i) \/ DieTurn(i)
  PROVE  TypeOK'
<1> USE Constants, FixedIsTurn DEF TypeOK, ingestVars, jobVars, guardVars, Step, Leave, Active
<1>1. CASE Mark(i)
  BY <1>1, CountRows DEF Mark
<1>2. CASE MarkFails(i)
  BY <1>2 DEF MarkFails, Fault
<1>3. CASE Resolve(i)
  BY <1>3 DEF Resolve
<1>4. CASE Link(i)
  BY <1>4 DEF Link, Unguarded
<1>5. CASE Pause(i)
  BY <1>5 DEF Pause, HandOver
<1>6. CASE Escalate(i)
  BY <1>6 DEF Escalate, HandOver
<1>7. CASE Examine(i)
  BY <1>7 DEF Examine
<1>8. CASE Read(i)
  BY <1>8 DEF Read
<1>9. CASE Attend(i)
  BY <1>9 DEF Attend
<1>10. CASE FailTurn(i)
  <2>1. attended' \subseteq rows /\ lost' \subseteq Message
    BY <1>10, StrandedTypes DEF FailTurn
  <2>2. escalated' \in BOOLEAN
    BY <1>10 DEF FailTurn
  <2> QED BY <1>10, <2>1, <2>2 DEF FailTurn, Fault
<1>11. CASE Recheck(i)
  <2>1. turn' \in [Turn -> {"none", "scheduled", "archived"} \cup Active]
    <3>1. CASE Newer(i)
      BY <1>11, <3>1 DEF Recheck
    <3>2. CASE ~ Newer(i)
      BY <1>11, <3>2 DEF Recheck
    <3> QED BY <3>1, <3>2
  <2>2. lost' \subseteq Message
    BY <1>11, StrandedTypes DEF Recheck
  <2> QED BY <1>11, <2>1, <2>2 DEF Recheck
<1>12. CASE RecheckFails(i)
  BY <1>12, StrandedTypes DEF RecheckFails, Fault
<1>13. CASE EndTurn(i)
  BY <1>13 DEF EndTurn
<1>14. CASE DieTurn(i)
  BY <1>14, StrandedTypes DEF DieTurn, Fault
<1>15. CASE ReadLatest(i)
  BY <1>15 DEF ReadLatest, Newest
<1> QED
  BY <1>1, <1>2, <1>3, <1>4, <1>5, <1>6, <1>7, <1>8, <1>9, <1>10, <1>11, <1>12, <1>13, <1>14,
     <1>15 DEF TurnNext

LEMMA VendorTypes ==
  ASSUME TypeOK, Takeover \/ Release
  PROVE  TypeOK'
<1>1. handed' \subseteq Keyword /\ takeovers' \in 0..MaxTakeovers
  BY Constants DEF TypeOK, Takeover, Release, Vendor
<1>2. escalated' \in BOOLEAN
  BY DEF Takeover, Release
<1>3. UNCHANGED <<ingestVars, jobVars, rows, linked, turn, mark, latest, context, attended,
                 overtaken, lost, faults>>
  BY DEF Takeover, Release, Vendor
<1> QED BY <1>1, <1>2, <1>3 DEF TypeOK, ingestVars, jobVars

LEMMA NextTypes == TypeOK /\ [Next]_vars => TypeOK'
<1> SUFFICES ASSUME TypeOK, [Next]_vars PROVE TypeOK'
  OBVIOUS
<1>1. CASE UNCHANGED vars
  BY <1>1 DEF TypeOK, vars
<1> QED BY <1>1, IngestTypes, JobTypes, TurnTypes, VendorTypes DEF Next

\* Every variable keeps its type, whatever fails: retries stay within the
\* budget of the queue, and only stored messages are linked and answered.
THEOREM TypeCorrect == Spec => []TypeOK
BY InitTypes, NextTypes, PTL DEF Spec

-----------------------------------------------------------------------------
(* Claims.                                                                 *)

(***************************************************************************)
(* A claim is committed after its job was queued, and a job only leaves    *)
(* the queue once its message is stored.                                   *)
(***************************************************************************)
ClaimInv ==
  /\ ClaimNeverOrphaned
  /\ \A m \in Message : job[m] = "publish" => m \in rows
  /\ \A m \in Message, d \in Delivery : ingest[m][d] = "queued" => m \in rows \/ job[m] # "none"

LEMMA NextClaims == TypeOK /\ ClaimInv /\ [Next]_vars => ClaimInv'
<1> SUFFICES ASSUME TypeOK, ClaimInv, [Next]_vars PROVE ClaimInv'
  OBVIOUS
<1> USE DEF ClaimInv, ClaimNeverOrphaned, ingestVars, jobVars
<1>1. ASSUME NEW m \in Message, NEW d \in Delivery,
             \/ Receive(m, d) \/ Claim(m, d) \/ QueueJob(m, d) \/ CommitClaim(m, d)
             \/ AbandonClaim(m, d)
      PROVE  ClaimInv'
  <2>1. CASE Receive(m, d) \/ Claim(m, d) \/ AbandonClaim(m, d)
    <3>1. UNCHANGED <<claims, job, rows>>
      BY <2>1 DEF Receive, Claim, AbandonClaim
    <3>2. PICK s \in {"done", "unseen", "claimed"} : ingest' = [ingest EXCEPT ![m][d] = s]
      BY <2>1 DEF Receive, Claim, AbandonClaim
    <3>3. \A n \in Message, e \in Delivery : ingest'[n][e] = "queued" => ingest[n][e] = "queued"
      BY <3>2 DEF TypeOK
    <3> QED BY <3>1, <3>3
  <2>2. CASE QueueJob(m, d)
    BY <2>2 DEF TypeOK, QueueJob
  <2>3. CASE CommitClaim(m, d)
    BY <2>3 DEF TypeOK, CommitClaim
  <2> QED BY <1>1, <2>1, <2>2, <2>3
<1>2. ASSUME NEW m \in Message, JobNext(m) \/ FailJob(m) \/ AbortJob(m)
      PROVE  ClaimInv'
  <2>1. CASE Store(m)
    BY <2>1 DEF TypeOK, Store, JobDone, IsDuplicate
  <2>2. CASE PublishTurn(m)
    BY <2>2 DEF TypeOK, PublishTurn, JobDone
  <2>3. CASE FailJob(m) \/ AbortJob(m)
    BY <2>3 DEF TypeOK, FailJob, AbortJob
  <2> QED BY <1>2, <2>1, <2>2, <2>3 DEF JobNext
<1>3. ASSUME UNCHANGED <<ingestVars, jobVars, rows>>
      PROVE  ClaimInv'
  BY <1>3
<1>4. ASSUME NEW i \in Turn,
             TurnNext(i) \/ MarkFails(i) \/ FailTurn(i) \/ RecheckFails(i) \/ DieTurn(i)
      PROVE  UNCHANGED <<ingestVars, jobVars, rows>>
  BY <1>4 DEF TurnNext, Mark, MarkFails, Resolve, Link, ReadLatest, Pause, Escalate, Examine, Read,
              Attend, FailTurn, Recheck, RecheckFails, EndTurn, DieTurn
<1>5. ASSUME Takeover \/ Release \/ UNCHANGED vars
      PROVE  UNCHANGED <<ingestVars, jobVars, rows>>
  BY <1>5 DEF Takeover, Release, Vendor, vars
<1> QED BY <1>1, <1>2, <1>3, <1>4, <1>5 DEF Next

(***************************************************************************)
(* However the webhook, its transaction, the queue and the jobs fail and   *)
(* however often a message is delivered: a claim that makes later          *)
(* deliveries be dropped belongs to a message that is stored or has a job. *)
(***************************************************************************)
THEOREM ClaimsBacked == Spec => []ClaimNeverOrphaned
<1>1. Init => ClaimInv
  BY DEF Init, ClaimInv, ClaimNeverOrphaned
<1> QED BY <1>1, InitTypes, NextTypes, NextClaims, PTL DEF Spec, ClaimInv

-----------------------------------------------------------------------------
(* The debounce.                                                           *)

\* The turn will notice at its re-check what it has not seen, or its end
\* loses it.
Notices(i) == mark[i] = NoMark \/ Newer(i)

(***************************************************************************)
(* What a turn knows at each of its steps: unless it will notice newer     *)
(* messages, it has linked, read and attended all that are stored.         *)
(***************************************************************************)
Knows(i) ==
  /\ mark[i] <= Cardinality(rows)
  /\ turn[i] \notin {"linked", "held"} => latest[i] = {}
  /\ turn[i] \in {"linked", "held", "examined"} => Notices(i) \/ rows \subseteq linked
  /\ turn[i] = "read" => Notices(i) \/ rows \subseteq context[i]
  /\ turn[i] = "attended" => Notices(i) \/ rows \subseteq attended

\* A turn that is not past its re-check.
Busy(i) == turn[i] \in {"scheduled", "marked", "resolved", "paused", "linked", "held",
                        "examined", "read", "attended"}

Covered == \A m \in Waiting \ lost : WillPublish(m) \/ \E i \in Turn : Busy(i)

CoverInv == (\A i \in Turn : Knows(i)) /\ Covered

\* The invariant implies the property: a turn that is busy will see what waits.
LEMMA CoverImplies == TypeOK /\ CoverInv => WaitingIsCovered
BY DEF TypeOK, CoverInv, Covered, Knows, Busy, Notices, WaitingIsCovered, WillSee, Waiting, Active

\* A turn that does not move keeps what it knows while the messages stay, ...
LEMMA KnowsKept ==
  ASSUME NEW j \in Turn, Knows(j), rows' = rows,
         linked \subseteq linked', attended \subseteq attended',
         turn'[j] = turn[j], mark'[j] = mark[j], latest'[j] = latest[j], context'[j] = context[j]
  PROVE  Knows(j)'
BY DEF Knows, Notices, Newer

\* ... and will notice a new one.
LEMMA KnowsMore ==
  ASSUME TypeOK, NEW j \in Turn, Knows(j), NEW m \in Message, rows' = rows \cup {m},
         UNCHANGED <<linked, turn, mark, latest, context, attended>>
  PROVE  Knows(j)'
<1>1. CASE m \in rows
  <2>1. rows' = rows
    BY <1>1
  <2> QED BY <2>1, KnowsKept
<1>2. CASE m \notin rows
  <2>1. Cardinality(rows) \in Nat /\ Cardinality(rows)' = Cardinality(rows) + 1
    BY <1>2, CountRows DEF TypeOK
  <2>2. mark[j] \in Nat \cup {NoMark}
    BY DEF TypeOK
  <2>3. Notices(j)'
    BY <2>1, <2>2 DEF Knows, Notices, Newer
  <2>4. mark'[j] <= Cardinality(rows)'
    BY <2>1, <2>2 DEF Knows
  <2> QED BY <2>3, <2>4 DEF Knows
<1> QED BY <1>1, <1>2

\* What is covered stays so while jobs and messages stay and a turn is busy, ...
LEMMA CoveredKept ==
  ASSUME Covered, UNCHANGED <<rows, job, tries>>,
         attended \subseteq attended', lost \subseteq lost',
         (\E i \in Turn : Busy(i)) => (\E i \in Turn : Busy(i)')
  PROVE  Covered'
BY DEF Covered, Waiting, WillPublish

\* ... and a turn that ends otherwise names what it loses.
LEMMA CoveredLost ==
  ASSUME UNCHANGED <<rows, job, tries>>, attended \subseteq attended', lost' = lost \cup Stranded
  PROVE  Covered'
BY DEF Covered, Waiting, WillPublish, Stranded, Asked

\* Ingest touches neither turns nor stored messages.
LEMMA IngestCover ==
  ASSUME TypeOK, CoverInv, NEW m \in Message, NEW d \in Delivery,
         \/ Receive(m, d) \/ Claim(m, d) \/ QueueJob(m, d) \/ CommitClaim(m, d)
         \/ AbandonClaim(m, d)
  PROVE  CoverInv'
<1>1. UNCHANGED <<tries, rows, linked, turn, mark, latest, context, attended, lost>>
  BY DEF Receive, Claim, QueueJob, CommitClaim, AbandonClaim, jobVars, turnVars
<1>2. \A i \in Turn : Knows(i)'
  BY <1>1, KnowsKept DEF CoverInv
<1>3. \A n \in Message : WillPublish(n) => WillPublish(n)'
  BY <1>1 DEF TypeOK, WillPublish, Receive, Claim, QueueJob, CommitClaim, AbandonClaim, jobVars
<1>4. Covered'
  BY <1>1, <1>3 DEF CoverInv, Covered, Waiting, Busy, TypeOK
<1> QED BY <1>2, <1>4 DEF CoverInv

LEMMA JobCover ==
  ASSUME TypeOK, CoverInv, NEW m \in Message, JobNext(m) \/ FailJob(m) \/ AbortJob(m)
  PROVE  CoverInv'
<1> USE DEF ingestVars
<1>1. CASE Store(m)
  <2>1. /\ rows' = rows \cup {m}
        /\ UNCHANGED <<linked, turn, mark, latest, context, attended, lost>>
    BY <1>1 DEF Store, turnVars
  <2>2. \A i \in Turn : Knows(i)'
    BY <2>1, KnowsMore DEF CoverInv
  <2>3. \A n \in Message \ {m} : WillPublish(n)' <=> WillPublish(n)
    BY <1>1 DEF Store, JobDone, WillPublish, TypeOK
  <2>4. CASE IsDuplicate(m)
    <3>1. rows' = rows /\ ~ WillPublish(m)
      BY <1>1, <2>4 DEF Store, IsDuplicate, WillPublish
    <3> QED BY <2>1, <2>2, <2>3, <3>1 DEF CoverInv, Covered, Waiting, Busy, TypeOK
  <2>5. CASE ~ IsDuplicate(m)
    <3>1. WillPublish(m)'
      BY <1>1, <2>5 DEF Store, WillPublish, TypeOK
    <3> QED BY <2>1, <2>2, <2>3, <3>1 DEF CoverInv, Covered, Waiting, Busy, TypeOK
  <2> QED BY <2>4, <2>5
<1>2. CASE PublishTurn(m)
  <2>1. UNCHANGED <<rows, linked, mark, latest, context, attended>> /\ lost \subseteq lost'
    BY <1>2 DEF PublishTurn
  <2>2. turn' = [turn EXCEPT ![Fixed] = IF @ = "none" THEN "scheduled" ELSE @]
    BY <1>2 DEF PublishTurn
  <2>3. ASSUME NEW i \in Turn PROVE Knows(i)'
    <3>1. CASE turn'[i] = turn[i]
      BY <2>1, <3>1, KnowsKept DEF CoverInv
    <3>2. CASE turn'[i] # turn[i]
      <4>1. turn'[i] = "scheduled" /\ turn[i] = "none"
        BY <2>2, <3>2 DEF TypeOK
      <4> QED BY <2>1, <4>1 DEF CoverInv, Knows
    <3> QED BY <3>1, <3>2
  <2>4. \A n \in Message \ {m} : WillPublish(n)' <=> WillPublish(n)
    BY <1>2 DEF PublishTurn, JobDone, WillPublish, TypeOK
  <2>5. \A i \in Turn : Busy(i) => Busy(i)'
    BY <2>2 DEF Busy, TypeOK
  <2>6. m \in lost' \/ Busy(Fixed)'
    BY <1>2, <2>2, FixedIsTurn DEF PublishTurn, Past, Busy, TypeOK, Active
  <2>7. Covered'
    BY <2>1, <2>4, <2>5, <2>6, FixedIsTurn DEF CoverInv, Covered, Waiting, TypeOK
  <2> QED BY <2>3, <2>7 DEF CoverInv
<1>3. CASE FailJob(m) \/ AbortJob(m)
  <2>1. UNCHANGED <<rows, linked, turn, mark, latest, context, attended>> /\ lost \subseteq lost'
    BY <1>3 DEF FailJob, AbortJob, turnVars
  <2>2. \A i \in Turn : Knows(i)'
    BY <2>1, KnowsKept DEF CoverInv
  <2>3. \A n \in Message \ {m} : WillPublish(n)' <=> WillPublish(n)
    BY <1>3 DEF FailJob, AbortJob, WillPublish, TypeOK
  <2>4. m \in lost' \/ WillPublish(m)'
    BY <1>3 DEF FailJob, AbortJob, WillPublish, TypeOK
  <2>5. Covered'
    BY <2>1, <2>3, <2>4 DEF CoverInv, Covered, Waiting, Busy, TypeOK
  <2> QED BY <2>2, <2>5 DEF CoverInv
<1> QED BY <1>1, <1>2, <1>3 DEF JobNext

\* A step of a turn that goes on: the others keep what they know.
LEMMA TurnGoesOn ==
  ASSUME TypeOK, CoverInv, NEW i \in Turn, UNCHANGED <<rows, job, tries, lost>>,
         linked \subseteq linked', attended \subseteq attended',
         Busy(i)', Knows(i)',
         \A j \in Turn \ {i} : /\ turn'[j] = turn[j] /\ mark'[j] = mark[j]
                               /\ latest'[j] = latest[j] /\ context'[j] = context[j]
  PROVE  CoverInv'
<1>1. \A j \in Turn : Knows(j)'
  BY KnowsKept DEF CoverInv
<1>2. Covered'
  BY CoveredKept DEF CoverInv
<1> QED BY <1>1, <1>2 DEF CoverInv

LEMMA PhaseCover ==
  ASSUME TypeOK, CoverInv, NEW i \in Turn,
         \/ Mark(i) \/ MarkFails(i) \/ Resolve(i) \/ Link(i) \/ ReadLatest(i)
         \/ Pause(i) \/ Escalate(i) \/ Examine(i) \/ Read(i) \/ Attend(i)
  PROVE  CoverInv'
<1>1. /\ UNCHANGED <<rows, job, tries, lost>>
      /\ linked \subseteq linked' /\ attended \subseteq attended'
  BY DEF Mark, MarkFails, Resolve, Link, ReadLatest, Pause, Escalate, Examine, Read, Attend,
         HandOver, ingestVars, jobVars, TypeOK
<1>2. \A j \in Turn \ {i} : /\ turn'[j] = turn[j] /\ mark'[j] = mark[j]
                            /\ latest'[j] = latest[j] /\ context'[j] = context[j]
  BY DEF Mark, MarkFails, Resolve, Link, ReadLatest, Pause, Escalate, Examine, Read, Attend,
         HandOver, Step, TypeOK
<1>3. Cardinality(rows) \in Nat /\ Knows(i)
  BY CountRows DEF TypeOK, CoverInv
<1>4. Busy(i)' /\ Knows(i)'
  <2> USE <1>1, <1>3 DEF Busy, Knows, Notices, Newer, Step, TypeOK
  <2>1. CASE Mark(i)
    BY <2>1 DEF Mark
  <2>2. CASE MarkFails(i)
    BY <2>2 DEF MarkFails
  <2>3. CASE Resolve(i)
    BY <2>3 DEF Resolve
  <2>4. CASE Link(i)
    BY <2>4 DEF Link
  <2>5. CASE Pause(i) \/ Escalate(i)
    BY <2>5 DEF Pause, Escalate, EscalationDue, HandOver
  <2>6. CASE Examine(i)
    BY <2>6 DEF Examine
  <2>7. CASE Read(i)
    BY <2>7 DEF Read
  <2>8. CASE Attend(i)
    BY <2>8 DEF Attend
  <2>9. CASE ReadLatest(i)
    BY <2>9 DEF ReadLatest
  <2> QED BY <2>1, <2>2, <2>3, <2>4, <2>5, <2>6, <2>7, <2>8, <2>9
<1> QED BY <1>1, <1>2, <1>4, TurnGoesOn

LEMMA EndCover ==
  ASSUME TypeOK, CoverInv, NEW i \in Turn,
         Recheck(i) \/ EndTurn(i) \/ RecheckFails(i) \/ FailTurn(i) \/ DieTurn(i)
  PROVE  CoverInv'
<1> USE DEF jobVars
<1>1. CASE Recheck(i)
  <2>1. UNCHANGED <<rows, job, tries, linked, mark, latest, context, attended>> /\ lost \subseteq lost'
    BY <1>1 DEF Recheck
  <2>2. \A j \in Turn : \/ turn'[j] = turn[j]
                        \/ turn'[j] \in {"checked", "scheduled"} /\ turn[j] \in {"attended", "none"}
    BY <1>1 DEF Recheck, TypeOK
  <2>3. ASSUME NEW j \in Turn PROVE Knows(j)'
    <3>1. CASE turn'[j] = turn[j]
      BY <2>1, <3>1, KnowsKept DEF CoverInv
    <3>2. CASE turn'[j] \in {"checked", "scheduled"} /\ turn[j] \in {"attended", "none"}
      BY <2>1, <3>2 DEF CoverInv, Knows
    <3> QED BY <2>2, <3>1, <3>2
  <2>4. CASE Newer(i)
    <3>1. PICK j \in Fresh : turn' = [turn EXCEPT ![i] = "checked", ![j] = "scheduled"]
      BY <1>1, <2>4 DEF Recheck
    <3>2. Busy(j)'
      BY <3>1, FixedIsTurn DEF Busy, TypeOK
    <3>3. Covered'
      BY <2>1, <3>2, CoveredKept, FixedIsTurn DEF CoverInv
    <3> QED BY <2>3, <3>3 DEF CoverInv
  <2>5. CASE mark[i] = NoMark
    <3>1. lost' = lost \cup Stranded
      BY <1>1, <2>5 DEF Recheck
    <3>2. Covered'
      BY <2>1, <3>1, CoveredLost
    <3> QED BY <2>3, <3>2 DEF CoverInv
  <2>6. CASE ~ Notices(i)
    <3>1. rows \subseteq attended
      BY <1>1, <2>6 DEF Recheck, CoverInv, Knows
    <3>2. Covered'
      BY <2>1, <3>1 DEF Covered, Waiting
    <3> QED BY <2>3, <3>2 DEF CoverInv
  <2> QED BY <2>4, <2>5, <2>6 DEF Notices
<1>2. CASE EndTurn(i)
  <2>1. UNCHANGED <<rows, job, tries, linked, attended, lost>>
    BY <1>2 DEF EndTurn
  <2>2. turn[i] = "checked" /\ turn'[i] = "none" /\ mark'[i] = NoMark /\ latest'[i] = {}
    BY <1>2 DEF EndTurn, Leave, TypeOK
  <2>3. \A j \in Turn \ {i} : /\ turn'[j] = turn[j] /\ mark'[j] = mark[j]
                              /\ latest'[j] = latest[j] /\ context'[j] = context[j]
    BY <1>2 DEF EndTurn, Leave, TypeOK
  <2>4. Knows(i)'
    BY <2>1, <2>2, CountRows DEF Knows, TypeOK
  <2>5. \A j \in Turn : Knows(j)'
    BY <2>1, <2>3, <2>4, KnowsKept DEF CoverInv
  <2>6. \A j \in Turn : Busy(j) => Busy(j)'
    BY <2>2, <2>3 DEF Busy
  <2>7. Covered'
    BY <2>1, <2>6, CoveredKept DEF CoverInv
  <2> QED BY <2>5, <2>7 DEF CoverInv
<1>3. CASE RecheckFails(i) \/ FailTurn(i) \/ DieTurn(i)
  <2>1. /\ UNCHANGED <<rows, job, tries, linked>>
        /\ attended \subseteq attended' /\ lost' = lost \cup Stranded
    BY <1>3 DEF RecheckFails, FailTurn, DieTurn
  <2>2. \A j \in Turn \ {i} : /\ turn'[j] = turn[j] /\ mark'[j] = mark[j]
                              /\ latest'[j] = latest[j] /\ context'[j] = context[j]
    BY <1>3 DEF RecheckFails, FailTurn, DieTurn, Leave, Step, TypeOK
  <2>3. /\ turn'[i] \in {"checked", "archived", "none"} /\ mark'[i] \in {mark[i], NoMark}
        /\ latest'[i] = {}
    BY <1>3 DEF CoverInv, Knows, RecheckFails, FailTurn, DieTurn, Leave, Step, TypeOK
  <2>4. Knows(i)'
    BY <2>1, <2>3, CountRows DEF CoverInv, Knows, TypeOK
  <2>5. \A j \in Turn : Knows(j)'
    BY <2>1, <2>2, <2>4, KnowsKept DEF CoverInv
  <2>6. Covered'
    BY <2>1, CoveredLost
  <2> QED BY <2>5, <2>6 DEF CoverInv
<1> QED BY <1>1, <1>2, <1>3

LEMMA NextCover == TypeOK /\ CoverInv /\ [Next]_vars => CoverInv'
<1> SUFFICES ASSUME TypeOK, CoverInv, [Next]_vars PROVE CoverInv'
  OBVIOUS
<1>1. ASSUME UNCHANGED <<rows, job, tries, linked, turn, mark, latest, context, attended, lost>>
      PROVE  CoverInv'
  <2>1. \A i \in Turn : Knows(i)'
    BY <1>1, KnowsKept DEF CoverInv
  <2>2. Covered'
    BY <1>1, CoveredKept DEF CoverInv, Busy
  <2> QED BY <2>1, <2>2 DEF CoverInv
<1>2. CASE Takeover \/ Release \/ UNCHANGED vars
  BY <1>1, <1>2 DEF Takeover, Release, Vendor, vars, jobVars
<1>3. ASSUME NEW i \in Turn,
             TurnNext(i) \/ MarkFails(i) \/ FailTurn(i) \/ RecheckFails(i) \/ DieTurn(i)
      PROVE  CoverInv'
  BY <1>3, PhaseCover, EndCover DEF TurnNext
<1> QED BY <1>2, <1>3, IngestCover, JobCover DEF Next

(***************************************************************************)
(* The debounce, for any burst and any number of overlapping turns: a      *)
(* stored message that nobody has dealt with has a job that will ask for a *)
(* turn, or a turn that will link it, works on it, or will notice at its   *)
(* re-check that messages are newer than its count.                        *)
(***************************************************************************)
THEOREM DebounceCovers == Spec => []WaitingIsCovered
<1>1. Init => CoverInv
  <2> SUFFICES ASSUME Init PROVE CoverInv
    OBVIOUS
  <2>1. Cardinality(rows) = 0
    BY FS_EmptySet DEF Init
  <2> QED BY <2>1 DEF Init, CoverInv, Knows, Covered, Waiting
<1> QED BY <1>1, InitTypes, NextTypes, NextCover, CoverImplies, PTL DEF Spec

=============================================================================
