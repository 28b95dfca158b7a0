------------------------- MODULE EventDispatchProofs -------------------------
(***************************************************************************)
(* Machine-checked proofs about EventDispatch, for any number of events,   *)
(* subscribers, replicas, attempts and crashes and any batch size.         *)
(***************************************************************************)
EXTENDS EventDispatch, TLAPS

Inserted == {f \in Event : row[f] # "none"}

\* occurred_at orders the events strictly: the loop is at one event only.
RankInv == \A e, f \in Inserted : at[e] = at[f] => e = f

\* A drain works on PENDING events, and an event it has left is not in what
\* is left of its batch.
DrainInv ==
  /\ \A e \in batch : row[e] = "PENDING" /\ outcome[e] = "none"
  /\ \A e \in Event : outcome[e] # "none" => row[e] = "PENDING"
  /\ \A e \in Event : row[e] = "none" => attempts[e] = 0

\* How far the fan-out of every event went.
FanOutInv ==
  /\ \A e \in Event : outcome[e] = "published" => \A s \in Sub : sent[e][s] >= 1
  /\ \A e \in Event : Oldest(e) => \A s \in Sub : s < next => sent[e][s] >= 1

\* What the fan-out of the drain that runs adds to the tasks of (e, s).
Extra(e, s) ==
  IF outcome[e] # "none" \/ (Oldest(e) /\ s < next) THEN 1 ELSE 0

\* Every task beyond that is owed to a counted failure or to a crash.
CountInv ==
  \A e \in Event, s \in Sub :
    /\ row[e] # "PUBLISHED" => sent[e][s] <= attempts[e] + crashes + Extra(e, s)
    /\ row[e] = "PUBLISHED" => sent[e][s] <= 1 + attempts[e] + crashes

\* Nothing of a drain is left when nobody holds the lock.
IdleInv == lock = NoReplica => batch = {} /\ \A e \in Event : outcome[e] = "none"

Inv ==
  /\ TypeOK
  /\ RankInv
  /\ DrainInv
  /\ AttemptsBounded
  /\ PublishedReachedAll
  /\ FanOutInv

-----------------------------------------------------------------------------
LEMMA RankInit == Init => RankInv
  BY DEF Init, RankInv, Inserted

LEMMA RankInsert ==
  ASSUME TypeOK, RankInv, NEW e \in Event, Insert(e)
  PROVE  RankInv'
<1>1. PICK t \in Time :
        /\ \A f \in Event : row[f] # "none" => at[f] # t
        /\ at' = [at EXCEPT ![e] = t]
  BY DEF Insert
<1>2. e \notin Inserted /\ Inserted' = Inserted \cup {e}
  BY DEF Inserted, Insert, TypeOK
<1>3. at'[e] = t /\ \A f \in Inserted : at'[f] = at[f] /\ at[f] # t
  BY <1>1, <1>2 DEF Inserted, TypeOK
<1> QED BY <1>2, <1>3 DEF RankInv

\* Every step but an insertion keeps the set of inserted rows and its order.
LEMMA RankKept ==
  ASSUME RankInv, Inserted' = Inserted, at' = at
  PROVE  RankInv'
  BY DEF RankInv

LEMMA OnlyOldest ==
  ASSUME TypeOK, RankInv, DrainInv,
         NEW e \in Event, NEW f \in Event, Oldest(e), Oldest(f)
  PROVE  e = f
<1>1. at[e] <= at[f] /\ at[f] <= at[e] /\ at[e] \in Nat /\ at[f] \in Nat
  BY DEF Oldest, TypeOK
<1>2. e \in Inserted /\ f \in Inserted
  BY DEF Oldest, DrainInv, Inserted
<1> QED BY <1>1, <1>2 DEF RankInv

\* A drain only touches PENDING rows, and moves them to a status that keeps
\* them inserted.
LEMMA CommitStatus ==
  ASSUME TypeOK, DrainInv, NEW e \in Event
  PROVE  /\ StatusAfter(e) \in {"none", "PENDING", "PUBLISHED", "DEAD"}
         /\ StatusAfter(e) = "none" <=> row[e] = "none"
         /\ row[e] \in {"PUBLISHED", "DEAD"} => StatusAfter(e) = row[e]
<1>1. outcome[e] \in {"none", "published", "failed"}
  BY DEF TypeOK
<1>2. CASE outcome[e] = "none"
  BY <1>2 DEF StatusAfter, TypeOK
<1>3. CASE outcome[e] = "published"
  BY <1>3 DEF StatusAfter, DrainInv
<1>4. CASE outcome[e] = "failed"
  BY <1>4 DEF StatusAfter, DrainInv
<1> QED BY <1>1, <1>2, <1>3, <1>4
-----------------------------------------------------------------------------
LEMMA InitInv == Init => Inv
<1> SUFFICES ASSUME Init PROVE Inv
  OBVIOUS
<1>1. TypeOK
  BY DispatchAssumption DEF Init, TypeOK, Sub, NoOutcome
<1>2. DrainInv /\ AttemptsBounded /\ PublishedReachedAll /\ FanOutInv
  BY DEF Init, DrainInv, AttemptsBounded, PublishedReachedAll, FanOutInv, NoOutcome, Oldest
<1> QED BY <1>1, <1>2, RankInit DEF Inv

LEMMA InsertInv ==
  ASSUME Inv, NEW e \in Event, Insert(e)
  PROVE  Inv'
<1> USE DEF Inv
<1>1. \A f \in batch : f # e
  BY DEF Insert, DrainInv
<1>2. TypeOK'
  <2>1. at' \in [Event -> Nat]
    BY DispatchAssumption DEF Insert, TypeOK
  <2> QED BY <2>1 DEF Insert, TypeOK, drainVars
<1>3. \A f \in Event : Oldest(f)' <=> Oldest(f)
  BY <1>1 DEF Insert, Oldest, TypeOK, drainVars
<1>4. DrainInv'
  BY <1>1 DEF Insert, DrainInv, TypeOK, drainVars
<1>5. AttemptsBounded' /\ PublishedReachedAll'
  <2>1. attempts[e] < MaxAttempts
    BY DispatchAssumption DEF Insert, DrainInv
  <2> QED BY <2>1 DEF Insert, AttemptsBounded, PublishedReachedAll, TypeOK, drainVars
<1>6. FanOutInv'
  BY <1>3 DEF Insert, FanOutInv, drainVars
<1> QED BY <1>2, <1>4, <1>5, <1>6, RankInsert

LEMMA DrainBeginInv ==
  ASSUME Inv, NEW r \in Replica, DrainBegin(r)
  PROVE  Inv'
<1> USE DEF Inv
<1>1. Batch \subseteq Event /\ \A e \in Batch : row[e] = "PENDING"
  BY DEF Batch, Pending
<1>2. TypeOK'
  BY <1>1, DispatchAssumption DEF DrainBegin, TypeOK, Sub, NoOutcome, rowVars
<1>3. DrainInv'
  BY <1>1 DEF DrainBegin, DrainInv, NoOutcome, rowVars
<1>4. AttemptsBounded' /\ PublishedReachedAll'
  BY DEF DrainBegin, AttemptsBounded, PublishedReachedAll, rowVars
<1>5. FanOutInv'
  BY DEF DrainBegin, FanOutInv, NoOutcome, Sub
<1>6. RankInv'
  BY RankKept DEF DrainBegin, rowVars, Inserted
<1> QED BY <1>2, <1>3, <1>4, <1>5, <1>6

LEMMA PublishInv ==
  ASSUME Inv, NEW r \in Replica, Publish(r)
  PROVE  Inv'
<1> USE DEF Inv
<1>1. PICK e \in Event :
        /\ Oldest(e)
        /\ sent' = [sent EXCEPT ![e][next] = @ + 1]
        /\ IF next < NumSubs
             THEN next' = next + 1 /\ UNCHANGED <<batch, outcome>>
             ELSE Leave(e, "published")
  BY DEF Publish
<1>2. UNCHANGED <<row, attempts, at, lock, crashes>>
  BY DEF Publish, rowVars
<1>3. next \in Sub /\ NumSubs \in Nat \ {0} /\ e \in batch /\ row[e] = "PENDING"
  BY <1>1, DispatchAssumption DEF TypeOK, Oldest, DrainInv
<1>4. /\ \A f \in Event, s \in Sub : sent[f][s] \in Nat /\ sent'[f][s] >= sent[f][s]
      /\ sent'[e][next] >= 1
      /\ sent' \in [Event -> [Sub -> Nat]]
  BY <1>1, <1>3 DEF TypeOK
<1>5. TypeOK'
  <2>1. next' \in Sub
    BY <1>1, <1>3 DEF Sub, Leave
  <2>2. batch' \subseteq Event /\ outcome' \in [Event -> {"none", "published", "failed"}]
    BY <1>1 DEF TypeOK, Leave
  <2> QED BY <1>2, <1>4, <2>1, <2>2 DEF TypeOK
<1>6. DrainInv'
  BY <1>1, <1>2, <1>3 DEF DrainInv, Leave, TypeOK
<1>7. AttemptsBounded' /\ PublishedReachedAll'
  BY <1>2, <1>4 DEF AttemptsBounded, PublishedReachedAll, TypeOK
<1>8. RankInv'
  BY <1>2, RankKept DEF Inserted
<1>9. FanOutInv'
  <2>1. CASE next < NumSubs
    <3>1. \A f \in Event : Oldest(f)' => f = e
      BY <1>1, <1>2, <2>1, OnlyOldest DEF Oldest
    <3>2. \A s \in Sub : s < next' => sent'[e][s] >= 1
      BY <1>1, <1>3, <1>4, <2>1 DEF FanOutInv, Sub
    <3>3. \A f \in Event : outcome'[f] = "published" => \A s \in Sub : sent'[f][s] >= 1
      BY <1>1, <1>4, <2>1 DEF FanOutInv
    <3> QED BY <3>1, <3>2, <3>3 DEF FanOutInv
  <2>2. CASE ~(next < NumSubs)
    <3>1. \A s \in Sub : sent'[e][s] >= 1
      BY <1>1, <1>3, <1>4, <2>2 DEF FanOutInv, Sub
    <3>2. \A f \in Event : outcome'[f] = "published" => \A s \in Sub : sent'[f][s] >= 1
      BY <1>1, <1>4, <2>2, <3>1 DEF FanOutInv, Leave, TypeOK
    <3>3. next' = 1
      BY <1>1, <2>2 DEF Leave
    <3> QED BY <3>2, <3>3 DEF FanOutInv, Sub
  <2> QED BY <2>1, <2>2
<1> QED BY <1>5, <1>6, <1>7, <1>8, <1>9

LEMMA PublishFailsInv ==
  ASSUME Inv, NEW r \in Replica, PublishFails(r)
  PROVE  Inv'
<1> USE DEF Inv
<1>1. PICK e \in Event : Oldest(e) /\ Leave(e, "failed")
  BY DEF PublishFails
<1>2. UNCHANGED <<row, attempts, at, lock, sent, crashes>>
  BY DEF PublishFails, rowVars
<1>3. TypeOK'
  BY <1>1, <1>2, DispatchAssumption DEF TypeOK, Sub, Leave
<1>4. DrainInv'
  BY <1>1, <1>2 DEF DrainInv, Leave, Oldest, TypeOK
<1>5. AttemptsBounded' /\ PublishedReachedAll'
  BY <1>2 DEF AttemptsBounded, PublishedReachedAll
<1>6. FanOutInv'
  BY <1>1, <1>2 DEF FanOutInv, Leave, Sub, TypeOK
<1>7. RankInv'
  BY <1>2, RankKept DEF Inserted
<1> QED BY <1>3, <1>4, <1>5, <1>6, <1>7

LEMMA CommitInv ==
  ASSUME Inv, NEW r \in Replica, Commit(r)
  PROVE  Inv'
<1> USE DEF Inv
<1>1. \A e \in Event :
        /\ row'[e] = StatusAfter(e)
        /\ attempts'[e] = IF outcome[e] = "failed" THEN attempts[e] + 1 ELSE attempts[e]
        /\ outcome'[e] = "none"
        /\ outcome[e] \in {"none", "published", "failed"}
        /\ attempts[e] \in 0..MaxAttempts
  BY DEF Commit, NoOutcome, TypeOK
<1>2. UNCHANGED <<at, batch, next, sent, crashes>> /\ batch = {} /\ MaxAttempts \in Nat
  BY DispatchAssumption DEF Commit
<1>3. \A e \in Event : outcome[e] = "failed" =>
        /\ row[e] = "PENDING" /\ attempts[e] < MaxAttempts
        /\ row'[e] = IF attempts[e] + 1 >= MaxAttempts THEN "DEAD" ELSE "PENDING"
        /\ attempts'[e] = attempts[e] + 1
  BY <1>1 DEF DrainInv, AttemptsBounded, StatusAfter
<1>4. \A e \in Event : outcome[e] = "published" =>
        row[e] = "PENDING" /\ row'[e] = "PUBLISHED" /\ attempts'[e] = attempts[e]
  BY <1>1 DEF DrainInv, StatusAfter
<1>5. \A e \in Event : outcome[e] = "none" =>
        row'[e] = row[e] /\ attempts'[e] = attempts[e]
  BY <1>1 DEF StatusAfter
<1>6. TypeOK'
  <2>1. row' \in [Event -> {"none", "PENDING", "PUBLISHED", "DEAD"}]
    BY CommitStatus DEF Commit
  <2>2. attempts' \in [Event -> 0..MaxAttempts]
    <3>1. \A e \in Event : attempts'[e] \in 0..MaxAttempts
      BY <1>1, <1>2, <1>3, <1>4, <1>5
    <3> QED BY <3>1 DEF Commit
  <2> QED BY <1>2, <2>1, <2>2 DEF Commit, TypeOK, NoOutcome
<1>7. DrainInv'
  BY <1>1, <1>2, <1>3, <1>4, <1>5 DEF DrainInv
<1>8. AttemptsBounded'
  BY <1>1, <1>2, <1>3, <1>4, <1>5 DEF AttemptsBounded
<1>9. PublishedReachedAll'
  BY <1>1, <1>2, <1>3, <1>4, <1>5 DEF PublishedReachedAll, FanOutInv
<1>10. FanOutInv'
  BY <1>1, <1>2 DEF FanOutInv, Oldest
<1>11. RankInv'
  <2>1. Inserted' = Inserted
    BY <1>1, CommitStatus DEF Inserted
  <2> QED BY <1>2, <2>1, RankKept
<1> QED BY <1>6, <1>7, <1>8, <1>9, <1>10, <1>11

LEMMA CrashInv ==
  ASSUME Inv, NEW r \in Replica, Crash(r)
  PROVE  Inv'
<1> USE DEF Inv
<1>1. TypeOK'
  BY DispatchAssumption DEF Crash, TypeOK, Sub, NoOutcome, rowVars
<1>2. DrainInv' /\ AttemptsBounded' /\ PublishedReachedAll' /\ FanOutInv'
  BY DEF Crash, DrainInv, AttemptsBounded, PublishedReachedAll, FanOutInv, NoOutcome,
         Oldest, rowVars
<1>3. RankInv'
  BY RankKept DEF Crash, rowVars, Inserted
<1> QED BY <1>1, <1>2, <1>3

LEMMA StutterInv == ASSUME Inv, UNCHANGED vars PROVE Inv'
  BY DEF Inv, vars, TypeOK, RankInv, Inserted, DrainInv, AttemptsBounded,
         PublishedReachedAll, FanOutInv, Oldest

LEMMA NextInv == Inv /\ [Next]_vars => Inv'
  BY InsertInv, DrainBeginInv, PublishInv, PublishFailsInv, CommitInv, CrashInv, StutterInv
     DEF Next

LEMMA Invariant == Spec => []Inv
  BY InitInv, NextInv, PTL DEF Spec
-----------------------------------------------------------------------------
(* The count of duplicates, on top of Inv.                                 *)

LEMMA CountInit == Init => CountInv
  BY DEF Init, CountInv, Extra, NoOutcome, Oldest

LEMMA CountInsert ==
  ASSUME Inv, CountInv, NEW e \in Event, Insert(e)
  PROVE  CountInv'
<1>1. \A f \in batch : f # e
  BY DEF Insert, Inv, DrainInv
<1>2. \A f \in Event, s \in Sub : Extra(f, s)' = Extra(f, s)
  BY <1>1 DEF Insert, Extra, Oldest, Inv, TypeOK, drainVars
<1>3. UNCHANGED <<attempts, sent, crashes>> /\ row[e] = "none" /\ row'[e] # "PUBLISHED"
      /\ \A f \in Event : f # e => row'[f] = row[f]
  BY DEF Insert, Inv, TypeOK
<1> QED BY <1>2, <1>3 DEF CountInv

\* What holds of Extra whatever the state.
LEMMA ExtraRange == \A e \in Event, s \in Sub : Extra(e, s) \in {0, 1}
  BY DEF Extra

LEMMA CountDrainBegin ==
  ASSUME Inv, IdleInv, CountInv, NEW r \in Replica, DrainBegin(r)
  PROVE  CountInv'
<1>1. \A f \in Event, s \in Sub : Extra(f, s) = 0
  BY DEF DrainBegin, IdleInv, Extra, Oldest
<1>2. \A f \in Event, s \in Sub : Extra(f, s)' = 0
  BY DEF DrainBegin, Extra, NoOutcome, Sub
<1> QED BY <1>1, <1>2 DEF CountInv, DrainBegin, rowVars

LEMMA CountPublish ==
  ASSUME Inv, CountInv, NEW r \in Replica, Publish(r)
  PROVE  CountInv'
<1>1. PICK e \in Event :
        /\ Oldest(e)
        /\ sent' = [sent EXCEPT ![e][next] = @ + 1]
        /\ IF next < NumSubs
             THEN next' = next + 1 /\ UNCHANGED <<batch, outcome>>
             ELSE Leave(e, "published")
  BY DEF Publish
<1>2. UNCHANGED <<row, attempts, at, crashes>>
  BY DEF Publish, rowVars
<1>3. next \in Sub /\ NumSubs \in Nat \ {0} /\ e \in batch
      /\ row[e] = "PENDING" /\ outcome[e] = "none"
  BY <1>1, DispatchAssumption DEF Inv, TypeOK, Oldest, DrainInv
<1>4. crashes \in Nat /\ \A f \in Event : attempts[f] \in Nat /\ \A s \in Sub : sent[f][s] \in Nat
  BY DispatchAssumption DEF Inv, TypeOK
<1>5. \A f \in Event, s \in Sub :
        sent'[f][s] = IF f = e /\ s = next THEN sent[f][s] + 1 ELSE sent[f][s]
  BY <1>1, <1>3 DEF Inv, TypeOK
<1>6. \A s \in Sub : Extra(e, s)' >= (IF s <= next THEN 1 ELSE 0) /\ Extra(e, s)' \in {0, 1}
  <2>1. CASE next < NumSubs
    BY <1>1, <1>2, <1>3, <2>1 DEF Extra, Oldest, Sub
  <2>2. CASE ~(next < NumSubs)
    BY <1>1, <1>3, <2>2 DEF Extra, Leave, Sub, Inv, TypeOK
  <2> QED BY <2>1, <2>2
<1>7. \A f \in Event : f # e => \A s \in Sub : Extra(f, s)' >= Extra(f, s) /\ Extra(f, s)' \in {0, 1}
  <2>1. \A f \in Event : f # e => ~Oldest(f) /\ outcome'[f] = outcome[f]
    BY <1>1, OnlyOldest DEF Inv, TypeOK, Leave
  <2> QED BY <2>1 DEF Extra
<1>8. \A s \in Sub : Extra(e, s) = IF s < next THEN 1 ELSE 0
  BY <1>1, <1>3 DEF Extra
<1>9. ASSUME NEW f \in Event, NEW s \in Sub
      PROVE  /\ row'[f] # "PUBLISHED" => sent'[f][s] <= attempts'[f] + crashes' + Extra(f, s)'
             /\ row'[f] = "PUBLISHED" => sent'[f][s] <= 1 + attempts'[f] + crashes'
  <2>1. /\ row[f] # "PUBLISHED" => sent[f][s] <= attempts[f] + crashes + Extra(f, s)
        /\ row[f] = "PUBLISHED" => sent[f][s] <= 1 + attempts[f] + crashes
    BY DEF CountInv
  <2>2. CASE f # e
    BY <1>2, <1>4, <1>5, <1>7, <2>1, <2>2, ExtraRange
  <2>3. CASE f = e
    <3>1. s \in Int /\ next \in Int
      BY <1>3 DEF Sub
    <3>2. sent[e][s] <= attempts[e] + crashes + (IF s < next THEN 1 ELSE 0)
      BY <1>3, <1>8, <2>1, <2>3
    <3> QED BY <1>2, <1>3, <1>4, <1>5, <1>6, <2>3, <3>1, <3>2
  <2> QED BY <2>2, <2>3
<1> QED BY <1>9 DEF CountInv

LEMMA CountPublishFails ==
  ASSUME Inv, CountInv, NEW r \in Replica, PublishFails(r)
  PROVE  CountInv'
<1>1. PICK e \in Event : Oldest(e) /\ Leave(e, "failed")
  BY DEF PublishFails
<1>2. UNCHANGED <<row, attempts, at, sent, crashes>>
  BY DEF PublishFails, rowVars
<1>3. \A f \in Event, s \in Sub : Extra(f, s)' >= Extra(f, s) /\ Extra(f, s)' \in {0, 1}
  <2>1. \A s \in Sub : Extra(e, s)' = 1
    BY <1>1 DEF Leave, Extra, Inv, TypeOK
  <2>2. \A f \in Event : f # e => ~Oldest(f) /\ outcome'[f] = outcome[f]
    BY <1>1, OnlyOldest DEF Inv, TypeOK, Leave
  <2> QED BY <2>1, <2>2 DEF Extra
<1>4. crashes \in Nat /\ \A f \in Event : attempts[f] \in Nat /\ \A s \in Sub : sent[f][s] \in Nat
  BY DispatchAssumption DEF Inv, TypeOK
<1> QED BY <1>2, <1>3, <1>4, ExtraRange DEF CountInv

LEMMA CountCommit ==
  ASSUME Inv, CountInv, NEW r \in Replica, Commit(r)
  PROVE  CountInv'
<1>1. UNCHANGED <<sent, crashes>> /\ batch = {}
  BY DEF Commit
<1>2. crashes \in Nat /\ \A f \in Event : attempts[f] \in Nat /\ \A s \in Sub : sent[f][s] \in Nat
  BY DispatchAssumption DEF Inv, TypeOK
<1>3. ASSUME NEW e \in Event, NEW s \in Sub
      PROVE  /\ row'[e] # "PUBLISHED" => sent'[e][s] <= attempts'[e] + crashes' + Extra(e, s)'
             /\ row'[e] = "PUBLISHED" => sent'[e][s] <= 1 + attempts'[e] + crashes'
  <2>1. /\ row'[e] = StatusAfter(e)
        /\ attempts'[e] = IF outcome[e] = "failed" THEN attempts[e] + 1 ELSE attempts[e]
        /\ outcome[e] \in {"none", "published", "failed"}
    BY DEF Commit, Inv, TypeOK
  <2>2. Extra(e, s)' \in {0, 1}
    BY DEF Extra
  <2>3. /\ row[e] # "PUBLISHED" => sent[e][s] <= attempts[e] + crashes + Extra(e, s)
        /\ row[e] = "PUBLISHED" => sent[e][s] <= 1 + attempts[e] + crashes
    BY DEF CountInv
  <2>4. outcome[e] # "none" => row[e] = "PENDING"
    BY DEF Inv, DrainInv
  <2>5. CASE outcome[e] = "none"
    <3>1. row'[e] = row[e] /\ attempts'[e] = attempts[e] /\ Extra(e, s) = 0
      BY <1>1, <2>1, <2>5 DEF StatusAfter, Extra, Oldest
    <3> QED BY <1>1, <1>2, <2>2, <2>3, <3>1
  <2>6. CASE outcome[e] = "published"
    <3>1. row'[e] = "PUBLISHED" /\ attempts'[e] = attempts[e] /\ Extra(e, s) = 1
      BY <2>1, <2>6 DEF StatusAfter, Extra
    <3> QED BY <1>1, <1>2, <2>3, <2>4, <2>6, <3>1
  <2>7. CASE outcome[e] = "failed"
    <3>1. row'[e] # "PUBLISHED" /\ attempts'[e] = attempts[e] + 1 /\ Extra(e, s) = 1
      BY <2>1, <2>7 DEF StatusAfter, Extra
    <3> QED BY <1>1, <1>2, <2>2, <2>3, <2>4, <2>7, <3>1
  <2> QED BY <2>1, <2>5, <2>6, <2>7
<1> QED BY <1>3 DEF CountInv

LEMMA CountCrash ==
  ASSUME Inv, CountInv, NEW r \in Replica, Crash(r)
  PROVE  CountInv'
<1>1. UNCHANGED <<row, attempts, sent>> /\ crashes' = crashes + 1
  BY DEF Crash, rowVars
<1>2. crashes \in Nat /\ \A f \in Event : attempts[f] \in Nat /\ \A s \in Sub : sent[f][s] \in Nat
  BY DispatchAssumption DEF Inv, TypeOK
<1>3. \A f \in Event, s \in Sub : Extra(f, s)' \in {0, 1}
  BY DEF Extra
<1> QED BY <1>1, <1>2, <1>3, ExtraRange DEF CountInv

LEMMA IdleStep == Inv /\ IdleInv /\ [Next]_vars => IdleInv'
<1> SUFFICES ASSUME Inv, IdleInv, [Next]_vars PROVE IdleInv'
  OBVIOUS
<1>1. \A e \in Event : Insert(e) => IdleInv'
  BY DEF Insert, IdleInv, drainVars
<1>2. \A r \in Replica : Commit(r) \/ Crash(r) => IdleInv'
  BY DEF Commit, Crash, IdleInv, NoOutcome
<1>3. \A r \in Replica : DrainBegin(r) \/ Publish(r) \/ PublishFails(r) => IdleInv'
  BY DispatchAssumption DEF DrainBegin, Publish, PublishFails, IdleInv
<1>4. UNCHANGED vars => IdleInv'
  BY DEF vars, IdleInv
<1> QED BY <1>1, <1>2, <1>3, <1>4 DEF Next

LEMMA CountStep == Inv /\ IdleInv /\ CountInv /\ [Next]_vars => CountInv'
<1>1. Inv /\ CountInv /\ UNCHANGED vars => CountInv'
  BY DEF vars, CountInv, Extra, Oldest
<1> QED BY <1>1, CountInsert, CountDrainBegin, CountPublish, CountPublishFails, CountCommit,
           CountCrash DEF Next
-----------------------------------------------------------------------------
(* The theorems.                                                           *)

\* The dispatcher's rows, drain and counters keep their types: in particular
\* no event is attempted more than MaxAttempts times (Dispatcher.Drain).
THEOREM TypeCorrect == Spec => []TypeOK
  BY Invariant, PTL DEF Inv

\* An event is marked PUBLISHED only after every subscriber accepted its
\* task, whatever enqueues fail and whichever drains die halfway
\* (Dispatcher.publish and the outcome loop of Dispatcher.Drain).
THEOREM FanOutComplete == Spec => []PublishedReachedAll
  BY Invariant, PTL DEF Inv

\* A row is dead-lettered exactly when its attempts are used up.
THEOREM DeadLettering == Spec => []AttemptsBounded
  BY Invariant, PTL DEF Inv

\* A subscriber sees an event again only as often as publications of the
\* event failed and drains died: the advisory lock keeps replicas apart.
THEOREM DuplicatesExplained == Spec => []DuplicatesNeedFailure
<1>1. Inv /\ CountInv => DuplicatesNeedFailure
  <2> SUFFICES ASSUME Inv, CountInv, NEW e \in Event, NEW s \in Sub
               PROVE  sent[e][s] <= 1 + attempts[e] + crashes
                                      + (IF outcome[e] = "failed" THEN 1 ELSE 0)
    BY DEF DuplicatesNeedFailure
  <2>1. crashes \in Nat /\ attempts[e] \in Nat /\ sent[e][s] \in Nat
    BY DispatchAssumption DEF Inv, TypeOK
  <2> QED BY <2>1, ExtraRange DEF CountInv
<1>2. Init => IdleInv
  BY DEF Init, IdleInv, NoOutcome
<1> QED BY <1>1, <1>2, Invariant, IdleStep, CountInit, CountStep, PTL DEF Spec

\* PUBLISHED and DEAD rows are never touched again by any drain.
THEOREM SettledForever == Spec => SettledStays
<1> DEFINE Stays == \A e \in Event : row[e] \in {"PUBLISHED", "DEAD"} => row'[e] = row[e]
<1>1. Inv /\ [Next]_vars => [Stays]_vars
  <2> SUFFICES ASSUME Inv, Next PROVE Stays
    OBVIOUS
  <2>1. \A e \in Event : Insert(e) => Stays
    BY DEF Insert, Inv, TypeOK
  <2>2. \A r \in Replica : Commit(r) => Stays
    BY CommitStatus DEF Commit, Inv
  <2>3. \A r \in Replica : DrainBegin(r) \/ Publish(r) \/ PublishFails(r) \/ Crash(r) => Stays
    BY DEF DrainBegin, Publish, PublishFails, Crash, rowVars
  <2> QED BY <2>1, <2>2, <2>3 DEF Next
<1> QED BY <1>1, Invariant, PTL DEF Spec, SettledStays
=============================================================================
