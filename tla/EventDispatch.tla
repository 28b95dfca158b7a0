---------------------------- MODULE EventDispatch ----------------------------
(***************************************************************************)
(* The transactional-outbox dispatcher (events/dispatcher.go).  Every      *)
(* worker replica runs one.  A drain is one database transaction under an  *)
(* advisory lock: it reads a batch of PENDING events, enqueues each to its *)
(* subscribers one after the other, and records the outcomes, which become *)
(* visible only when the drain commits.  The queue is not part of the      *)
(* transaction: what was enqueued stays enqueued when the drain dies.      *)
(***************************************************************************)
EXTENDS Integers, FiniteSets

CONSTANTS
  Event,        \* rows of domain_events
  Time,         \* instants at which a producer's transaction may start
  NumSubs,      \* subscribers of every event, served in the order 1..NumSubs
  Replica,      \* worker replicas
  MaxAttempts,  \* failed publications before an event is DEAD
  BatchSize,    \* events read by one drain
  MaxCrashes,   \* bound: drains that die before they commit
  NoReplica     \* nobody holds the advisory lock

ASSUME DispatchAssumption ==
  /\ Time \subseteq Nat
  /\ NumSubs \in Nat \ {0}
  /\ MaxAttempts \in Nat \ {0}
  /\ BatchSize \in Nat \ {0}
  /\ MaxCrashes \in Nat
  /\ NoReplica \notin Replica

Sub == 1..NumSubs

VARIABLES
  row,       \* domain_events.status, "none" before the producer commits
  attempts,  \* domain_events.attempts
  at,        \* domain_events.occurred_at, 0 before the row exists
  lock,      \* the replica in a drain, or NoReplica
  batch,     \* what is left of the batch of the drain, oldest first
  next,      \* the subscriber its oldest event is enqueued to next
  outcome,   \* uncommitted outcome of each event of the drain
  sent,      \* sent[e][s]: tasks enqueued to subscriber s for event e
  crashes    \* drains that died

drainVars == <<lock, batch, next, outcome>>
rowVars == <<row, attempts, at>>
vars == <<row, attempts, at, lock, batch, next, outcome, sent, crashes>>

NoOutcome == [e \in Event |-> "none"]

Init ==
  /\ row = [e \in Event |-> "none"]
  /\ attempts = [e \in Event |-> 0]
  /\ at = [e \in Event |-> 0]
  /\ lock = NoReplica
  /\ batch = {}
  /\ next = 1
  /\ outcome = NoOutcome
  /\ sent = [e \in Event |-> [s \in Sub |-> 0]]
  /\ crashes = 0

\* A producer's transaction commits with its event.  occurred_at is when that
\* transaction started, so rows appear out of order, older ones behind the
\* back of a drain too; equal times are told apart as the query would.
Insert(e) ==
  /\ row[e] = "none"
  /\ row' = [row EXCEPT ![e] = "PENDING"]
  /\ \E t \in Time :
       /\ \A f \in Event : row[f] # "none" => at[f] # t
       /\ at' = [at EXCEPT ![e] = t]
  /\ UNCHANGED <<attempts, drainVars, sent, crashes>>

-----------------------------------------------------------------------------
(* The drain.                                                              *)

Pending == {e \in Event : row[e] = "PENDING"}

\* Mutant: the batch skips the oldest event.
BatchSkipsOldest ==
  {e \in Pending : Cardinality({f \in Pending : at[f] < at[e]}) \in 1..BatchSize}

\* The BatchSize oldest PENDING events.
Batch == {e \in Pending : Cardinality({f \in Pending : at[f] < at[e]}) < BatchSize}

\* Mutant: the drain does not wait for the advisory lock, so that a second
\* replica starts over the batch another one is publishing.
DrainBeginUnlocked(r) ==
  /\ Pending # {}
  /\ lock' = r
  /\ batch' = Batch
  /\ next' = 1
  /\ outcome' = NoOutcome
  /\ UNCHANGED <<rowVars, sent, crashes>>

\* A replica, woken by a notification or by its poll, takes the lock and
\* reads the oldest PENDING events.  A drain that finds none changes nothing.
DrainBegin(r) ==
  /\ lock = NoReplica
  /\ Pending # {}
  /\ lock' = r
  /\ batch' = Batch
  /\ next' = 1
  /\ outcome' = NoOutcome
  /\ UNCHANGED <<rowVars, sent, crashes>>

\* The event of the batch that the loop is at.
Oldest(e) == e \in batch /\ \A f \in batch : at[e] <= at[f]

\* The loop leaves event e, with outcome o.
Leave(e, o) ==
  /\ outcome' = [outcome EXCEPT ![e] = o]
  /\ batch' = batch \ {e}
  /\ next' = 1

\* The next subscriber of the event accepts the task; after the last one the
\* event counts as published.
Publish(r) ==
  /\ lock = r
  /\ \E e \in Event :
       /\ Oldest(e)
       /\ sent' = [sent EXCEPT ![e][next] = @ + 1]
       /\ IF next < NumSubs
            THEN next' = next + 1 /\ UNCHANGED <<batch, outcome>>
            ELSE Leave(e, "published")
  /\ UNCHANGED <<rowVars, lock, crashes>>

\* Mutant: a failed publication counts as a success.
PublishFailsUnnoticed(r) ==
  /\ lock = r
  /\ \E e \in Event : Oldest(e) /\ Leave(e, "published")
  /\ UNCHANGED <<rowVars, lock, sent, crashes>>

\* The queue refuses the task: the event's publication failed, the
\* subscribers that were served before keep their task, and the drain goes
\* on with the next event.
PublishFails(r) ==
  /\ lock = r
  /\ \E e \in Event : Oldest(e) /\ Leave(e, "failed")
  /\ UNCHANGED <<rowVars, lock, sent, crashes>>

\* Mutant: the attempts of an event are never counted.
StatusAfterUncounted(e) ==
  CASE outcome[e] = "published" -> "PUBLISHED"
    [] outcome[e] = "failed" -> "PENDING"
    [] OTHER -> row[e]

\* The status the drain leaves behind.
StatusAfter(e) ==
  CASE outcome[e] = "published" -> "PUBLISHED"
    [] outcome[e] = "failed" ->
         IF attempts[e] + 1 >= MaxAttempts THEN "DEAD" ELSE "PENDING"
    [] OTHER -> row[e]

\* The drain commits all of its outcomes and releases the lock.
Commit(r) ==
  /\ lock = r
  /\ batch = {}
  /\ row' = [e \in Event |-> StatusAfter(e)]
  /\ attempts' = [e \in Event |-> IF outcome[e] = "failed" THEN attempts[e] + 1
                                                           ELSE attempts[e]]
  /\ lock' = NoReplica
  /\ outcome' = NoOutcome
  /\ UNCHANGED <<at, batch, next, sent, crashes>>

\* The replica dies, or one of its statements fails: the transaction rolls
\* back, the lock is free, the tasks it enqueued remain.
Crash(r) ==
  /\ lock = r
  /\ crashes < MaxCrashes
  /\ crashes' = crashes + 1
  /\ lock' = NoReplica
  /\ batch' = {}
  /\ next' = 1
  /\ outcome' = NoOutcome
  /\ UNCHANGED <<rowVars, sent>>

Next ==
  \/ \E e \in Event : Insert(e)
  \/ \E r \in Replica :
       \/ DrainBegin(r) \/ Publish(r) \/ PublishFails(r) \/ Commit(r) \/ Crash(r)

Spec == Init /\ [][Next]_vars

\* The poll starts a drain as long as something is pending, and a drain that
\* runs goes on until it ends.
FairSpec ==
  /\ Spec
  /\ WF_vars(\E r \in Replica : DrainBegin(r))
  /\ WF_vars(\E r \in Replica : Publish(r) \/ PublishFails(r) \/ Commit(r))
-----------------------------------------------------------------------------
(* Properties.                                                             *)

TypeOK ==
  /\ row \in [Event -> {"none", "PENDING", "PUBLISHED", "DEAD"}]
  /\ attempts \in [Event -> 0..MaxAttempts]
  /\ at \in [Event -> Nat]
  /\ lock \in Replica \cup {NoReplica}
  /\ batch \subseteq Event
  /\ next \in Sub
  /\ outcome \in [Event -> {"none", "published", "failed"}]
  /\ sent \in [Event -> [Sub -> Nat]]
  /\ crashes \in Nat

\* An event marked PUBLISHED was handed to every subscriber (dispatcher.go
\* 204-222): no partial fan-out is ever taken for a complete one.
PublishedReachedAll ==
  \A e \in Event : row[e] = "PUBLISHED" => \A s \in Sub : sent[e][s] >= 1

\* A subscriber is sent an event again only because a publication of it
\* failed or a drain died: replicas never publish the same event twice at
\* the same time (the advisory lock, dispatcher.go:115-117).
DuplicatesNeedFailure ==
  \A e \in Event, s \in Sub :
    sent[e][s] <= 1 + attempts[e] + crashes + (IF outcome[e] = "failed" THEN 1 ELSE 0)

\* The tasks of an event nobody is draining reflect committed facts only: a
\* DEAD event used up its attempts, a PENDING one has some left.
AttemptsBounded ==
  \A e \in Event :
    /\ row[e] = "DEAD" => attempts[e] = MaxAttempts
    /\ row[e] = "PENDING" => attempts[e] < MaxAttempts

\* The backstop: no event stays PENDING for ever, not even behind events
\* that keep failing at the head of a full batch (dispatcher.go:122-127).
EveryEventSettles ==
  \A e \in Event : (row[e] = "PENDING") ~> (row[e] \in {"PUBLISHED", "DEAD"})

\* PUBLISHED and DEAD are final: no later drain, of any replica, reopens or
\* relabels an event.
SettledStays ==
  [][\A e \in Event : row[e] \in {"PUBLISHED", "DEAD"} => row'[e] = row[e]]_vars
=============================================================================
