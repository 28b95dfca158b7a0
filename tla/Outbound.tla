------------------------------- MODULE Outbound -------------------------------
(***************************************************************************)
(* Delivery of the outbound messages of one conversation                   *)
(* (outbound/outbound.go) by the tasks of the outbound queue and by vendor *)
(* replies that are delivered inline (conversations_write.go), with the    *)
(* outbox sweep that publishes stranded rows again or drops them           *)
(* (crons.go).                                                             *)
(*                                                                         *)
(* Messages are numbered by outbound_messages.seq.  Runner m is the queue  *)
(* task of message m, runner -m the inline delivery of reply m; a runner   *)
(* holds the conversation's advisory lock while it delivers every pending  *)
(* message up to its own.                                                  *)
(***************************************************************************)
EXTENDS Integers, FiniteSets

CONSTANTS
  MaxMsg,       \* bound: messages
  Reply,        \* messages that are vendor replies
  MaxRetry,     \* retries of an outbound task before it is archived
  MaxCrashes,   \* bound: runners and sweeps that die
  MaxRejects,   \* bound: sends that WhatsApp rejects
  MaxTimeouts,  \* bound: sends that reach the customer but report an error
  MaxLost,      \* bound: writes to a row that fail and are only logged
  MaxCancels,   \* bound: replies whose HTTP request is cancelled while waiting
  Window,       \* slots of a sweep's batch left to this conversation, at most
  NoOne         \* nobody holds the conversation lock

Msg == 1..MaxMsg
Runner == Msg \cup {-m : m \in Reply}
Own(x) == IF x > 0 THEN x ELSE -x

ASSUME OutboundAssumption ==
  /\ MaxMsg \in Nat \ {0}
  /\ Reply \subseteq Msg
  /\ MaxRetry \in Nat /\ MaxCrashes \in Nat /\ MaxRejects \in Nat
  /\ MaxTimeouts \in Nat /\ MaxLost \in Nat /\ MaxCancels \in Nat
  /\ Window \in Nat \ {0}
  /\ NoOne \notin Runner

VARIABLES
  status,    \* outbound_messages.status; "absent", "deleted": no row
  unpub,     \* rows whose producer has not published them yet
  run,       \* next step of a runner; "none": there is no such runner
  tries,     \* attempts of a task that failed
  holder,    \* the runner that holds the conversation lock
  backlog,   \* messages the holder read and has not dealt with
  sends,     \* times a message reached the customer
  sweeping,  \* an outbox sweep is in its transaction
  todo,      \* rows it read as stranded and has not dealt with
  stale,     \* rows it marked failed_stale, uncommitted
  crashes, rejects, timeouts, lost, cancels  \* failures so far

rowVars == <<status, unpub>>
runVars == <<run, tries, holder, backlog>>
sweepVars == <<sweeping, todo, stale>>
failures == <<crashes, rejects, timeouts, lost, cancels>>
vars == <<status, unpub, run, tries, holder, backlog, sends, sweeping, todo, stale,
          crashes, rejects, timeouts, lost, cancels>>

Init ==
  /\ status = [m \in Msg |-> "absent"]
  /\ unpub = {}
  /\ run = [x \in Runner |-> "none"]
  /\ tries = [x \in Runner |-> 0]
  /\ holder = NoOne
  /\ backlog = {}
  /\ sends = [m \in Msg |-> 0]
  /\ sweeping = FALSE
  /\ todo = {}
  /\ stale = {}
  /\ crashes = 0 /\ rejects = 0 /\ timeouts = 0 /\ lost = 0 /\ cancels = 0

Least(S, m) == m \in S /\ \A i \in S : m <= i

-----------------------------------------------------------------------------
(* Producers.                                                              *)

\* PublishOutbound: the task id of a message that is in use is dropped.
Enqueue(m) == run' = [run EXCEPT ![m] = IF @ = "none" THEN "queued" ELSE @]

\* A producer inserts the row; a reply is then delivered inline.
Insert(m) ==
  /\ Least({i \in Msg : status[i] = "absent"}, m)
  /\ status' = [status EXCEPT ![m] = "pending"]
  /\ IF m \in Reply
       THEN run' = [run EXCEPT ![-m] = "queued"] /\ UNCHANGED unpub
       ELSE unpub' = unpub \cup {m} /\ UNCHANGED run
  /\ UNCHANGED <<tries, holder, backlog, sends, sweepVars, failures>>

Publish(m) ==
  /\ m \in unpub
  /\ unpub' = unpub \ {m}
  /\ Enqueue(m)
  /\ UNCHANGED <<status, tries, holder, backlog, sends, sweepVars, failures>>

\* The producer dies, or the queue refuses the task: the row is stranded.
PublishLost(m) ==
  /\ m \in unpub
  /\ unpub' = unpub \ {m}
  /\ UNCHANGED <<status, runVars, sends, sweepVars, failures>>

-----------------------------------------------------------------------------
(* A runner.                                                               *)

\* It loads its row and skips the ones that need no delivery.
Load(x) ==
  /\ run[x] = "queued"
  /\ IF status[Own(x)] \in {"sent", "failed_stale", "deleted"}
       THEN /\ run' = [run EXCEPT ![x] = "none"]
            /\ tries' = [tries EXCEPT ![x] = 0]
       ELSE run' = [run EXCEPT ![x] = "wait"] /\ UNCHANGED tries
  /\ UNCHANGED <<rowVars, holder, backlog, sends, sweepVars, failures>>

\* Mutant: the runner delivers its own message only.
BacklogOwn(x) == {i \in {Own(x)} : status[i] = "pending"}

\* Mutant: the backlog is not restricted to pending rows.
BacklogAll(x) == {i \in 1..Own(x) : status[i] \notin {"absent", "deleted"}}

\* The pending rows up to its own.
Backlog(x) == {i \in 1..Own(x) : status[i] = "pending"}

\* The attempt of runner x is over and succeeded.
Finish(x) ==
  /\ run' = [run EXCEPT ![x] = "none"]
  /\ tries' = [tries EXCEPT ![x] = 0]
  /\ holder' = NoOne

\* Mutant: one retry too many.
AfterFailureOneMore(x) ==
  CASE x < 0 -> "delete"
    [] tries[x] <= MaxRetry -> "queued"
    [] OTHER -> "archived"

\* Where a failed attempt leaves its runner: a task is retried or archived,
\* which keeps its id in use; an inline delivery has yet to drop its row.
AfterFailure(x) ==
  CASE x < 0 -> "delete"
    [] tries[x] < MaxRetry -> "queued"
    [] OTHER -> "archived"

Fail(x) ==
  /\ run' = [run EXCEPT ![x] = AfterFailure(x)]
  /\ tries' = [tries EXCEPT ![x] = IF AfterFailure(x) = "queued" THEN @ + 1 ELSE 0]

\* The runner goes on with what is left of its backlog.
GoOn(x, left) ==
  /\ backlog' = left
  /\ IF left = {}
       THEN Finish(x)
       ELSE run' = [run EXCEPT ![x] = "send"] /\ UNCHANGED <<tries, holder>>

\* It waits for the conversation lock and then reads its backlog.
Lock(x) ==
  /\ run[x] = "wait"
  /\ holder = NoOne
  /\ backlog' = Backlog(x)
  /\ IF Backlog(x) = {}
       THEN Finish(x)
       ELSE /\ run' = [run EXCEPT ![x] = "send"]
            /\ holder' = x
            /\ UNCHANGED tries
  /\ UNCHANGED <<rowVars, sends, sweepVars, failures>>

\* The next message of the backlog reaches the customer.
Send(x) ==
  /\ run[x] = "send"
  /\ \E i \in Msg :
       /\ Least(backlog, i)
       /\ sends' = [sends EXCEPT ![i] = @ + 1]
  /\ run' = [run EXCEPT ![x] = "mark"]
  /\ UNCHANGED <<rowVars, tries, holder, backlog, sweepVars, failures>>

\* A send error of its own message is final for an inline delivery and for
\* the last attempt of a task.
MarkFailed(x) == x < 0 \/ tries[x] >= MaxRetry

\* The send of message i reports an error.  An older message stays pending
\* for its own task; the runner's own message fails the attempt, and when
\* that is final the row is marked under the lock, or that write fails.
SendError(x, i) ==
  IF i # Own(x)
    THEN GoOn(x, backlog \ {i}) /\ UNCHANGED <<status, lost>>
    ELSE /\ backlog' = {}
         /\ holder' = NoOne
         /\ Fail(x)
         /\ \/ ~MarkFailed(x) /\ UNCHANGED <<status, lost>>
            \/ /\ MarkFailed(x)
               /\ i \notin stale        \* else it waits for the sweep
               /\ status' = [status EXCEPT ![i] = IF @ = "deleted" THEN @ ELSE "failed"]
               /\ UNCHANGED lost
            \/ /\ MarkFailed(x)         \* only logged
               /\ lost < MaxLost
               /\ lost' = lost + 1
               /\ UNCHANGED status

SendRejected(x) ==
  /\ run[x] = "send"
  /\ rejects < MaxRejects
  /\ rejects' = rejects + 1
  /\ \E i \in Msg : Least(backlog, i) /\ SendError(x, i)
  /\ UNCHANGED <<unpub, sends, sweepVars, crashes, timeouts, cancels>>

SendTimesOut(x) ==
  /\ run[x] = "send"
  /\ timeouts < MaxTimeouts
  /\ timeouts' = timeouts + 1
  /\ \E i \in Msg :
       /\ Least(backlog, i)
       /\ sends' = [sends EXCEPT ![i] = @ + 1]
       /\ SendError(x, i)
  /\ UNCHANGED <<unpub, sweepVars, crashes, rejects, cancels>>

\* Mutant: only the runner's own message is recorded.
MarkOwn(x) ==
  /\ run[x] = "mark"
  /\ \E i \in Msg :
       /\ Least(backlog, i)
       /\ i \notin stale
       /\ status' = [status EXCEPT ![i] = IF @ = "deleted" \/ i # Own(x) THEN @ ELSE "sent"]
       /\ GoOn(x, backlog \ {i})
  /\ UNCHANGED <<unpub, sends, sweepVars, failures>>

\* The result is recorded; the update waits for a row the sweep holds.
Mark(x) ==
  /\ run[x] = "mark"
  /\ \E i \in Msg :
       /\ Least(backlog, i)
       /\ i \notin stale
       /\ status' = [status EXCEPT ![i] = IF @ = "deleted" THEN @ ELSE "sent"]
       /\ GoOn(x, backlog \ {i})
  /\ UNCHANGED <<unpub, sends, sweepVars, failures>>

\* Recording the result fails, which is only logged.
MarkLost(x) ==
  /\ run[x] = "mark"
  /\ lost < MaxLost
  /\ lost' = lost + 1
  /\ \E i \in Msg : Least(backlog, i) /\ GoOn(x, backlog \ {i})
  /\ UNCHANGED <<rowVars, sends, sweepVars, crashes, rejects, timeouts, cancels>>

\* The process dies; the database releases the lock of its connection.
Crash(x) ==
  /\ run[x] \in {"wait", "send", "mark", "delete"}
  /\ crashes < MaxCrashes
  /\ crashes' = crashes + 1
  /\ IF x < 0 THEN run' = [run EXCEPT ![x] = "none"] /\ UNCHANGED tries ELSE Fail(x)
  /\ IF holder = x THEN holder' = NoOne /\ backlog' = {} ELSE UNCHANGED <<holder, backlog>>
  /\ UNCHANGED <<rowVars, sends, sweepVars, rejects, timeouts, lost, cancels>>

\* The client of a reply disconnects before the reply has the lock: its query
\* fails.
CancelReply(x) ==
  /\ x < 0
  /\ run[x] \in {"queued", "wait"}
  /\ cancels < MaxCancels
  /\ cancels' = cancels + 1
  /\ run' = [run EXCEPT ![x] = "delete"]
  /\ UNCHANGED <<rowVars, tries, holder, backlog, sends, sweepVars, crashes, rejects, timeouts, lost>>

\* The handler of a reply that failed deletes the row, without the
\* conversation lock; it waits for a row the sweep holds.
DropReply(x) ==
  /\ run[x] = "delete"
  /\ Own(x) \notin stale
  /\ status' = [status EXCEPT ![Own(x)] = "deleted"]
  /\ run' = [run EXCEPT ![x] = "none"]
  /\ UNCHANGED <<unpub, tries, holder, backlog, sends, sweepVars, failures>>

\* The delete fails, which is only logged.
DropFails(x) ==
  /\ run[x] = "delete"
  /\ lost < MaxLost
  /\ lost' = lost + 1
  /\ run' = [run EXCEPT ![x] = "none"]
  /\ UNCHANGED <<rowVars, tries, holder, backlog, sends, sweepVars, crashes, rejects, timeouts, cancels>>

-----------------------------------------------------------------------------
(* The outbox sweep: one transaction under its own advisory lock, without  *)
(* the conversation lock.                                                  *)

\* The first `room' pending rows among messages 1..age.
Stranded(age, room) ==
  {m \in 1..age : /\ status[m] = "pending"
                  /\ Cardinality({i \in 1..(m - 1) : status[i] = "pending"}) < room}

\* A batch of the pending rows older than two minutes, oldest first; older
\* rows of other conversations take some of its slots.
SweepBegin ==
  /\ ~sweeping
  /\ \E age \in Msg, room \in 1..Window : todo' = Stranded(age, room)
  /\ todo' # {}
  /\ sweeping' = TRUE
  /\ UNCHANGED <<rowVars, runVars, sends, stale, failures>>

NewerSent(m) == \E i \in Msg : i > m /\ status[i] = "sent"

\* Mutant: the sweep marks stale rows and publishes nothing.
SweepRowNoPublish(m) ==
  /\ Least(todo, m)
  /\ todo' = todo \ {m}
  /\ stale' = IF NewerSent(m) THEN stale \cup {m} ELSE stale
  /\ UNCHANGED <<rowVars, runVars, sends, sweeping, failures>>

\* A stranded row is published again, or marked failed_stale when a newer
\* message of the conversation already went out.
SweepRow(m) ==
  /\ Least(todo, m)
  /\ todo' = todo \ {m}
  /\ \/ /\ NewerSent(m)
        /\ stale' = stale \cup {m}
        /\ UNCHANGED run
     \/ /\ ~NewerSent(m)
        /\ Enqueue(m)
        /\ UNCHANGED stale
     \/ /\ ~NewerSent(m)        \* the queue refuses: logged
        /\ UNCHANGED <<run, stale>>
  /\ UNCHANGED <<rowVars, tries, holder, backlog, sends, sweeping, failures>>

SweepEnds ==
  /\ sweeping' = FALSE
  /\ todo' = {}
  /\ stale' = {}
  /\ UNCHANGED <<unpub, runVars, sends, rejects, timeouts, lost, cancels>>

SweepCommit ==
  /\ sweeping
  /\ todo = {}
  /\ status' = [m \in Msg |-> IF m \in stale /\ status[m] # "deleted" THEN "failed_stale"
                                                                      ELSE status[m]]
  /\ SweepEnds
  /\ UNCHANGED crashes

SweepDies ==
  /\ sweeping
  /\ crashes < MaxCrashes
  /\ crashes' = crashes + 1
  /\ SweepEnds
  /\ UNCHANGED status

-----------------------------------------------------------------------------
RunnerStep(x) == Load(x) \/ Lock(x) \/ Send(x) \/ Mark(x) \/ DropReply(x)

RunnerFailure(x) ==
  SendRejected(x) \/ SendTimesOut(x) \/ MarkLost(x) \/ Crash(x) \/ CancelReply(x) \/ DropFails(x)

SweepStep == (\E m \in Msg : SweepRow(m)) \/ SweepCommit

Next ==
  \/ \E m \in Msg : Insert(m) \/ Publish(m) \/ PublishLost(m)
  \/ \E x \in Runner : RunnerStep(x) \/ RunnerFailure(x)
  \/ SweepBegin \/ SweepStep \/ SweepDies

Spec == Init /\ [][Next]_vars

\* The runners and the cron keep going, again and again there is a sweep at
\* which every pending row is older than two minutes and other conversations
\* leave Window slots of the batch, and the queue does not refuse for ever
\* what it is offered again and again.
FairSpec ==
  /\ Spec
  /\ WF_vars(\E x \in Runner : RunnerStep(x))
  /\ WF_vars(SweepStep)
  /\ SF_vars(SweepBegin /\ todo' = Stranded(MaxMsg, Window))
  /\ SF_vars(\E m \in Msg : SweepRow(m) /\ run'[m] # run[m])
-----------------------------------------------------------------------------
(* Properties.                                                             *)

TypeOK ==
  /\ status \in [Msg -> {"absent", "pending", "sent", "failed", "failed_stale", "deleted"}]
  /\ unpub \subseteq Msg
  /\ run \in [Runner -> {"none", "queued", "wait", "send", "mark", "delete", "archived"}]
  /\ tries \in [Runner -> 0..MaxRetry]
  /\ holder \in Runner \cup {NoOne}
  /\ backlog \subseteq Msg
  /\ sends \in [Msg -> Nat]
  /\ sweeping \in BOOLEAN
  /\ todo \subseteq Msg /\ stale \subseteq Msg
  /\ crashes \in 0..MaxCrashes /\ rejects \in 0..MaxRejects /\ timeouts \in 0..MaxTimeouts
  /\ lost \in 0..MaxLost /\ cancels \in 0..MaxCancels

\* A customer sees a message twice only because a runner died, a send
\* reported an error or a result could not be recorded: neither the sweep
\* nor the flush of a backlog by another task sends it again
\* (outbound.go:132-146, queue/outbound.go:12-15).
DuplicatesExplained == \A m \in Msg : sends[m] <= 1 + crashes + timeouts + lost

\* Messages reach the customer in the order they were written
\* (outbound.go:8-14), whoever dies, as long as no send is rejected and no
\* reply is withdrawn.
InOrder ==
  rejects + timeouts + cancels = 0 =>
    \A i, j \in Msg : i < j /\ sends[j] > 0 => sends[i] > 0

\* A message recorded as failed never reached the customer, unless a runner
\* died or a result was lost on the way.
FailedUndelivered ==
  crashes + timeouts + lost = 0 => \A m \in Msg : status[m] = "failed" => sends[m] = 0

\* Older rows that no task will ever take fill the sweep's batch: the rows of
\* archived tasks stay pending, and are the oldest of every sweep.
Crowded(m) ==
  Cardinality({i \in 1..(m - 1) : status[i] = "pending" /\ run[i] = "archived"}) >= Window

\* The sweep and the flushes settle every message, stranded by a lost
\* publication, a dead runner or a rejection, unless its own task was
\* archived while the row was pending, or rows of such tasks fill the batch
\* (crons.go:41-46, 66-71).
SettlesUnlessArchived ==
  \A m \in Msg :
    (status[m] = "pending") ~> (status[m] # "pending" \/ run[m] = "archived" \/ Crowded(m))
-----------------------------------------------------------------------------
(* What comments of the code claim and its steps do not keep (README.md).  *)

\* Every message is settled: sent, failed or stale, and the consumer marks
\* it failed once its retries are spent (crons.go:41-46,
\* queue/server.go:46-47).
PendingSettles == \A m \in Msg : (status[m] = "pending") ~> (status[m] # "pending")

\* The sweep recovers every row whose publication was lost, however many rows
\* of archived tasks are older (crons.go:41-46).
StrandedSettles ==
  \A m \in Msg : (status[m] = "pending") ~> (status[m] # "pending" \/ run[m] = "archived")

\* failed_stale messages never go out (outbound.go:154-155).
StaleNeverSent == \A m \in Msg : status[m] = "failed_stale" => sends[m] = 0

\* A failed write of the result does not send the message again
\* (outbound.go:193-194).
LostResultNotResent == \A m \in Msg : sends[m] <= 1 + crashes + timeouts

\* Only undelivered replies lose their record (conversations_write.go
\* 175-177).
DeletedUndelivered ==
  crashes + timeouts = 0 => \A m \in Msg : status[m] = "deleted" => sends[m] = 0
=============================================================================
