------------------------------- MODULE Inbound --------------------------------
(***************************************************************************)
(* The way of a customer's messages to an answer: the WhatsApp webhook     *)
(* claims each message and queues its job (webhooks_whatsapp.go,           *)
(* idempotency.go), the job stores the message and asks for a turn of the  *)
(* conversation (webhook.go), and a turn answers what has been stored or   *)
(* leaves it to a human (orchestrator.go, conversations_write.go).         *)
(*                                                                         *)
(* The messages are those of one sender to the number of one business,     *)
(* numbered by their WhatsApp timestamp, few and close enough together for *)
(* one history: none is cut off by a paid order or a pause of two hours.   *)
(* Their jobs ask for a turn under one fixed task id, Fixed, so that a     *)
(* burst becomes one turn; a turn that finds newer messages when it ends   *)
(* schedules another under a fresh id, a slot of Fresh.                    *)
(***************************************************************************)
EXTENDS Integers, FiniteSets

CONSTANTS
  MaxMessages,    \* bound: WhatsApp messages of the sender
  Keyword,        \* messages whose text or transcript has a safety keyword
  Media,          \* voice notes and images
  Redelivered,    \* messages that WhatsApp may deliver more than once
  MaxDeliveries,  \* bound: deliveries of one of them
  MaxFresh,       \* bound: turns under a fresh id that exist at a time
  MaxRetry,       \* retries of a webhook job before it is archived
  MaxFaults,      \* bound: calls that fail, workers and requests that die
  MaxTakeovers    \* bound: takeovers and releases by the vendor

Message == 1..MaxMessages
Delivery == 1..MaxDeliveries
Fixed == 0
Fresh == 1..MaxFresh
Turn == {Fixed} \cup Fresh
NoMark == -1

ASSUME InboundAssumption ==
  /\ MaxMessages \in Nat /\ Keyword \subseteq Message /\ Media \subseteq Message
  /\ Redelivered \subseteq Message /\ MaxDeliveries \in Nat \ {0}
  /\ MaxFresh \in Nat /\ MaxRetry \in Nat
  /\ MaxFaults \in Nat /\ MaxTakeovers \in Nat

VARIABLES
  ingest,    \* next step of a delivery of a message
  claims,    \* webhook_events: keys whose claim is committed
  job,       \* the webhook job of a message; "none": its id is free
  tries,     \* attempts of the job that failed
  rows,      \* inbound_messages: stored messages
  linked,    \* stored messages that have their conversation_id
  escalated, \* conversations.is_escalated_to_human
  turn,      \* next step of a turn; "none": there is no such task
  mark,      \* rows a turn counted before it began; NoMark: the count failed
  latest,    \* the newest message, once a turn has read it
  context,   \* messages a turn has read for its answer
  attended,  \* messages answered, or left to the human a turn knows of
  handed,    \* keyword messages for which a human has the conversation
  overtaken, \* keyword messages no guard looks at, and no human was given
  lost,      \* messages a failure has left without a turn
  faults,    \* failures so far
  takeovers  \* takeovers and releases so far

ingestVars == <<ingest, claims>>
jobVars == <<job, tries>>
guardVars == <<escalated, handed, overtaken>>
turnVars == <<linked, turn, mark, latest, context, attended, guardVars>>
vars == <<ingest, claims, job, tries, rows, linked, escalated, turn, mark, latest,
          context, attended, handed, overtaken, lost, faults, takeovers>>

Init ==
  /\ ingest = [m \in Message |-> [d \in Delivery |-> "idle"]]
  /\ claims = {}
  /\ job = [m \in Message |-> "none"]
  /\ tries = [m \in Message |-> 0]
  /\ rows = {}
  /\ linked = {}
  /\ escalated = FALSE
  /\ turn = [i \in Turn |-> "none"]
  /\ mark = [i \in Turn |-> NoMark]
  /\ latest = [i \in Turn |-> {}]
  /\ context = [i \in Turn |-> {}]
  /\ attended = {}
  /\ handed = {}
  /\ overtaken = {}
  /\ lost = {}
  /\ faults = 0 /\ takeovers = 0

Fault == faults < MaxFaults /\ faults' = faults + 1

\* Stored messages that no turn has dealt with.
Waiting == rows \ attended

\* The job of the message is going to ask for a turn.
WillPublish(m) == job[m] = "publish" \/ (job[m] = "queued" /\ tries[m] > 0)

\* Those for which no job will ask for a turn (again).
Asked == {m \in Waiting : ~ WillPublish(m)}

\* What a turn that ends without its re-check may leave behind: messages that
\* wait, and keywords that no human knows of.
Stranded == Asked \cup ((rows \cap Keyword) \ handed)

-----------------------------------------------------------------------------
(* The webhook.  Its answer is 200 whatever becomes of the message.        *)

\* A transaction holds an uncommitted claim of the message.
ClaimOpen(m) == \E d \in Delivery : ingest[m][d] \in {"claimed", "queued"}

\* WhatsApp delivers the message and the handler looks for its key; an error
\* of the lookup counts as not seen.
Receive(m, d) ==
  /\ ingest[m][d] = "idle"
  /\ d > 1 => m \in Redelivered /\ ingest[m][d - 1] # "idle"
  /\ ingest' = [ingest EXCEPT ![m][d] = IF m \in claims THEN "done" ELSE "unseen"]
  /\ UNCHANGED <<claims, jobVars, rows, turnVars, lost, faults, takeovers>>

\* Mutant: the claim is committed on its own, before the job is queued.
ClaimAtOnce(m, d) ==
  /\ ingest[m][d] = "unseen"
  /\ claims' = claims \cup {m}
  /\ ingest' = [ingest EXCEPT ![m][d] = IF m \in claims THEN "done" ELSE "claimed"]
  /\ UNCHANGED <<jobVars, rows, turnVars, lost, faults, takeovers>>

\* The transaction inserts the key, once no other one holds it uncommitted.
Claim(m, d) ==
  /\ ingest[m][d] = "unseen"
  /\ ~ ClaimOpen(m)
  /\ ingest' = [ingest EXCEPT ![m][d] = IF m \in claims THEN "done" ELSE "claimed"]
  /\ UNCHANGED <<claims, jobVars, rows, turnVars, lost, faults, takeovers>>

\* Within it the job is queued; its id may be in use, which is no error.
QueueJob(m, d) ==
  /\ ingest[m][d] = "claimed"
  /\ ingest' = [ingest EXCEPT ![m][d] = "queued"]
  /\ job' = [job EXCEPT ![m] = IF @ = "none" THEN "queued" ELSE @]
  /\ UNCHANGED <<claims, tries, rows, turnVars, lost, faults, takeovers>>

CommitClaim(m, d) ==
  /\ ingest[m][d] = "queued"
  /\ ingest' = [ingest EXCEPT ![m][d] = "done"]
  /\ claims' = claims \cup {m}
  /\ UNCHANGED <<jobVars, rows, turnVars, lost, faults, takeovers>>

\* An error of any of its calls, or its death, takes the claim back; a job
\* that has been queued stays.
AbandonClaim(m, d) ==
  /\ ingest[m][d] \in {"unseen", "claimed", "queued"}
  /\ Fault
  /\ ingest' = [ingest EXCEPT ![m][d] = "done"]
  /\ UNCHANGED <<claims, jobVars, rows, turnVars, lost, takeovers>>

-----------------------------------------------------------------------------
(* The webhook job of a message.                                           *)

\* Mutant: a retry that finds the row stored takes it for a duplicate.
IsDuplicateAlways(m) == m \in rows

\* A first attempt that finds the row stored has nothing to do.
IsDuplicate(m) == m \in rows /\ tries[m] = 0

JobDone(m) ==
  /\ job' = [job EXCEPT ![m] = "none"]
  /\ tries' = [tries EXCEPT ![m] = 0]

\* One transaction stores the claim and the message.
Store(m) ==
  /\ job[m] = "queued"
  /\ ~ ClaimOpen(m)
  /\ claims' = claims \cup {m}
  /\ rows' = rows \cup {m}
  /\ IF IsDuplicate(m)
       THEN JobDone(m)
       ELSE job' = [job EXCEPT ![m] = "publish"] /\ UNCHANGED tries
  /\ UNCHANGED <<ingest, turnVars, lost, faults, takeovers>>

\* The fixed turn can no longer take notice of a message that is stored now.
Past(t) == t \in {"checked", "archived"}

\* PublishOrchestratorDebounce: a fixed id in use drops the request.
PublishTurn(m) ==
  /\ job[m] = "publish"
  /\ JobDone(m)
  /\ turn' = [turn EXCEPT ![Fixed] = IF @ = "none" THEN "scheduled" ELSE @]
  /\ lost' = IF Past(turn[Fixed]) THEN lost \cup {m} ELSE lost
  /\ UNCHANGED <<ingestVars, rows, linked, mark, latest, context, attended, guardVars, faults,
                 takeovers>>

\* Mutant: one retry too many.
MayRetryOnceMore(m) == tries[m] <= MaxRetry

MayRetry(m) == tries[m] < MaxRetry

\* The attempt fails before or after the transaction, or its worker dies: the
\* job is retried or archived.
FailJob(m) ==
  /\ job[m] \in {"queued", "publish"}
  /\ Fault
  /\ IF MayRetry(m)
       THEN /\ job' = [job EXCEPT ![m] = "queued"]
            /\ tries' = [tries EXCEPT ![m] = @ + 1]
            /\ UNCHANGED lost
       ELSE /\ job' = [job EXCEPT ![m] = "archived"]
            /\ lost' = lost \cup {m}
            /\ UNCHANGED tries
  /\ UNCHANGED <<ingestVars, rows, turnVars, takeovers>>

\* A worker that shuts down hands the job back without counting an attempt:
\* the next one is no retry, and finds the row stored.
AbortJob(m) ==
  /\ job[m] = "publish"
  /\ Fault
  /\ job' = [job EXCEPT ![m] = "queued"]
  /\ lost' = IF tries[m] = 0 THEN lost \cup {m} ELSE lost
  /\ UNCHANGED <<ingestVars, tries, rows, turnVars, takeovers>>

-----------------------------------------------------------------------------
(* A turn.                                                                 *)

Step(i, from, to) == turn[i] = from /\ turn' = [turn EXCEPT ![i] = to]

\* The turn is over; what it held is gone.
Leave(i, to) ==
  /\ turn' = [turn EXCEPT ![i] = to]
  /\ mark' = [mark EXCEPT ![i] = NoMark]
  /\ latest' = [latest EXCEPT ![i] = {}]
  /\ context' = [context EXCEPT ![i] = {}]

\* It counts the stored messages first.
Mark(i) ==
  /\ Step(i, "scheduled", "marked")
  /\ mark' = [mark EXCEPT ![i] = Cardinality(rows)]
  /\ UNCHANGED <<ingestVars, jobVars, rows, linked, latest, context, attended, guardVars, lost,
                 faults, takeovers>>

MarkFails(i) ==
  /\ Step(i, "scheduled", "marked")
  /\ Fault
  /\ mark' = [mark EXCEPT ![i] = NoMark]
  /\ UNCHANGED <<ingestVars, jobVars, rows, linked, latest, context, attended, guardVars, lost,
                 takeovers>>

\* It creates or finds the conversation, and reads whether a human has it.
Resolve(i) ==
  /\ Step(i, "marked", IF escalated THEN "paused" ELSE "resolved")
  /\ UNCHANGED <<ingestVars, jobVars, rows, linked, mark, latest, context, attended, guardVars,
                 lost, faults, takeovers>>

\* The newest message: the only one that the media service and the safety
\* guard look at.
Newest(S) == {m \in S : \A n \in S : n <= m}

\* Keywords that no guard has looked at, no human was given and no
\* pausing turn is about to leave to one.
Unguarded ==
  {m \in Keyword \ handed : \A i \in Turn : m \notin latest[i] /\ turn[i] # "held"}

\* It links the messages stored so far to the conversation.  Keywords that
\* are not the newest of them will be examined by no turn.
Link(i) ==
  /\ \/ /\ Step(i, "resolved", "linked")
        /\ overtaken' = overtaken \cup ((rows \cap Unguarded) \ Newest(rows))
     \/ /\ Step(i, "paused", "held")
        /\ UNCHANGED overtaken
  /\ linked' = rows
  /\ UNCHANGED <<ingestVars, jobVars, rows, escalated, mark, latest, context, attended, handed,
                 lost, faults, takeovers>>

\* It reads the newest message of the conversation, whichever turn linked it.
ReadLatest(i) ==
  /\ turn[i] \in {"linked", "held"} /\ latest[i] = {}
  /\ latest' = [latest EXCEPT ![i] = Newest(linked)]
  /\ UNCHANGED <<ingestVars, jobVars, rows, linked, turn, mark, context, attended, guardVars,
                 lost, faults, takeovers>>

\* The turn leaves the messages to a human.
HandOver(i) ==
  /\ latest[i] # {}
  /\ turn' = [turn EXCEPT ![i] = "attended"]
  /\ latest' = [latest EXCEPT ![i] = {}]
  /\ attended' = attended \cup linked

\* Nothing is answered in a conversation that a human had when the turn began;
\* the vendor may have released it since.
Pause(i) ==
  /\ turn[i] = "held"
  /\ HandOver(i)
  /\ IF escalated
       THEN handed' = handed \cup (linked \cap Keyword) /\ UNCHANGED overtaken
       ELSE overtaken' = overtaken \cup ((linked \cap Keyword) \ handed) /\ UNCHANGED handed
  /\ UNCHANGED <<ingestVars, jobVars, rows, linked, escalated, mark, context, lost, faults, takeovers>>

\* A keyword, or media that cannot be processed, escalates; the media come
\* first, whoever has the conversation.
EscalationDue(i) ==
  \/ turn[i] = "linked" /\ latest[i] \cap (Keyword \cup Media) # {}
  \/ turn[i] = "held" /\ latest[i] \cap Media # {}

Escalate(i) ==
  /\ EscalationDue(i)
  /\ HandOver(i)
  /\ escalated' = TRUE
  /\ handed' = handed \cup (linked \cap Keyword)
  /\ UNCHANGED <<ingestVars, jobVars, rows, linked, overtaken, mark, context, lost, faults, takeovers>>

\* Mutant: the guard lets keywords pass.
IsSafeAlways(i) == TRUE

\* No keyword in the message that was read as the newest.
IsSafe(i) == latest[i] \cap Keyword = {}

\* The guard lets the turn go on.
Examine(i) ==
  /\ Step(i, "linked", "examined")
  /\ latest[i] # {} /\ IsSafe(i)
  /\ latest' = [latest EXCEPT ![i] = {}]
  /\ UNCHANGED <<ingestVars, jobVars, rows, linked, mark, context, attended, guardVars, lost,
                 faults, takeovers>>

\* Mutant: the stored messages are counted here, after they were linked.
ReadAndMark(i) ==
  /\ Step(i, "examined", "read")
  /\ context' = [context EXCEPT ![i] = linked]
  /\ mark' = [mark EXCEPT ![i] = Cardinality(rows)]
  /\ UNCHANGED <<ingestVars, jobVars, rows, linked, latest, attended, guardVars, lost, faults,
                 takeovers>>

\* It reads the history of the conversation for the model.
Read(i) ==
  /\ Step(i, "examined", "read")
  /\ context' = [context EXCEPT ![i] = linked]
  /\ UNCHANGED <<ingestVars, jobVars, rows, linked, mark, latest, attended, guardVars, lost, faults,
                 takeovers>>

\* The model's answer is sent, or it is unsure and a human is called.
Attend(i) ==
  /\ Step(i, "read", "attended")
  /\ attended' = attended \cup context[i]
  /\ context' = [context EXCEPT ![i] = {}]
  /\ \/ UNCHANGED <<escalated, handed>>
     \/ escalated' = TRUE /\ handed' = handed \cup (context[i] \cap Keyword)
  /\ UNCHANGED <<ingestVars, jobVars, rows, linked, mark, latest, overtaken, lost, faults, takeovers>>

\* Any error ends the turn without the re-check, be it after an escalation or
\* after an answer; the task is discarded, which frees its id.
FailTurn(i) ==
  /\ turn[i] \in {"marked", "resolved", "paused", "linked", "held", "examined", "read"}
  /\ Fault
  /\ Leave(i, "none")
  /\ lost' = lost \cup Stranded
  /\ attended' \in {attended, attended \cup context[i]}
  /\ \/ UNCHANGED escalated
     \/ /\ turn[i] = "read" \/ EscalationDue(i)
        /\ escalated' = TRUE
  /\ UNCHANGED <<ingestVars, jobVars, rows, linked, handed, overtaken, takeovers>>

\* Messages were stored after the count.
Newer(i) == mark[i] # NoMark /\ Cardinality(rows) > mark[i]

\* reenqueueIfNewerInbound: another turn, under an id of its own.
Recheck(i) ==
  /\ turn[i] = "attended"
  /\ IF Newer(i)
       THEN \E j \in Fresh :
              /\ turn[j] = "none" /\ j # i
              /\ turn' = [turn EXCEPT ![i] = "checked", ![j] = "scheduled"]
       ELSE turn' = [turn EXCEPT ![i] = "checked"]
  /\ lost' = IF mark[i] = NoMark THEN lost \cup Stranded ELSE lost
  /\ UNCHANGED <<ingestVars, jobVars, rows, linked, mark, latest, context, attended, guardVars,
                 faults, takeovers>>

\* The second count, or the request for another turn, fails: both errors are
\* swallowed.
RecheckFails(i) ==
  /\ Step(i, "attended", "checked")
  /\ Fault
  /\ lost' = lost \cup Stranded
  /\ UNCHANGED <<ingestVars, jobVars, rows, linked, mark, latest, context, attended, guardVars,
                 takeovers>>

\* The task is over and its id is free.
EndTurn(i) ==
  /\ turn[i] = "checked"
  /\ Leave(i, "none")
  /\ UNCHANGED <<ingestVars, jobVars, rows, linked, attended, guardVars, lost, faults, takeovers>>

Active == {"marked", "resolved", "paused", "linked", "held", "examined", "read", "attended",
           "checked"}

\* Its worker dies or panics.  The queue grants no retry and archives the
\* task, which keeps the fixed id in use; a fresh id is never used again.
DieTurn(i) ==
  /\ turn[i] \in Active
  /\ Fault
  /\ Leave(i, IF i = Fixed THEN "archived" ELSE "none")
  /\ lost' = lost \cup Stranded
  /\ UNCHANGED <<ingestVars, jobVars, rows, linked, attended, guardVars, takeovers>>

-----------------------------------------------------------------------------
(* The vendor, once the conversation has messages.                         *)

Vendor ==
  /\ linked # {}
  /\ takeovers < MaxTakeovers /\ takeovers' = takeovers + 1
  /\ UNCHANGED <<ingestVars, jobVars, rows, linked, turn, mark, latest, context, attended,
                 overtaken, lost, faults>>

Takeover ==
  /\ Vendor
  /\ escalated' = TRUE
  /\ handed' = handed \cup (linked \cap Keyword)

Release ==
  /\ Vendor
  /\ escalated' = FALSE
  /\ UNCHANGED handed

-----------------------------------------------------------------------------
JobNext(m) == Store(m) \/ PublishTurn(m)
TurnNext(i) ==
  \/ Mark(i) \/ Resolve(i) \/ Link(i) \/ ReadLatest(i) \/ Pause(i) \/ Escalate(i) \/ Examine(i)
  \/ Read(i) \/ Attend(i) \/ Recheck(i) \/ EndTurn(i)

Next ==
  \/ \E m \in Message, d \in Delivery :
       Receive(m, d) \/ Claim(m, d) \/ QueueJob(m, d) \/ CommitClaim(m, d) \/ AbandonClaim(m, d)
  \/ \E m \in Message : JobNext(m) \/ FailJob(m) \/ AbortJob(m)
  \/ \E i \in Turn : TurnNext(i) \/ MarkFails(i) \/ FailTurn(i) \/ RecheckFails(i) \/ DieTurn(i)
  \/ Takeover
  \/ Release

Spec == Init /\ [][Next]_vars

\* The server ends its requests and the workers take up what is queued: asynq
\* polls its queues and every handler call has a deadline.
FairSpec ==
  /\ Spec
  /\ \A m \in Message, d \in Delivery :
       WF_vars(Claim(m, d) \/ QueueJob(m, d) \/ CommitClaim(m, d))
  /\ \A m \in Message : WF_vars(JobNext(m))
  /\ \A i \in Turn : WF_vars(TurnNext(i))

-----------------------------------------------------------------------------
TypeOK ==
  /\ ingest \in [Message -> [Delivery -> {"idle", "unseen", "claimed", "queued", "done"}]]
  /\ claims \subseteq Message
  /\ job \in [Message -> {"none", "queued", "publish", "archived"}]
  /\ tries \in [Message -> 0..MaxRetry]
  /\ rows \subseteq Message
  /\ linked \subseteq rows
  /\ turn \in [Turn -> {"none", "scheduled", "archived"} \cup Active]
  /\ mark \in [Turn -> Nat \cup {NoMark}]
  /\ latest \in [Turn -> SUBSET rows]
  /\ context \in [Turn -> SUBSET rows]
  /\ attended \subseteq rows
  /\ escalated \in BOOLEAN /\ handed \subseteq Keyword /\ overtaken \subseteq Keyword
  /\ lost \subseteq Message
  /\ faults \in 0..MaxFaults /\ takeovers \in 0..MaxTakeovers

(***************************************************************************)
(* A claim never outlives its message: the key of a message is only kept   *)
(* when the message is stored or its job is in the queue, although claim,  *)
(* queue and job are three systems that fail separately (ww_ingestMessage, *)
(* ProcessOnce).  Later deliveries are dropped because of that key.        *)
(***************************************************************************)
ClaimNeverOrphaned ==
  \A m \in claims : m \in rows \/ job[m] # "none"

\* The turn is going to link the message, is working on it, or will notice at
\* its re-check that messages are newer than its count.  Without a count, the
\* end of the turn loses what it has not seen.
WillSee(i, m) ==
  \/ turn[i] \in {"scheduled", "marked", "resolved", "paused"}
  \/ turn[i] \in {"linked", "held", "examined"} /\ m \in linked
  \/ turn[i] = "read" /\ m \in context[i]
  \/ turn[i] \in Active \ {"checked"} /\ (Newer(i) \/ mark[i] = NoMark)

(***************************************************************************)
(* The debounce drops no message silently: a stored message that nobody    *)
(* has dealt with has a job that will ask for a turn, or there is a turn   *)
(* that will see it.  The exceptions are the messages of "lost": a failed  *)
(* job, turn or re-check, a dead worker, or a request dropped by a turn    *)
(* that is past its re-check (PublishOrchestratorDebounce,                 *)
(* reenqueueIfNewerInbound).                                               *)
(***************************************************************************)
WaitingIsCovered ==
  \A m \in Waiting \ lost : WillPublish(m) \/ \E i \in Turn : WillSee(i, m)

\* A claimed message is dealt with in the end, unless a failure lost it
\* (the whole way from ww_ingestMessage to the end of a turn).
ClaimedIsAttended ==
  \A m \in Message : m \in claims ~> m \in attended \cup lost

\* A message with a safety keyword ends with a human, even when an overlapping
\* turn has answered it already, unless a later message of the same burst hid
\* it from the guard, the vendor released the conversation while a turn was
\* pausing for him, or a failure lost it (orchLatestMessage,
\* orchEnforceSafetyGuardrails).
KeywordReachesHuman ==
  \A m \in Keyword : m \in rows ~> m \in handed \cup overtaken \cup lost

\* What the comment of safety.go promises of a keyword message, "human
\* escalation, bypassing the LLM entirely": the model answers no message with
\* a keyword that no human has been given.
ModelSeesNoKeyword ==
  \A i \in Turn : turn[i] = "read" => context[i] \cap Keyword \subseteq handed

\* What the comment of reenqueueIfNewerInbound promises, "close the debounce
\* drop-window": every stored message is dealt with.
EveryMessageSeen ==
  \A m \in Message : m \in rows ~> m \in attended

=============================================================================
