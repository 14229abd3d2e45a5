-------------------------- MODULE AnalyticsDelivery --------------------------
(***************************************************************************)
(* How an analytics event gets from the service that publishes it into the *)
(* snapshot documents of the analytics microservice.  The publisher        *)
(* swallows every failure; SNS and SQS deliver each message at least once  *)
(* and in any order; the consumer handles a batch one message at a time    *)
(* and stops with the batch at the first exception.                        *)
(*                                                                         *)
(* Sources: src/common/analytics/analytics-event-publisher.service.ts and  *)
(* microservice/analytics/analytics-events.consumer.ts, analytics.service  *)
(* .ts.                                                                    *)
(*                                                                         *)
(* Operators that nothing uses are broken variants of the ones below them. *)
(***************************************************************************)
EXTENDS Naturals, Sequences

CONSTANTS
  Event,       \* what the services publish
  Id, idOf,    \* its eventId; an order triggered twice publishes one id twice
  Doc,         \* the snapshot documents, one per user or admin and period
  docsOf,      \* the documents of an event, in the order they are updated
  Message,     \* the copies that SNS and SQS make of an event
  eventOf,
  BatchSize,   \* MaxNumberOfMessages, 10 in the code
  MaxFaults    \* bound on failing calls and crashes of the consumer

Injective(q) == \A i, j \in DOMAIN q : q[i] = q[j] => i = j

ASSUME EventAssumption ==
  /\ idOf \in [Event -> Id]
  /\ docsOf \in [Event -> Seq(Doc) \ {<<>>}]
  /\ \A e \in Event : Injective(docsOf[e])
  /\ eventOf \in [Message -> Event]
ASSUME BoundAssumption == BatchSize \in Nat /\ MaxFaults \in Nat

VARIABLES
  sent,        \* the events whose publish call has returned
  mail,        \* SQS: the state of each copy
  batch, pc,   \* the messages still to handle, and the step of the first
  at,          \* the document of it to update next
  count,       \* how often each snapshot has counted each eventId
  processed,   \* the ids in the processed-event collection
  faults

consumer == <<batch, pc, at>>
mongo == <<count, processed>>
vars == <<sent, mail, consumer, mongo, faults>>

Mail == {"absent", "visible", "taken", "deleted"}
Step == {"poll", "lookup", "apply", "record", "delete"}

Init ==
  /\ sent = {}
  /\ mail = [m \in Message |-> "absent"]
  /\ batch = <<>> /\ pc = "poll" /\ at = 1
  /\ count = [d \in Doc |-> [i \in Id |-> 0]]
  /\ processed = {}
  /\ faults = 0

-----------------------------------------------------------------------------
(* AnalyticsEventPublisher.publish: the caller never learns of a failure.  *)

Publish(e) ==
  /\ e \notin sent
  /\ sent' = sent \cup {e}
  /\ \E copies \in SUBSET {m \in Message : eventOf[m] = e} :
       mail' = [m \in Message |-> IF m \in copies THEN "visible" ELSE mail[m]]
  /\ UNCHANGED <<consumer, mongo, faults>>

\* The visibility timeout of a received message runs out.
Reappear(m) ==
  /\ mail[m] = "taken"
  /\ mail' = [mail EXCEPT ![m] = "visible"]
  /\ UNCHANGED <<sent, consumer, mongo, faults>>

-----------------------------------------------------------------------------
(* AnalyticsEventsConsumer: poll and handleMessage.                        *)

Batches == {q \in UNION {[1 .. n -> Message] : n \in 1 .. BatchSize} : Injective(q)}

Poll(m) ==
  /\ pc = "poll"
  /\ \E q \in Batches :
       /\ \A i \in DOMAIN q : mail[q[i]] = "visible"
       /\ \E i \in DOMAIN q : q[i] = m
       /\ batch' = q
       /\ mail' = [n \in Message |->
                    IF \E i \in DOMAIN q : q[i] = n THEN "taken" ELSE mail[n]]
  /\ pc' = "lookup" /\ at' = 1
  /\ UNCHANGED <<sent, mongo, faults>>

event == eventOf[Head(batch)]

NeverSeen(i) == FALSE
Seen(i) == i \in processed

Lookup ==
  /\ pc = "lookup"
  /\ pc' = IF Seen(idOf[event]) THEN "delete" ELSE "apply"
  /\ UNCHANGED <<sent, mail, batch, at, mongo, faults>>

\* applyEvent goes through the five periods of the user, then of the admin.
LastDocTooSoon(e) == at + 1 >= Len(docsOf[e])
LastDoc(e) == at = Len(docsOf[e])

DeleteFirst == "delete"
AfterApply == "record"

\* updateUserSnapshot or updateAdminSnapshot: nobody else writes the document
\* between its upsert and its save, so that the two are one step.
Apply ==
  /\ pc = "apply"
  /\ count' = [count EXCEPT ![docsOf[event][at]][idOf[event]] = @ + 1]
  /\ IF LastDoc(event) THEN pc' = AfterApply /\ at' = 1
     ELSE at' = at + 1 /\ UNCHANGED pc
  /\ UNCHANGED <<sent, mail, batch, processed, faults>>

Record ==
  /\ pc = "record"
  /\ processed' = processed \cup {idOf[event]}
  /\ pc' = "delete"
  /\ UNCHANGED <<sent, mail, batch, at, count, faults>>

AlwaysMore(q) == TRUE
More(q) == q # <<>>

KeepMessage(m) == UNCHANGED mail
RemoveMessage(m) == mail' = [mail EXCEPT ![m] = "deleted"]

Delete ==
  /\ pc = "delete"
  /\ RemoveMessage(Head(batch))
  /\ batch' = Tail(batch)
  /\ pc' = IF More(Tail(batch)) THEN "lookup" ELSE "poll"
  /\ UNCHANGED <<sent, at, mongo, faults>>

\* A call throws and the catch of poll drops the rest of the batch, or the
\* process dies: what is in MongoDB stays, what is not deleted comes back.
Abandon ==
  /\ pc # "poll"
  /\ faults < MaxFaults
  /\ faults' = faults + 1
  /\ batch' = <<>> /\ pc' = "poll" /\ at' = 1
  /\ UNCHANGED <<sent, mail, mongo>>

Handle == Lookup \/ Apply \/ Record \/ Delete

\* Every event has been published and no copy is left.
Rest ==
  /\ sent = Event
  /\ pc = "poll" /\ \A m \in Message : mail[m] \in {"absent", "deleted"}
  /\ UNCHANGED vars

Next ==
  \/ \E e \in Event : Publish(e)
  \/ \E m \in Message : Reappear(m) \/ Poll(m)
  \/ Handle \/ Abandon \/ Rest

Spec == Init /\ [][Next]_vars

\* The consumer polls as long as it runs and SQS hands out every visible
\* message in the end; a received one that is not deleted becomes visible.
Fairness ==
  /\ WF_vars(Handle)
  /\ \A m \in Message : WF_vars(Reappear(m)) /\ SF_vars(Poll(m))

FairSpec == Spec /\ Fairness

-----------------------------------------------------------------------------
(* What the delivery guarantees.                                           *)

\* Every variable has its type, and the message in hand has a next document.
TypeOK ==
  /\ sent \subseteq Event
  /\ mail \in [Message -> Mail]
  /\ batch \in Seq(Message)
  /\ pc \in Step
  /\ pc # "poll" => batch # <<>>
  /\ at \in Nat
  /\ IF pc = "apply" THEN at \in 1 .. Len(docsOf[event]) ELSE at = 1
  /\ count \in [Doc -> [Id -> Nat]]
  /\ processed \subseteq Id
  /\ faults \in Nat

\* Every document of event e has counted it.
CountedBy(e) == \A i \in DOMAIN docsOf[e] : count[docsOf[e][i]][idOf[e]] > 0

\* An id is in the processed-event collection only when all ten snapshots of
\* an event with this id have counted it, through crashes and retries.
ProcessedIsCounted ==
  \A i \in processed : \E e \in Event : idOf[e] = i /\ CountedBy(e)

\* The queue loses nothing: a message is deleted only when its id has been
\* recorded (handleMessage deletes last, whatever fails before).
DeletedIsProcessed ==
  \A m \in Message : mail[m] = "deleted" => idOf[eventOf[m]] \in processed

\* "deletes duplicate events without applying them again": copies of a message,
\* reused ids and expired visibility timeouts never make a snapshot count an
\* eventId twice; each failure of the consumer does so at most once, for the
\* one message it was handling.
OneCountPerFault == \A d \in Doc, i \in Id : count[d][i] <= 1 + faults

\* Whatever reaches the queue is counted and deleted in the end.
Drained ==
  \A m \in Message : (mail[m] = "visible") ~> (mail[m] = "deleted")
=============================================================================
