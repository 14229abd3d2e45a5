----------------------- MODULE AnalyticsDeliveryProofs -----------------------
(* Theorems about AnalyticsDelivery, for any events, documents and copies. *)
EXTENDS AnalyticsDelivery, SequenceTheorems, TLAPS

USE DEF consumer, mongo

-----------------------------------------------------------------------------
(* The inductive invariant.                                                *)

\* What the step of the consumer says about the message in hand.
InHand ==
  /\ pc = "apply" => /\ idOf[event] \notin processed
                     /\ \A j \in 1 .. at - 1 : count[docsOf[event][j]][idOf[event]] > 0
  /\ pc = "record" => idOf[event] \notin processed /\ CountedBy(event)
  /\ pc = "delete" => idOf[event] \in processed

\* A snapshot counts an id once for every failure, and once more when it is
\* recorded or in hand; the documents still to be updated lack the last one.
Working(i) == pc \in {"apply", "record"} /\ i = idOf[event]

Exact ==
  /\ \A d \in Doc, i \in Id :
       count[d][i] <= faults + (IF i \in processed \/ Working(i) THEN 1 ELSE 0)
  /\ pc = "apply" => \A j \in at .. Len(docsOf[event]) :
                       count[docsOf[event][j]][idOf[event]] <= faults

Inv ==
  /\ TypeOK /\ InHand
  /\ ProcessedIsCounted /\ DeletedIsProcessed
  /\ Exact

-----------------------------------------------------------------------------
(* Type correctness.                                                       *)

LEMMA TypeInit == Init => TypeOK
  BY EmptySeq, BoundAssumption DEF Init, TypeOK, Mail, Step

\* A batch is a non-empty sequence of messages.
LEMMA BatchIsSeq ==
  ASSUME NEW q \in Batches
  PROVE  q \in Seq(Message) /\ q # <<>>
<1>1. PICK n \in 1 .. BatchSize : q \in [1 .. n -> Message]
  BY DEF Batches
<1>2. q \in Seq(Message)
  BY <1>1, SeqDef, BoundAssumption
<1> QED
  BY <1>1, <1>2, BoundAssumption

LEMMA HeadAndTail ==
  ASSUME NEW q \in Seq(Message), q # <<>>
  PROVE  Head(q) \in Message /\ Tail(q) \in Seq(Message)
  BY HeadTailProperties

\* The event of the message in hand.
LEMMA EventInHand ==
  ASSUME TypeOK, pc # "poll"
  PROVE  /\ Head(batch) \in Message /\ event \in Event /\ idOf[event] \in Id
         /\ docsOf[event] \in Seq(Doc) /\ Len(docsOf[event]) \in Nat \ {0}
         /\ \A j \in 1 .. Len(docsOf[event]) : docsOf[event][j] \in Doc
         /\ DOMAIN docsOf[event] = 1 .. Len(docsOf[event])
<1>1. Head(batch) \in Message /\ event \in Event
  BY HeadAndTail, EventAssumption DEF TypeOK, event
<1>2. docsOf[event] \in Seq(Doc) /\ docsOf[event] # <<>> /\ idOf[event] \in Id
  BY <1>1, EventAssumption
<1> HIDE DEF event
<1> QED
  BY <1>1, <1>2, ElementOfSeq, EmptySeq, LenProperties

LEMMA TypeStep == TypeOK /\ [Next]_vars => TypeOK'
<1> SUFFICES ASSUME TypeOK, [Next]_vars PROVE TypeOK'
  OBVIOUS
<1> USE DEF TypeOK
<1>0. CASE UNCHANGED vars
  BY <1>0 DEF vars, event
<1>1. ASSUME NEW e \in Event, Publish(e) PROVE TypeOK'
  BY <1>1 DEF Publish, Mail, event
<1>2. ASSUME NEW m \in Message, Reappear(m) PROVE TypeOK'
  BY <1>2 DEF Reappear, Mail, event
<1>3. ASSUME NEW m \in Message, Poll(m) PROVE TypeOK'
  <2>1. batch' \in Seq(Message) /\ batch' # <<>>
    BY <1>3, BatchIsSeq DEF Poll
  <2>2. mail' \in [Message -> Mail]
    BY <1>3 DEF Poll, Mail
  <2> QED
    BY <1>3, <2>1, <2>2 DEF Poll, Step
<1>4. CASE Lookup
  <2>1. pc' = "apply" => at' \in 1 .. Len(docsOf[event'])
    BY <1>4, EventInHand DEF Lookup, event
  <2> QED
    BY <1>4, <2>1 DEF Lookup, Step
<1>5. CASE Apply
  <2>1. pc' = "apply" => at' \in 1 .. Len(docsOf[event']) /\ at' \in Nat
    BY <1>5, EventInHand DEF Apply, LastDoc, AfterApply, event
  <2>2. at' \in Nat /\ pc' \in {"apply", "record"} /\ batch' # <<>>
    BY <1>5 DEF Apply, AfterApply
  <2>3. count' \in [Doc -> [Id -> Nat]]
    <3>1. docsOf[event][at] \in Doc /\ idOf[event] \in Id
      BY <1>5, EventInHand DEF Apply
    <3> QED
      BY <1>5, <3>1 DEF Apply
  <2> QED
    BY <1>5, <2>1, <2>2, <2>3 DEF Apply, Step
<1>6. CASE Record
  BY <1>6, EventInHand DEF Record, Step
<1>7. CASE Delete
  <2>1. mail' \in [Message -> Mail] /\ batch' \in Seq(Message)
    BY <1>7, HeadAndTail DEF Delete, RemoveMessage, Mail
  <2> QED
    BY <1>7, <2>1 DEF Delete, More, Step
<1>8. CASE Abandon
  BY <1>8, EmptySeq DEF Abandon, Step
<1> QED
  BY <1>0, <1>1, <1>2, <1>3, <1>4, <1>5, <1>6, <1>7, <1>8 DEF Next, Handle, Rest

\* Every reachable state is of the right type.
THEOREM TypeCorrect == Spec => []TypeOK
  BY TypeInit, TypeStep, PTL DEF Spec

-----------------------------------------------------------------------------
(* The invariant is inductive.                                             *)

LEMMA InvInit == Init => Inv
  BY TypeInit DEF Init, Inv, InHand, ProcessedIsCounted, DeletedIsProcessed, Exact, Working

\* What was counted stays counted.
LEMMA CountsGrow ==
  ASSUME TypeOK, [Next]_vars, NEW d \in Doc, NEW i \in Id
  PROVE  count'[d][i] >= count[d][i] /\ count[d][i] \in Nat
<1>1. count' = count \/ Apply
  BY DEF Next, Handle, Rest, Publish, Reappear, Poll, Lookup, Record, Delete, Abandon, vars
<1>2. CASE Apply
  <2>1. docsOf[event][at] \in Doc /\ idOf[event] \in Id
    BY <1>2, EventInHand DEF Apply, TypeOK
  <2> QED
    BY <1>2, <2>1 DEF Apply, TypeOK
<1> QED
  BY <1>1, <1>2 DEF TypeOK

LEMMA CountedStays ==
  ASSUME TypeOK, [Next]_vars, NEW e \in Event, CountedBy(e)
  PROVE  CountedBy(e)'
<1>1. /\ \A j \in DOMAIN docsOf[e] : docsOf[e][j] \in Doc
      /\ idOf[e] \in Id
  BY EventAssumption, ElementOfSeq, LenProperties
<1>2. ASSUME NEW j \in DOMAIN docsOf[e] PROVE count'[docsOf[e][j]][idOf[e]] > 0
  <2> DEFINE d == docsOf[e][j]
  <2>1. d \in Doc /\ idOf[e] \in Id /\ count[d][idOf[e]] > 0
    BY <1>1 DEF CountedBy
  <2> HIDE DEF d
  <2>2. count'[d][idOf[e]] \in Nat /\ count'[d][idOf[e]] >= count[d][idOf[e]]
    BY <2>1, CountsGrow, TypeStep DEF TypeOK
  <2>3. count'[d][idOf[e]] > 0
    BY <2>1, <2>2, CountsGrow
  <2> QED
    BY <2>3 DEF d
<1> QED
  BY <1>2 DEF CountedBy

LEMMA ProcessedStep ==
  ASSUME Inv, [Next]_vars
  PROVE  ProcessedIsCounted' /\ processed \subseteq processed'
<1>1. UNCHANGED processed \/ Record
  BY DEF Next, Handle, Rest, Publish, Reappear, Poll, Lookup, Apply, Delete, Abandon, vars
<1>2. \A i \in processed : \E e \in Event : idOf[e] = i /\ CountedBy(e)'
  BY CountedStays DEF Inv, ProcessedIsCounted
<1>3. CASE Record
  <2>1. event \in Event /\ CountedBy(event)
    BY <1>3, EventInHand DEF Inv, InHand, Record
  <2>2. CountedBy(event)'
    <3>1. \A e \in Event : CountedBy(e) => CountedBy(e)'
      BY CountedStays DEF Inv
    <3>2. event' = event
      BY <1>3 DEF Record, event
    <3> HIDE DEF event
    <3> QED
      BY <2>1, <3>1, <3>2 DEF CountedBy
  <2>3. processed' = processed \cup {idOf[event]} /\ event' = event
    BY <1>3 DEF Record, event
  <2> HIDE DEF event
  <2> QED
    BY <1>2, <2>1, <2>2, <2>3 DEF ProcessedIsCounted, CountedBy
<1> QED
  BY <1>1, <1>2, <1>3 DEF ProcessedIsCounted

LEMMA DeletedStep ==
  ASSUME Inv, [Next]_vars
  PROVE  DeletedIsProcessed'
<1>1. ASSUME NEW m \in Message, mail'[m] = "deleted", mail[m] # "deleted"
      PROVE  idOf[eventOf[m]] \in processed
  <2>1. Delete
    BY <1>1 DEF Next, Handle, Rest, Publish, Reappear, Poll, Lookup, Apply, Record,
                Abandon, vars, Inv, TypeOK
  <2>2. m = Head(batch)
    BY <1>1, <2>1 DEF Delete, RemoveMessage, Inv, TypeOK
  <2> QED
    BY <2>1, <2>2 DEF Delete, Inv, InHand, event
<1> QED
  BY <1>1, ProcessedStep DEF Inv, DeletedIsProcessed

LEMMA InHandStep ==
  ASSUME Inv, [Next]_vars
  PROVE  InHand'
<1> USE DEF Inv
<1>0. CASE UNCHANGED <<consumer, mongo>>
  BY <1>0 DEF InHand, CountedBy, event
<1>1. ASSUME NEW m \in Message, Poll(m) PROVE InHand'
  BY <1>1 DEF Poll, InHand
<1>2. CASE Lookup
  <2>1. event' = event /\ at = 1 /\ UNCHANGED mongo
    BY <1>2 DEF Lookup, TypeOK, event
  <2> QED
    BY <1>2, <2>1 DEF Lookup, InHand, Seen
<1>3. CASE Apply
  <2>1. /\ event' = event /\ at \in 1 .. Len(docsOf[event])
        /\ UNCHANGED processed /\ idOf[event] \notin processed
        /\ pc' \in {"apply", "record"}
    BY <1>3 DEF Apply, TypeOK, InHand, AfterApply, event
  <2>2. \A j \in 1 .. at : count'[docsOf[event][j]][idOf[event]] > 0
    <3>1. /\ \A j \in 1 .. at : docsOf[event][j] \in Doc
          /\ idOf[event] \in Id
      BY <1>3, <2>1, EventInHand DEF Apply
    <3>2. \A j \in 1 .. at - 1 : count'[docsOf[event][j]][idOf[event]] > 0
      BY <1>3, <2>1, <3>1, CountsGrow, EventInHand DEF Apply, InHand
    <3>3. count'[docsOf[event][at]][idOf[event]] > 0
      BY <1>3, <2>1, <3>1 DEF Apply, TypeOK
    <3> QED
      BY <2>1, <3>2, <3>3, EventInHand, <1>3 DEF Apply
  <2>3. pc' = "apply" => at' = at + 1
    BY <1>3 DEF Apply, AfterApply
  <2>4. pc' = "record" => at = Len(docsOf[event])
    BY <1>3 DEF Apply, LastDoc
  <2>5. DOMAIN docsOf[event] = 1 .. Len(docsOf[event]) /\ Len(docsOf[event]) \in Nat
    BY <1>3, EventInHand DEF Apply
  <2> HIDE DEF event
  <2> QED
    BY <2>1, <2>2, <2>3, <2>4, <2>5 DEF InHand, CountedBy
<1>4. CASE Record
  <2>1. event' = event
    BY <1>4 DEF Record, event
  <2> QED
    BY <1>4, <2>1 DEF Record, InHand
<1>5. CASE Delete
  BY <1>5 DEF Delete, InHand, More
<1>6. CASE Abandon
  BY <1>6 DEF Abandon, InHand
<1> QED
  BY <1>0, <1>1, <1>2, <1>3, <1>4, <1>5, <1>6
     DEF Next, Handle, Rest, Publish, Reappear, vars

\* A message given up in hand is paid for by the failure.
LEMMA ExactStep ==
  ASSUME Inv, [Next]_vars
  PROVE  Exact'
<1>1. Exact /\ TypeOK /\ InHand /\ faults \in Nat
  BY DEF Inv, TypeOK
<1>2. CASE UNCHANGED <<consumer, mongo, faults>>
  BY <1>1, <1>2 DEF Exact, Working, event
<1>3. ASSUME NEW m \in Message, Poll(m) PROVE Exact'
  BY <1>1, <1>3 DEF Poll, Exact, Working
<1>4. CASE Lookup
  <2>1. event' = event /\ at = 1 /\ UNCHANGED <<mongo, faults>> /\ pc = "lookup"
    BY <1>1, <1>4 DEF Lookup, TypeOK, event
  <2>2. idOf[event] \notin processed =>
          \A j \in 1 .. Len(docsOf[event]) : count[docsOf[event][j]][idOf[event]] <= faults
    <3>1. \A d \in Doc : idOf[event] \notin processed => count[d][idOf[event]] <= faults
      BY <1>1, <2>1, EventInHand DEF Exact, Working
    <3> QED
      BY <2>1, <3>1, EventInHand, <1>1
  <2>3. pc' = "apply" => idOf[event] \notin processed
    BY <1>4 DEF Lookup, Seen
  <2>4. pc' \in {"apply", "delete"}
    BY <1>4 DEF Lookup
  <2>5. \A d \in Doc, i \in Id :
          count[d][i] <= faults + (IF i \in processed THEN 1 ELSE 0)
    BY <1>1, <2>1 DEF Exact, Working
  <2>6. \A d \in Doc, i \in Id : count[d][i] \in Nat
    BY <1>1 DEF TypeOK
  <2>7. at' = 1
    BY <1>4, <2>1 DEF Lookup
  <2> HIDE DEF event
  <2> QED
    BY <1>1, <2>1, <2>2, <2>3, <2>4, <2>5, <2>6, <2>7 DEF Exact, Working
<1>5. CASE Apply
  <2> DEFINE d == docsOf[event][at]
             i == idOf[event]
  <2>1. d \in Doc /\ i \in Id /\ at \in 1 .. Len(docsOf[event]) /\ count[d][i] <= faults
    BY <1>1, <1>5, EventInHand DEF Apply, TypeOK, Exact
  <2>2. /\ event' = event /\ UNCHANGED <<processed, faults>>
        /\ pc = "apply" /\ pc' \in {"apply", "record"}
        /\ pc' = "apply" => at' = at + 1
        /\ count' = [count EXCEPT ![d][i] = @ + 1]
    BY <1>5 DEF Apply, AfterApply, event
  <2>3. \A e \in Doc, k \in Id :
          /\ count[e][k] \in Nat
          /\ count'[e][k] = IF e = d /\ k = i THEN count[e][k] + 1 ELSE count[e][k]
    <3> HIDE DEF d, i
    <3> QED
      BY <1>1, <2>1, <2>2 DEF TypeOK
  <2>4. \A j \in at + 1 .. Len(docsOf[event]) :
          /\ docsOf[event][j] \in Doc /\ docsOf[event][j] # d
          /\ count[docsOf[event][j]][i] <= faults
    <3>1. Injective(docsOf[event])
      BY <1>1, <1>5, EventInHand, EventAssumption DEF Apply
    <3> QED
      BY <1>1, <1>5, <2>1, <3>1, EventInHand DEF Apply, Injective, Exact
  <2>5. \A e \in Doc, k \in Id :
          count'[e][k] <= faults + (IF k \in processed \/ k = i THEN 1 ELSE 0)
    <3>1. \A e \in Doc, k \in Id :
            count[e][k] <= faults + (IF k \in processed \/ k = i THEN 1 ELSE 0)
      BY <1>1, <2>2 DEF Exact, Working
    <3> HIDE DEF d, i
    <3> QED
      BY <1>1, <2>1, <2>3, <3>1
  <2>6. \A j \in at + 1 .. Len(docsOf[event]) : count'[docsOf[event][j]][i] <= faults
    BY <2>1, <2>3, <2>4
  <2>7. idOf[event'] = i /\ docsOf[event'] = docsOf[event]
    BY <2>2
  <2> HIDE DEF d, i, event
  <2> QED
    BY <2>2, <2>5, <2>6, <2>7 DEF Exact, Working
<1>6. CASE Record
  <2>1. event' = event
    BY <1>6 DEF Record, event
  <2> QED
    BY <1>1, <1>6, <2>1 DEF Record, Exact, Working
<1>7. CASE Delete
  <2>1. UNCHANGED <<mongo, faults>> /\ pc' \in {"poll", "lookup"} /\ pc = "delete"
    BY <1>7 DEF Delete
  <2> QED
    BY <1>1, <2>1 DEF Exact, Working
<1>8. CASE Abandon
  <2>1. UNCHANGED mongo /\ pc' = "poll" /\ faults' = faults + 1
    BY <1>8 DEF Abandon
  <2>2. \A d \in Doc, i \in Id : count[d][i] \in Nat /\ count[d][i] <= faults + 1
    BY <1>1 DEF Exact, TypeOK
  <2> QED
    BY <1>1, <2>1, <2>2 DEF Exact, Working
<1> QED
  BY <1>2, <1>3, <1>4, <1>5, <1>6, <1>7, <1>8
     DEF Next, Handle, Rest, Publish, Reappear, vars

LEMMA InvStep == Inv /\ [Next]_vars => Inv'
<1> SUFFICES ASSUME Inv, [Next]_vars PROVE Inv'
  OBVIOUS
<1> QED
  BY TypeStep, InHandStep, ProcessedStep, DeletedStep, ExactStep DEF Inv

THEOREM Invariant == Spec => []Inv
  BY InvInit, InvStep, PTL DEF Spec

-----------------------------------------------------------------------------
(* What follows from it.                                                   *)

\* A recorded id has been counted by all the documents of its event.
THEOREM ProcessedIsCountedHolds == Spec => []ProcessedIsCounted
<1>1. Inv => ProcessedIsCounted
  BY DEF Inv
<1> QED
  BY <1>1, Invariant, PTL

\* Nothing is deleted from the queue before it has been recorded.
THEOREM DeletedIsProcessedHolds == Spec => []DeletedIsProcessed
<1>1. Inv => DeletedIsProcessed
  BY DEF Inv
<1> QED
  BY <1>1, Invariant, PTL

\* Duplicates, redelivery and reuse of an id never make a snapshot count an id
\* twice, and each failure or restart of the consumer at most once more.
THEOREM OneCountPerFaultHolds == Spec => []OneCountPerFault
<1>1. Inv => OneCountPerFault
  BY DEF Inv, TypeOK, Exact, OneCountPerFault
<1> QED
  BY <1>1, Invariant, PTL
=============================================================================
