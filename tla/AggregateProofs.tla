-------------------------- MODULE AggregateProofs --------------------------
(***************************************************************************)
(* The floor on the threshold, for any number of clients, crashes, weeks   *)
(* and messages, whatever thresholds hosts ask for and however often the   *)
(* transports lose a message or deliver it again.  It is a floor on        *)
(* messages, not on the clients that send them.                            *)
(***************************************************************************)
EXTENDS Aggregate, SequenceTheorems, FiniteSetTheorems, TLAPS

\* A producer, once there is one, has a threshold that was allowed; so has every message
\* that was ever made with one, wherever it is.
Floor(message) == message.threshold \in Nat /\ message.threshold >= MIN_K

FloorInv ==
    /\ DOMAIN producer = Clients
    /\ \A c \in Clients : producer[c] = None \/ Floor(producer[c])
    /\ \A message \in Messages : Floor(message)
    /\ IsFiniteSet(received)
    /\ \A report \in spooled : IsFiniteSet(Collected(from_report(report, <<>>)))

AggregateInv == FloorInv /\ RevealedOnlyAtThreshold

\* A report that is made of a message carries this message and no other (submit.rs:83-103).
LEMMA OneMessage ==
    ASSUME NEW message
    PROVE  Collected(from_report(star_message_report(message), <<>>)) = {message}
<1> DEFINE report == star_message_report(message)
           att == [name |-> STAR_ATTACHMENT_NAME, content_type |-> STAR_CONTENT_TYPE, bytes |-> <<message>>]
           event == EventItem(report)
           item == AttachmentItem(att)
           items == from_report(report, <<>>).items
<1>1. event.content_type # STAR_CONTENT_TYPE
  BY DEF EventItem, Item, STAR_CONTENT_TYPE
<1>2. item.content_type = STAR_CONTENT_TYPE /\ item.payload = <<message>>
  BY DEF AttachmentItem, Item
<1>3. report.attachments = <<att>>
  BY DEF star_message_report
<1>4. items = <<event>> \o [i \in DOMAIN <<att>> |-> AttachmentItem(<<att>>[i])]
  BY <1>3 DEF from_report
<1>5. [i \in DOMAIN <<att>> |-> AttachmentItem(<<att>>[i])] = <<item>>
  OBVIOUS
<1> HIDE DEF report, event, item, att, items
<1>6. DOMAIN items = 1 .. 2 /\ items[1] = event /\ items[2] = item
  <2> DEFINE S == {event, item}
  <2>1. <<event>> \in Seq(S) /\ <<item>> \in Seq(S) /\ Len(<<event>>) = 1 /\ Len(<<item>>) = 1
    OBVIOUS
  <2>2. items = <<event>> \o <<item>>
    BY <1>4, <1>5
  <2> QED
    BY <2>1, <2>2, ConcatProperties, LenProperties
<1>7. {j \in DOMAIN items : items[j].content_type = STAR_CONTENT_TYPE} = {2}
  BY <1>1, <1>2, <1>6
<1>8. Collected(from_report(report, <<>>)) = {i.payload[1] : i \in {items[i] : i \in {2}}}
  BY <1>7 DEF Collected, items
<1>9. {i.payload[1] : i \in {items[i] : i \in {2}}} = {message}
  BY <1>2, <1>6
<1> QED
  BY <1>8, <1>9 DEF report

\* What has been received only grows, and with it what shares a secret and a week.
LEMMA MoreArrives ==
    ASSUME AggregateInv, received \subseteq received', IsFiniteSet(received'), read' = read
    PROVE  RevealedOnlyAtThreshold'
<1> SUFFICES ASSUME NEW message \in read
             PROVE  Cardinality({m \in received' : m.secret = message.secret /\ m.epoch = message.epoch}) >= MIN_K
  BY DEF RevealedOnlyAtThreshold, Kin
<1> DEFINE Old == {m \in received : m.secret = message.secret /\ m.epoch = message.epoch}
           New == {m \in received' : m.secret = message.secret /\ m.epoch = message.epoch}
<1>1. Cardinality(Old) >= MIN_K
  BY DEF AggregateInv, RevealedOnlyAtThreshold, Kin
<1>2. Old \subseteq New /\ New \subseteq received'
  OBVIOUS
<1> HIDE DEF Old, New
<1>3. IsFiniteSet(New)
  BY <1>2, FS_Subset
<1>4. /\ IsFiniteSet(Old) /\ Cardinality(Old) <= Cardinality(New)
      /\ Cardinality(Old) \in Nat /\ Cardinality(New) \in Nat
  BY <1>2, <1>3, FS_Subset, FS_CardinalityType
<1>5. Cardinality(New) >= MIN_K
  BY <1>1, <1>4, AggregateAssumption
<1> QED
  BY <1>5 DEF New

\* Before anything is done the floor holds.
LEMMA AggregateInit == Init => AggregateInv
<1> SUFFICES ASSUME Init PROVE AggregateInv
  OBVIOUS
<1>1. received = {} /\ spooled = {} /\ read = {} /\ producer = [c \in Clients |-> None]
  BY DEF Init
<1>2. Messages = {} /\ IsFiniteSet(received)
  BY <1>1, FS_EmptySet DEF Messages
<1> QED
  BY <1>1, <1>2 DEF AggregateInv, FloorInv, RevealedOnlyAtThreshold, Kin

\* A message is made with the producer's threshold, which is none that was refused
\* (star.rs:100-114, submit.rs:105-129).
LEMMA ProducedAboveFloor ==
    ASSUME FloorInv, NEW c \in Clients, Submits(c), NEW crash, NEW signature
    PROVE  Floor(produce(c, crash, signature))
BY DEF FloorInv, Submits, produce, Floor

\* No step brings a message of a lower threshold, or undoes what was counted.
LEMMA AggregateNext == AggregateInv /\ [Next]_vars => AggregateInv'
<1> SUFFICES ASSUME AggregateInv, [Next]_vars PROVE AggregateInv'
  OBVIOUS
<1>1. FloorInv /\ RevealedOnlyAtThreshold
  BY DEF AggregateInv
<1>2. /\ \A message \in received : Floor(message)
      /\ \A report \in spooled : \A message \in Collected(from_report(report, <<>>)) : Floor(message)
  BY <1>1 DEF FloorInv, Messages
<1>3. CASE UNCHANGED <<producer, received, read, spooled>>
  BY <1>1, <1>3 DEF AggregateInv, FloorInv, Messages, RevealedOnlyAtThreshold, Kin
<1>4. ASSUME NEW c \in Clients, NEW k \in Thresholds, with_threshold(c, k) PROVE AggregateInv'
  <2>1. Floor([threshold |-> k, epoch |-> epoch])
    BY <1>4, AggregateAssumption DEF with_threshold, Allowed, Floor
  <2>2. DOMAIN producer' = Clients /\ \A d \in Clients : producer'[d] = None \/ Floor(producer'[d])
    BY <1>1, <1>4, <2>1 DEF with_threshold, FloorInv
  <2> QED
    BY <1>1, <1>4, <2>2 DEF with_threshold, AggregateInv, FloorInv, Messages, RevealedOnlyAtThreshold, Kin
<1>5. ASSUME NEW c \in Clients, NEW crash \in Crashes, NEW signature \in Signatures[crash],
             submit_over_transport(c, crash, signature) \/ submit_over_tor(c, crash, signature)
      PROVE  AggregateInv'
  <2> DEFINE message == produce(c, crash, signature)
             report == star_message_report(message)
  <2>1. Submits(c) /\ Floor(message)
    BY <1>1, <1>5, ProducedAboveFloor DEF submit_over_transport, submit_over_tor
  <2>2. Collected(from_report(report, <<>>)) = {message} /\ IsFiniteSet({message})
    BY OneMessage, FS_Singleton
  <2>3. /\ received' \in {received, received \cup {message}}
        /\ spooled' \in {spooled, spooled \cup {report}}
        /\ UNCHANGED <<producer, read>>
    BY <1>5, <2>2 DEF submit_over_transport, submit_over_tor, Post, Spooled, Arrives, Submits
  <2> HIDE DEF message, report
  <2>4. IsFiniteSet(received')
    <3>1. IsFiniteSet(received) /\ IsFiniteSet(received \cup {message})
      BY <1>1, <2>2, FS_Union DEF FloorInv
    <3> QED
      BY <2>3, <3>1
  <2>5. \A m \in Messages' : Floor(m)
    BY <1>2, <2>1, <2>2, <2>3 DEF Messages
  <2>6. \A r \in spooled' : IsFiniteSet(Collected(from_report(r, <<>>)))
    BY <1>1, <2>2, <2>3 DEF FloorInv
  <2>7. RevealedOnlyAtThreshold'
    BY <2>3, <2>4, MoreArrives
  <2> QED
    BY <1>1, <2>3, <2>4, <2>5, <2>6, <2>7 DEF AggregateInv, FloorInv
<1>6. ASSUME NEW report \in spooled, NEW answered \in BOOLEAN, Deliver(report, answered) PROVE AggregateInv'
  <2>1. /\ received' = received \cup Collected(from_report(report, <<>>))
        /\ spooled' \subseteq spooled /\ UNCHANGED <<producer, read>>
    BY <1>6 DEF Deliver, Arrives
  <2>2. IsFiniteSet(received')
    BY <1>1, <2>1, FS_Union DEF FloorInv
  <2>3. \A m \in Messages' : Floor(m)
    BY <1>2, <2>1 DEF Messages
  <2>4. RevealedOnlyAtThreshold'
    BY <2>1, <2>2, MoreArrives
  <2> QED
    BY <1>1, <2>1, <2>2, <2>3, <2>4 DEF AggregateInv, FloorInv
<1>7. ASSUME NEW report \in spooled, Evict(report) PROVE AggregateInv'
  <2>1. spooled' \subseteq spooled /\ UNCHANGED <<producer, received, read>>
    BY <1>7 DEF Evict
  <2> QED
    BY <1>1, <1>2, <2>1 DEF AggregateInv, FloorInv, Messages, RevealedOnlyAtThreshold, Kin
<1>8. ASSUME NEW message \in received, Recover(message) PROVE AggregateInv'
  <2> DEFINE Same(m) == {n \in received : n.secret = m.secret /\ n.epoch = m.epoch}
  <2>1. /\ Cardinality(Sharing(message)) >= message.threshold /\ Floor(message)
        /\ read' = read \cup Sharing(message) /\ UNCHANGED <<producer, received, spooled>>
    BY <1>2, <1>8 DEF Recover
  <2>2. ASSUME NEW m \in Sharing(message) PROVE Cardinality(Same(m)) >= MIN_K
    <3>1. Same(m) = Same(message) /\ Sharing(message) \subseteq Same(message) /\ Same(message) \subseteq received
      BY <2>2 DEF Sharing
    <3>2. IsFiniteSet(Same(message)) /\ IsFiniteSet(Sharing(message))
      BY <1>1, <3>1, FS_Subset DEF FloorInv
    <3>3. /\ Cardinality(Sharing(message)) <= Cardinality(Same(message))
          /\ Cardinality(Sharing(message)) \in Nat /\ Cardinality(Same(message)) \in Nat
      BY <3>1, <3>2, FS_Subset, FS_CardinalityType
    <3> HIDE DEF Same
    <3> QED
      BY <2>1, <3>1, <3>3, AggregateAssumption DEF Floor
  <2>3. RevealedOnlyAtThreshold'
    BY <1>1, <2>1, <2>2 DEF RevealedOnlyAtThreshold, Kin
  <2> QED
    BY <1>1, <2>1, <2>3 DEF AggregateInv, FloorInv, Messages
<1> QED
  BY <1>3, <1>4, <1>5, <1>6, <1>7, <1>8 DEF Next, Choose, NextWeek, vars

\* What the collector reads, at least MIN_K messages of one week carried, whatever
\* thresholds hosts ask for and however often a message is delivered; how many clients
\* sent them it does not say.
THEOREM FloorHolds == Spec => []RevealedOnlyAtThreshold
<1>1. AggregateInv => RevealedOnlyAtThreshold
  BY DEF AggregateInv
<1> QED
  BY <1>1, AggregateInit, AggregateNext, PTL DEF Spec
=============================================================================
