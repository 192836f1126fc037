------------------------------ MODULE Aggregate ------------------------------
(* Tier A: clients make STAR messages of their crashes (star.rs,              *)
(* measurement.rs, submit.rs, consent.rs of itasha-report-aggregate), spool   *)
(* them for the transport, and a collector reads what enough of them share.   *)
(* The sta-rs library and the collector are external: a message can be read   *)
(* together with as many different ones of its secret, epoch and threshold as *)
(* the threshold says, and alone by nobody.                                   *)
EXTENDS Signature, Envelope

CONSTANTS
    Clients,
    Crashes,           \* what goes wrong, whatever a device prints of it
    Renderings(_),     \* the raw frames devices print of a crash
    Metadata(_),       \* the raw metadata of a client
    Class(_),          \* what clients of one coarse class share
    Private,           \* the glyphs that tell one device or person from another
    Thresholds,        \* what hosts ask for
    MIN_K,
    MaxEpoch,
    MaxMessages        \* of one client

ASSUME AggregateAssumption ==
    /\ Thresholds \subseteq Nat /\ MIN_K \in Nat
    /\ MaxEpoch \in Nat \ {0} /\ MaxMessages \in Nat

VARIABLES
    mode,        \* AggregateMode of each client
    producer,    \* each client's StarProducer, or None
    epoch,       \* the week it is
    made,        \* how many messages each client has made
    spooled,     \* reports with a message, which wait for the transport
    received,    \* messages at the collector
    read         \* messages the collector has opened

vars == <<mode, producer, epoch, made, spooled, received, read>>

None == [threshold |-> 0, epoch |-> 0]
Producers == {None} \cup [threshold : Thresholds, epoch : 1 .. MaxEpoch]

Init ==
    /\ mode = [c \in Clients |-> "Off"]
    /\ producer = [c \in Clients |-> None]
    /\ epoch = 1
    /\ made = [c \in Clients |-> 0]
    /\ spooled = {} /\ received = {} /\ read = {}

\* The user opts in or out; what is spooled stays.
Choose(c, choice) ==
    /\ mode[c] # choice
    /\ mode' = [mode EXCEPT ![c] = choice]
    /\ UNCHANGED <<producer, epoch, made, spooled, received, read>>

Allowed(k) == k >= MIN_K

\* The epoch is the one the host names now; the producer keeps it.  Too low a threshold is
\* an error, and the host is left with the producer it had.
with_threshold(c, k) ==
    /\ Allowed(k)
    /\ producer' = [producer EXCEPT ![c] = [threshold |-> k, epoch |-> epoch]]
    /\ UNCHANGED <<mode, epoch, made, spooled, received, read>>

NextWeek ==
    /\ epoch < MaxEpoch
    /\ epoch' = epoch + 1
    /\ UNCHANGED <<mode, producer, made, spooled, received, read>>

\* Mutant: the values as the host has them.
RawTuple(metadata) == metadata

\* The tuple that rides along, in a fixed order.
to_aux_string(metadata) == safe_fields(metadata)

\* The message of a measurement; client, crash and number are not on the wire, the number
\* stands for the random point of the share.
produce(c, crash, signature) ==
    [client |-> c, crash |-> crash, number |-> made[c],
     secret |-> signature, aux |-> to_aux_string(Metadata(c)),
     threshold |-> producer[c].threshold, epoch |-> producer[c].epoch]

STAR_ATTACHMENT_NAME == "w1tn3ss-star"
STAR_CONTENT_TYPE == "application/x-w1tn3ss-star"

\* The report a message travels in: the message is one token, and there is no text.
star_message_report(message) ==
    [stream |-> "CrashReports", title |-> "", body |-> "", metadata |-> <<>>,
     attachments |-> <<[name |-> STAR_ATTACHMENT_NAME, content_type |-> STAR_CONTENT_TYPE,
                        bytes |-> <<message>>]>>]

\* What the collector takes out of an envelope; it does not look at the event id.
Collected(envelope) ==
    {item.payload[1] : item \in {envelope.items[i] : i \in
        {j \in DOMAIN envelope.items : envelope.items[j].content_type = STAR_CONTENT_TYPE}}}

Arrives(report) == received' = received \cup Collected(from_report(report, <<>>))

\* The signatures devices give a crash; frames without a symbol give none.
Signatures ==
    [crash \in Crashes |-> {crash_signature(frames) : frames \in Renderings(crash)} \ {<<>>}]

permits_aggregation(m) == m = "On"

\* The host mints a token for a client that has opted in.
granted(c) == permits_aggregation(mode[c])

\* The lean backend posts it at once, and it arrives or not; nothing is kept.
Post(report) == (Arrives(report) \/ UNCHANGED received) /\ UNCHANGED spooled

\* The onion transport spools it, which may fail.
Spooled(report) ==
    spooled' \in {spooled \cup {report}, spooled} /\ UNCHANGED received

\* What both transports have in common: a signature is measured and counted.
Submits(c) ==
    /\ granted(c) /\ producer[c] # None /\ made[c] < MaxMessages
    /\ made' = [made EXCEPT ![c] = @ + 1]
    /\ UNCHANGED <<mode, producer, epoch, read>>

\* A signature is measured, wrapped and handed to the lean backend.
submit_over_transport(c, crash, signature) ==
    Submits(c) /\ Post(star_message_report(produce(c, crash, signature)))

\* The same over the onion transport.
submit_over_tor(c, crash, signature) ==
    Submits(c) /\ Spooled(star_message_report(produce(c, crash, signature)))

\* The drain posts a report; when the answer is lost it will post it again.
Deliver(report, answered) ==
    /\ Arrives(report)
    /\ spooled' = IF answered THEN spooled \ {report} ELSE spooled
    /\ UNCHANGED <<mode, producer, epoch, made, read>>

\* The budget of the spool takes a report.
Evict(report) ==
    /\ spooled' = spooled \ {report}
    /\ UNCHANGED <<mode, producer, epoch, made, received, read>>

Sharing(message) ==
    {m \in received : m.secret = message.secret /\ m.epoch = message.epoch
                      /\ m.threshold = message.threshold}

\* The collector recovers a secret and opens the messages that share it.
Recover(message) ==
    /\ Cardinality(Sharing(message)) >= message.threshold
    /\ read' = read \cup Sharing(message)
    /\ UNCHANGED <<mode, producer, epoch, made, spooled, received>>

Next ==
    \/ \E c \in Clients, choice \in {"Off", "On"} : Choose(c, choice)
    \/ \E c \in Clients, k \in Thresholds : with_threshold(c, k)
    \/ NextWeek
    \/ \E c \in Clients, crash \in Crashes : \E signature \in Signatures[crash] :
          \/ submit_over_transport(c, crash, signature)
          \/ submit_over_tor(c, crash, signature)
    \/ \E report \in spooled, answered \in BOOLEAN : Deliver(report, answered)
    \/ \E report \in spooled : Evict(report)
    \/ \E message \in received : Recover(message)

Spec == Init /\ [][Next]_vars

-----------------------------------------------------------------------------
Messages ==
    received \cup UNION {Collected(from_report(report, <<>>)) : report \in spooled}

Kin(message) ==
    {m \in received : m.secret = message.secret /\ m.epoch = message.epoch}

\* Whatever thresholds hosts ask for, whichever producers a client goes through, and
\* however often the transport repeats itself, what the collector reads was sent in at
\* least MIN_K messages of one epoch.  It counts messages, not clients, although
\* the documentation speaks of k distinct clients (star.rs:6-8, lib.rs:11): nothing in the
\* code ties a share to a client, and one that submits a crash k times reaches k alone.
RevealedOnlyAtThreshold ==
    \A message \in read : Cardinality(Kin(message)) >= MIN_K

\* The words of a secret, without the hashes.
Words(secret) ==
    [i \in DOMAIN secret |-> SelectSeq(secret[i], LAMBDA glyph : glyph \notin Hash \cup {":"})]

\* The same crash has the same names in its secret on every device, and no other crash
\* has them: without the first nothing would ever be revealed, without the second
\* strangers would count as one (signature.rs:15).  Two devices may still give one crash
\* two secrets, against signature.rs:12 and 25: a hash with an offset or a line right
\* behind it is not stripped, because it is not at the end when the hashes are.
SameCrashCollides ==
    \A m, n \in Messages : Words(m.secret) = Words(n.secret) <=> m.crash = n.crash

\* A value of os with a number inside a word, such as Linux-6.8.0, of which coarsen_os
\* drops nothing, although measurement.rs:39 says that the build number is dropped.
NumberInWord(field) ==
    /\ field[1] = "os"
    /\ LET words == Split(field[2], {" "}) IN
       \E i \in DOMAIN words : words[i][1] \in Letter /\ \E j \in DOMAIN words[i] : words[i][j] \in Digit

Glyphs(text) == {text[i] : i \in DOMAIN text}

Coarse(aux) == SelectSeq(aux, LAMBDA field : ~NumberInWord(field))

\* What the collector reads with a secret is the same for every client of a class, in
\* bytes, and neither it nor the secret holds one of the private glyphs: a path, an
\* address, a build, a region (measurement.rs:20, 64).  Two things that the code leaves
\* are excepted: a hash in a secret, and an operating system with a number in a word.
NothingIdentifies ==
    /\ \A m, n \in Messages :
          Class(m.client) = Class(n.client) => Coarse(m.aux) = Coarse(n.aux)
    /\ \A m \in Messages :
          LET aux == Coarse(m.aux) IN
          /\ \A i \in DOMAIN aux : Glyphs(aux[i][2]) \cap Private = {}
          /\ \A i \in DOMAIN m.secret : Glyphs(m.secret[i]) \cap Private \subseteq Hash
=============================================================================
