------------------------------ MODULE Envelope ------------------------------
(* What a report looks like on the wire: the Sentry envelope (envelope.rs,    *)
(* report.rs) and the sealed payload it may carry instead (e2e.rs).  Bytes    *)
(* are tokens: a header or the JSON of an event is two of them, so that it    *)
(* can be cut in the middle, and so is an attachment, whose bytes may be      *)
(* newlines or look like a header.                                            *)
EXTENDS Quasi

CONSTANT IdLen   \* the length of an event id, 32 in the code

\* A sequence, of whatever it holds.
Elems(s) == {s[i] : i \in DOMAIN s}
IsSequence(s) == s \in Seq(Elems(s))

Newline == [t |-> "newline"]
Close   == [t |-> "close"]
Byte(b) == [t |-> "byte", b |-> b]

\* A report is [stream, title, body, metadata, attachments], an attachment
\* [name, content_type, bytes].
IsMinidump(att) == att.name = "minidump" \/ att.content_type = "application/x-minidump"

HexDigit == {"0", "a", "f"}

\* The hex digits of the nonce, cut or filled up to the length of an id.
event_id_from_nonce(nonce) ==
    LET hex == SelectSeq(nonce, LAMBDA g : g \in HexDigit)
    IN [i \in 1 .. IdLen |-> IF i <= Len(hex) THEN hex[i] ELSE "0"]

Item(type, attachment_type, filename, content_type, payload) ==
    [type |-> type, attachment_type |-> attachment_type, filename |-> filename,
     content_type |-> content_type, payload |-> payload]

EventItem(report) ==
    Item("event", "", "", "application/json",
         <<[t |-> "event",
            level |-> IF report.stream = "CrashReports" THEN "error" ELSE "info",
            message |-> report.title, formatted |-> report.body,
            extra |-> safe_fields(report.metadata)], Close>>)

AttachmentItem(att) ==
    Item("attachment", IF IsMinidump(att) THEN "event.minidump" ELSE "",
         att.name, att.content_type, att.bytes)

from_report(report, event_id) ==
    [event_id |-> event_id,
     items |-> <<EventItem(report)>> \o [i \in DOMAIN report.attachments |->
                                            AttachmentItem(report.attachments[i])]]

CONTENT_TYPE == "application/age-encrypted"
SealedItem(ciphertext) ==
    Item("attachment", CONTENT_TYPE, "report.age", CONTENT_TYPE, ciphertext)

sealed(ciphertext, event_id) ==
    [event_id |-> event_id, items |-> <<SealedItem(ciphertext)>>]

ItemHeader(item) ==
    [t |-> "item", length |-> Len(item.payload), type |-> item.type,
     attachment_type |-> item.attachment_type, filename |-> item.filename,
     content_type |-> item.content_type]

ItemBytes(item) == <<ItemHeader(item), Close, Newline>> \o item.payload \o <<Newline>>

to_bytes(envelope) ==
    LET upTo[n \in 0 .. Len(envelope.items)] ==
          IF n = 0 THEN <<[t |-> "envelope", event_id |-> envelope.event_id], Close, Newline>>
          ELSE upTo[n - 1] \o ItemBytes(envelope.items[n])
    IN upTo[Len(envelope.items)]

-----------------------------------------------------------------------------
(* from_bytes, one item at a time.                                            *)

\* The first newline from a position on; 0 when there is none.
NewlineFrom(bytes, pos) ==
    IF \E i \in pos .. Len(bytes) : bytes[i] = Newline
      THEN CHOOSE i \in pos .. Len(bytes) :
              bytes[i] = Newline /\ \A j \in pos .. (i - 1) : bytes[j] # Newline
      ELSE 0

\* What serde makes of a line: a header is read whole or not at all.
HeaderAt(bytes, pos, type) ==
    /\ NewlineFrom(bytes, pos) = pos + 2
    /\ bytes[pos].t = type /\ bytes[pos + 1] = Close

\* Mutant: the payload goes on to the next newline, and its length is not looked at.
ScannedEnd(bytes, pos) ==
    IF NewlineFrom(bytes, pos + 3) = 0 THEN Len(bytes) + 1 ELSE NewlineFrom(bytes, pos + 3)

\* Behind the last byte of the payload whose header is at pos.
PayloadEnd(bytes, pos) == pos + 3 + bytes[pos].length

ItemAt(bytes, pos) ==
    Item(bytes[pos].type, bytes[pos].attachment_type, bytes[pos].filename,
         bytes[pos].content_type, SubSeq(bytes, pos + 3, PayloadEnd(bytes, pos) - 1))

\* The newline after a payload is skipped, if it is there.
NextItem(bytes, pos) ==
    LET end == PayloadEnd(bytes, pos)
    IN IF end <= Len(bytes) /\ bytes[end] = Newline THEN end + 1 ELSE end

-----------------------------------------------------------------------------
(* The sealed payload: age encrypts to several recipients, any one of whom    *)
(* decrypts it, and authenticates all of it.                                  *)

Ciphertext(report, recipients) ==
    <<[t |-> "age", report |-> report, recipients |-> recipients], Newline, [t |-> "tag"]>>

\* The first attachment of the sealed type; none is <<>>.
sealed_payload(items) ==
    LET at == {i \in DOMAIN items :
                  items[i].type = "attachment" /\ items[i].attachment_type = CONTENT_TYPE}
    IN IF at = {} THEN <<>> ELSE items[CHOOSE i \in at : \A j \in at : i <= j].payload

CanOpen(payload, identity) ==
    /\ Len(payload) = 3 /\ payload[1].t = "age"
    /\ payload = Ciphertext(payload[1].report, payload[1].recipients)
    /\ identity \in payload[1].recipients
=============================================================================
