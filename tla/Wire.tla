-------------------------------- MODULE Wire --------------------------------
(* One report from the call that serializes it to the developer who reads it: *)
(* the lean backend and its stub (backend.rs), a host that seals (e2e.rs),    *)
(* and the onion transport's transmit_with_retry with its backoff (transport  *)
(* .rs, config.rs), the connector's client (arti_connector.rs) and the HTTP   *)
(* exchange (http.rs).  Every attempt has a stream of its own, whose bytes    *)
(* arrive late, in part or not at all, and whose answer may be cut short.     *)
(* Time is counted in one unit for every wait and is bounded by the code.     *)
(* An issue that a user files goes another way, by a link to a form.          *)
EXTENDS Envelope, Intake

CONSTANTS
    Cases,        \* the pairs of a route and a report, or a request for an issue
    Nonce,        \* ConsentToken::nonce
    Identity,     \* the developers' keys
    Answers,      \* the lines an endpoint may answer with, as glyphs
    Alias,        \* the support address
    Pads,         \* payloads of a padding item; WireHygiene has their lengths
    MaxPayload,   \* max_payload_bytes, in tokens
    MaxResponse,  \* MAX_RESPONSE_BYTES, in glyphs
    Chunk,        \* how many of them one read may bring
    MaxAttempts, BaseBackoff, MaxBackoff,   \* RetryPolicy
    MinJitter, MaxJitter,                   \* JitterBounds
    Timeout                                 \* timeout

Route == {"lean", "stub", "onion", "sealed", "issue"}

ASSUME WireAssumption ==
    /\ {MaxPayload, MaxResponse, Chunk, MaxAttempts, BaseBackoff, MaxBackoff,
        MinJitter, MaxJitter, Timeout} \subseteq Nat
    /\ Chunk > 0
    /\ \A c \in Cases : c[1] \in Route
    /\ \A line \in Answers : Len(line) \in Nat /\ DOMAIN line = 1 .. Len(line)

\* Reports that go out in an envelope have metadata, whose values are texts, and
\* attachments, which have bytes; these and a padding are not the sender's JSON.
IsPayload(s) == IsSequence(s) /\ \A i \in DOMAIN s : s[i].t # "event"

ASSUME ReportAssumption ==
    /\ \A pad \in Pads : IsPayload(pad)
    /\ \A c \in Cases : c[1] # "issue" =>
          /\ IsSequence(c[2].metadata) /\ IsSequence(c[2].attachments)
          /\ \A i \in DOMAIN c[2].metadata : IsSequence(c[2].metadata[i][2])
          /\ \A i \in DOMAIN c[2].attachments : IsPayload(c[2].attachments[i].bytes)

\* What a user writes, and what a host adds to it, are texts.
ASSUME RequestAssumption ==
    \A c \in Cases : c[1] = "issue" =>
        /\ {c[2].title, c[2].body, c[2].template} \subseteq Text
        /\ IsSequence(c[2].labels) /\ \A i \in DOMAIN c[2].labels : c[2].labels[i] \in Text

VARIABLES
    route, report,
    recipients,  \* the keys the host seals to
    pc,
    bytes,       \* the serialized envelope
    client,      \* is there an Arti client?
    attempt, elapsed,
    stream,      \* of every attempt: bytes that may arrive, that have, the answer
    buf,         \* what the sender has read of the answer
    outcome,
    mail, pos, items   \* the bytes a developer reads, how far, and what they hold

sender == <<pc, bytes, client, attempt, elapsed, buf, outcome>>
developer == <<mail, pos, items>>
vars == <<route, report, recipients, sender, stream, developer>>

\* There is one attempt at least.
Attempts == 1 .. (IF MaxAttempts > 1 THEN MaxAttempts ELSE 1)
Unused == [sent |-> 0, got |-> 0, reply |-> <<>>]

Init ==
    /\ \E c \in Cases : route = c[1] /\ report = c[2]
    /\ recipients \in IF route = "sealed" THEN SUBSET Identity ELSE {{}}
    /\ pc = "build" /\ bytes = <<>> /\ client = FALSE /\ attempt = 1 /\ elapsed = 0
    /\ stream = [a \in Attempts |-> Unused]
    /\ buf = <<>> /\ outcome = "none"
    /\ mail = <<>> /\ pos = 0 /\ items = <<>>

Quiet == UNCHANGED <<route, report, recipients, developer>>

Finish(result) == pc' = "done" /\ outcome' = result

-----------------------------------------------------------------------------
(* Building the bytes.                                                        *)

PlainEnvelope == from_report(report, event_id_from_nonce(Nonce))

PadItem(payload) ==
    Item("attachment", "", "_pad", "application/octet-stream", payload)

\* build_capped_envelope_bytes, build_padded_payload: the cap is for what the padding
\* has not yet been added to.
Build ==
    /\ pc = "build" /\ route \notin {"sealed", "issue", "stub"}
    /\ IF Len(to_bytes(PlainEnvelope)) > MaxPayload
         THEN Finish("too large") /\ UNCHANGED bytes
         ELSE \/ /\ bytes' = to_bytes(PlainEnvelope)
                 /\ pc' = IF route = "lean" THEN "connect" ELSE "jitter"
                 /\ UNCHANGED outcome
              \/ /\ route = "onion"
                 /\ \E pad \in Pads :
                      bytes' = to_bytes([PlainEnvelope EXCEPT !.items = Append(@, PadItem(pad))])
                 /\ pc' = "jitter"
                 /\ UNCHANGED outcome
    /\ UNCHANGED <<client, attempt, elapsed, stream, buf>> /\ Quiet

\* The stub builds the envelope too, and then always fails.
StubSend ==
    /\ pc = "build" /\ route = "stub"
    /\ IF Len(to_bytes(PlainEnvelope)) > MaxPayload
         THEN Finish("too large") /\ UNCHANGED bytes
         ELSE Finish("failed") /\ bytes' = to_bytes(PlainEnvelope)
    /\ UNCHANGED <<client, attempt, elapsed, stream, buf>> /\ Quiet

\* Mutant: the event goes along in the clear, so that a server can show a title.
SealBeside ==
    /\ pc = "build" /\ route = "sealed"
    /\ IF recipients = {}
         THEN Finish("no recipients") /\ UNCHANGED bytes
         ELSE \/ /\ bytes' = to_bytes([PlainEnvelope EXCEPT !.items =
                                         Append(@, SealedItem(Ciphertext(report, recipients)))])
                 /\ pc' = "connect" /\ UNCHANGED outcome
              \/ Finish("sealing failed") /\ UNCHANGED bytes
    /\ UNCHANGED <<client, attempt, elapsed, stream, buf>> /\ Quiet

\* seal_report and Envelope::sealed; serializing or encrypting may fail.
Seal ==
    /\ pc = "build" /\ route = "sealed"
    /\ IF recipients = {}
         THEN Finish("no recipients") /\ UNCHANGED bytes
         ELSE \/ /\ bytes' = to_bytes(sealed(Ciphertext(report, recipients),
                                             event_id_from_nonce(Nonce)))
                 /\ pc' = "connect" /\ UNCHANGED outcome
              \/ Finish("sealing failed") /\ UNCHANGED bytes
    /\ UNCHANGED <<client, attempt, elapsed, stream, buf>> /\ Quiet

-----------------------------------------------------------------------------
(* An issue: a link to the form or to the mail program, or the clipboard.     *)

\* A form's link that is too long is not opened.
BuildLink ==
    /\ pc = "build" /\ route = "issue"
    /\ \/ /\ fits_url_length(report)
          /\ bytes' = to_url(report)
          /\ pc' = "launch" /\ UNCHANGED outcome
       \/ /\ ~fits_url_length(report)
          /\ bytes' = clipboard_fallback_body(report) /\ Finish("copied")
       \/ /\ bytes' = mailto_url(Alias, report.title, report.body)
          /\ pc' = "launch" /\ UNCHANGED outcome
    /\ UNCHANGED <<client, attempt, elapsed, stream, buf>> /\ Quiet

\* launch may fail, and then the host copies the text.
Launch ==
    /\ pc = "launch"
    /\ \/ Finish("opened") /\ UNCHANGED bytes
       \/ Finish("copied") /\ bytes' = clipboard_fallback_body(report)
    /\ UNCHANGED <<client, attempt, elapsed, stream, buf>> /\ Quiet

-----------------------------------------------------------------------------
(* Transmitting them.  The lean backend tries once, without a delay; a host   *)
(* that seals sends by means of its own and is taken to do the same.          *)

\* Mutant: the cap is forgotten.
backoff_uncapped(n) == BaseBackoff * 2 ^ (n - 1)

backoff_for(n) ==
    LET wait == BaseBackoff * 2 ^ (IF n <= 33 THEN n - 1 ELSE 32)
    IN IF wait < MaxBackoff THEN wait ELSE MaxBackoff

\* The lean backend's agent bounds the whole of a send and follows no redirect.
agent == [timeout_global |-> Timeout, max_redirects |-> 0]

Takes(d) == elapsed' = IF route = "onion" THEN elapsed + d ELSE agent.timeout_global

\* Mis-ordered bounds are raised to the lower one.
JitterBounds(min, max) == [min |-> min, max |-> IF max < min THEN min ELSE max]

jitter == JitterBounds(MinJitter, MaxJitter)

Jitter ==
    /\ pc = "jitter"
    /\ \E d \in jitter.min .. jitter.max : Takes(d)
    /\ pc' = "connect"
    /\ UNCHANGED <<bytes, client, attempt, stream, buf, outcome>> /\ Quiet

Tried(pcNext) == pc' = pcNext /\ buf' = <<>>

\* ArtiConnector::connect creates the client once and keeps it; creating it and
\* dialling may fail, dialling may take too long.
Connect ==
    /\ pc = "connect"
    /\ \/ ~client /\ UNCHANGED client /\ Tried("failed") /\ Takes(0)
       \/ client' = (route = "onion") /\ Tried("write") /\ Takes(Timeout)
       \/ client' = (route = "onion") /\ Tried("failed") /\ Takes(Timeout)
    /\ UNCHANGED <<bytes, attempt, stream, outcome>> /\ Quiet

\* Headers and body are written; the stream may break before the end, and how much
\* of what was written gets through is left to Arrive.
Write ==
    /\ pc = "write"
    /\ \/ stream' = [stream EXCEPT ![attempt].sent = Len(bytes)] /\ pc' = "read"
       \/ stream' = [stream EXCEPT ![attempt].sent = Len(bytes) - 1] /\ pc' = "failed"
    /\ Takes(0)
    /\ UNCHANGED <<bytes, client, attempt, buf, outcome>> /\ Quiet

\* The cap is looked at after a read, which may have gone past it.
Capped(n) == IF n < MaxResponse + Chunk THEN n ELSE MaxResponse + Chunk - 1

\* Reading stops with the end of the line, at the cap, or where the stream ends.
Read ==
    /\ pc = "read"
    /\ \E n \in 0 .. Len(stream[attempt].reply) :
          buf' = SubSeq(stream[attempt].reply, 1, Capped(n))
    /\ pc' = "answered"
    /\ Takes(Timeout)
    /\ UNCHANGED <<bytes, client, attempt, stream, outcome>> /\ Quiet

ReadTooLate ==
    /\ pc = "read" /\ pc' = "failed" /\ Takes(Timeout)
    /\ UNCHANGED <<bytes, client, attempt, stream, buf, outcome>> /\ Quiet

Decimal(s) ==
    LET Value(g) == CHOOSE n \in 0 .. 9 : <<"0", "1", "2", "3", "4", "5", "6", "7", "8", "9">>[n + 1] = g
        upTo[n \in 0 .. Len(s)] == IF n = 0 THEN 0 ELSE 10 * upTo[n - 1] + Value(s[n])
    IN upTo[Len(s)]

BadStatusLine == 65536   \* no u16

\* The second word of the first line, when the first word is the protocol's.
parse_status_code(response) ==
    LET words == SelectSeq(Split(First(response, {"\r\n"}), {" "}), LAMBDA w : w # <<>>)
    IN IF Len(words) >= 2 /\ words[1][1] = "HTTP" /\ Numeric(words[2])
            /\ Decimal(words[2]) < 65536
         THEN Decimal(words[2]) ELSE BadStatusLine

Is2xx(code) == code >= 200 /\ code < 300
Is4xx(code) == code >= 400 /\ code < 500

\* Mutant: whatever is no refusal is taken for an acceptance.
AcceptedIfNotRefused(code) == code < 400

\* A library's answer to the lean backend: with redirects off a redirect is no error.
Accepted(code) ==
    Is2xx(code) \/ (route # "onion" /\ agent.max_redirects = 0 /\ code \in 300 .. 399)

\* The attempts are used up, or another one would be pointless.
LastAttempt(code) == route # "onion" \/ attempt >= MaxAttempts \/ Is4xx(code)

Rejected(code) ==
    IF route # "onion" THEN "failed"
    ELSE IF code = BadStatusLine THEN "retained unreachable" ELSE "retained rejected"

\* classify_transmit and the loop of transmit_with_retry.
Classify ==
    /\ pc \in {"answered", "failed"}
    /\ LET code == IF pc = "failed" THEN BadStatusLine ELSE parse_status_code(buf)
       IN \/ Accepted(code) /\ Finish("sent") /\ UNCHANGED <<attempt, elapsed>>
          \/ /\ ~Accepted(code) /\ LastAttempt(code)
             /\ Finish(Rejected(code)) /\ UNCHANGED <<attempt, elapsed>>
          \/ /\ ~Accepted(code) /\ ~LastAttempt(code)
             /\ Takes(backoff_for(attempt))
             /\ attempt' = attempt + 1 /\ pc' = "connect" /\ UNCHANGED outcome
    /\ UNCHANGED <<bytes, client, stream, buf>> /\ Quiet

-----------------------------------------------------------------------------
(* The endpoint and the developer.                                            *)

\* What was written arrives, at any time, whole or in part; in part, to bound the
\* states, for one of the attempts, and not after a developer began to read.
Arrive ==
    /\ mail = <<>>
    /\ \E a \in Attempts : \E n \in 1 .. stream[a].sent :
         /\ stream[a].got = 0
         /\ n < Len(bytes) => \A b \in Attempts : stream[b].got \in {0, Len(bytes)}
         /\ stream' = [stream EXCEPT ![a].got = n]
    /\ UNCHANGED <<route, report, recipients, sender, developer>>

Acceptances == {line \in Answers : Is2xx(parse_status_code(line))}

\* No answer begins like an acceptance unless it is one, since a code has three digits.
\* Neither the code nor a property depends on it, but the theorems on what Sent means do.
CodesEnd ==
    /\ ~Is2xx(parse_status_code(<<>>))
    /\ \A line \in Answers : \A n \in 1 .. Len(line) :
          Is2xx(parse_status_code(SubSeq(line, 1, n))) => line \in Acceptances

\* The endpoint answers; it accepts no body that is shorter than its header says.
\* What it answers to an attempt that was given up nobody reads.
Answer ==
    /\ pc = "read" /\ stream[attempt].got > 0 /\ stream[attempt].reply = <<>>
    /\ \E line \in Answers :
         /\ line \in Acceptances => stream[attempt].got = Len(bytes)
         /\ stream' = [stream EXCEPT ![attempt].reply = line]
    /\ UNCHANGED <<route, report, recipients, sender, developer>>

\* The developer pulls what came with one of the attempts, also a part.
Pull ==
    /\ pc = "done" /\ mail = <<>>
    /\ \E a \in Attempts : stream[a].got > 0 /\ mail' = SubSeq(bytes, 1, stream[a].got)
    /\ pos' = IF HeaderAt(mail', 1, "envelope") THEN 4 ELSE 0
    /\ UNCHANGED <<route, report, recipients, sender, stream, items>>

\* The form or the mail program shows the fields of the link.
Show ==
    /\ outcome = "opened" /\ mail = <<>>
    /\ mail' = bytes /\ items' = Form(bytes)
    /\ UNCHANGED <<route, report, recipients, sender, stream, pos>>

Parsing == pos > 0 /\ pos <= Len(mail)

\* One round of the loop of from_bytes; 0 says that it is an error.
ParseItem ==
    /\ Parsing
    /\ IF HeaderAt(mail, pos, "item") /\ PayloadEnd(mail, pos) <= Len(mail) + 1
         THEN items' = Append(items, ItemAt(mail, pos)) /\ pos' = NextItem(mail, pos)
         ELSE pos' = 0 /\ items' = <<>>
    /\ UNCHANGED <<route, report, recipients, sender, stream, mail>>

File == BuildLink \/ Launch

Send == Build \/ StubSend \/ Seal \/ File \/ Jitter \/ Connect \/ Write \/ Read \/ ReadTooLate \/ Classify

Next == Send \/ Arrive \/ Answer \/ Pull \/ ParseItem \/ Show

Spec == Init /\ [][Next]_vars

-----------------------------------------------------------------------------
(* What must hold.                                                            *)

\* The types: no attempt beyond the policy's, nothing under way of one that was not
\* begun, no more at an endpoint or a developer than was written.
TypeOK ==
    /\ route \in Route /\ recipients \subseteq Identity
    /\ pc \in {"build", "jitter", "launch", "connect", "write", "read",
              "answered", "failed", "done"}
    /\ client \in BOOLEAN
    /\ attempt \in Attempts /\ elapsed \in Nat
    /\ \A a \in Attempts : /\ stream[a].got <= stream[a].sent /\ stream[a].sent <= Len(bytes)
                           /\ stream[a].reply \in Answers \cup {<<>>}
                           /\ a > attempt => stream[a] = Unused
    /\ (pc = "done") <=> (outcome # "none")
    /\ Len(mail) <= Len(bytes) /\ pos <= Len(bytes) + 1

\* The items the sender put on the wire, without the padding.
Put == IF route = "sealed" THEN sealed(Ciphertext(report, recipients), <<>>).items
       ELSE PlainEnvelope.items

AllRead == pos > Len(mail) /\ mail # <<>>
Whole == Len(mail) = Len(bytes)

\* What a developer reads is what was sent, whatever bytes the payloads are made of:
\* from the whole all of it and perhaps a padding item, and never a broken header;
\* from a part an error or the first items, and never another one (envelope.rs:240).
\* What a form or a mail program shows is what the user wrote (intake.rs:40).
ReadsWhatWasSent ==
    /\ route = "issue" /\ mail # <<>> =>
         items \in {Params(report), MailParams(report.title, report.body)}
    /\ route # "issue" /\ mail # <<>> =>
        /\ \A i \in DOMAIN items :
              items[i] = IF i <= Len(Put) THEN Put[i] ELSE PadItem(items[i].payload)
        /\ Len(items) <= Len(Put) + 1
        /\ Whole => pos > 0
        /\ AllRead /\ Whole => Len(items) >= Len(Put)

Version(w) ==
    LET parts == Split(w, {"."}) IN Len(parts) <= 2 /\ \A n \in DOMAIN parts : Numeric(parts[n])

CoarseValue(key, v) ==
    LET words == Split(v, {" "}) IN
    /\ v = Coarsened(key, v)
    /\ \A n \in DOMAIN words :
          words[n][1] \in Digit => n = Len(words) /\ Version(words[n])
    /\ key = "app_version" => Len(words) = 1 /\ Version(v)
    /\ key = "locale" => \A i \in DOMAIN v : v[i] \in Letter /\ Fold(v[i]) = v[i]

\* Of the metadata only the allowed keys leave, each once and in one order, whatever
\* the order they were attached in; no word that begins with a number leaves but one
\* version, at the end, of two numbers at most; and a value that is coarsened again
\* stays as it is (quasi.rs:85).  It does not look into words that begin with a
\* letter, nor tell a minor version from a build number: of an OS,
\* "Linux-6.8.0" and "26100.1234" leave whole, against quasi.rs:17 and 184-185.
CoarseOnly ==
    outcome # "none" /\ route # "issue" => \A i \in DOMAIN bytes :
        bytes[i].t = "event" =>
            LET extra == bytes[i].extra
                Rank(n) == CHOOSE k \in DOMAIN ALLOWED_FIELDS : ALLOWED_FIELDS[k] = extra[n][1]
            IN /\ \A n \in DOMAIN extra : CoarseValue(extra[n][1], extra[n][2])
               /\ \A m, n \in DOMAIN extra : m < n => Rank(m) < Rank(n)

\* Nothing of a sealed report is on the wire in the clear, and what a developer pulls
\* opens for the keys it was sealed to, as the whole report, or for nobody: not for
\* another key, and not when a byte is missing (e2e.rs:14, envelope.rs:176).
OnlyRecipientsRead ==
    /\ route = "sealed" => \A i \in DOMAIN bytes : bytes[i].t \notin {"event", "byte"}
    /\ AllRead /\ route # "issue" =>
         LET payload == sealed_payload(items) IN
         /\ \A k \in Identity :
               CanOpen(payload, k) => k \in recipients /\ payload[1].report = report
         /\ Whole => \A k \in recipients : CanOpen(payload, k)

AcceptedWhole ==
    LET code == parse_status_code(stream[attempt].reply)
    IN stream[attempt].got = Len(bytes) /\ code >= 200 /\ code < 300

\* A sender says that a report was sent only if the endpoint has accepted the whole of
\* it (backend.rs:33, "The report was accepted by the endpoint").  The lean backend does
\* not keep this: with redirects off, a redirect is no error to it, and counts as Sent.
SentMeansAccepted == outcome = "sent" => AcceptedWhole

\* The onion transport keeps it: neither a cut answer, nor one to an attempt that it
\* gave up, nor a redirect makes it say so (http.rs:19, transport.rs:344).
OnionSentMeansAccepted == route = "onion" => SentMeansAccepted

\* What one report may take of a pass, in time and in memory: the jitter once, every
\* attempt twice the timeout, between attempts a backoff that never exceeds its cap,
\* and of an answer less than the cap on it and a chunk, whatever the endpoint does
\* (config.rs:72, transport.rs:339, http.rs:58).
Bounded ==
    /\ elapsed <= jitter.max + attempt * 2 * Timeout + (attempt - 1) * MaxBackoff
    /\ Len(buf) < MaxResponse + Chunk
=============================================================================
