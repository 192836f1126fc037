# W1TN3SS in TLA+

W1TN3SS is a set of Rust crates a host application uses to collect crash and
error reports with the user's consent and to send them, if the host chooses so,
through Tor. This directory holds TLA+ models of its stateful core, the TLC
configurations that check them, and theorems about them that TLAPS checks.
Paths below are relative to the repository; `core`, `tor`, `crash` and `agg`
stand for `crates/itasha-report-core/src`,
`crates/itasha-report-transport-tor/src`, `crates/itasha-crash-capture/src` and
`crates/itasha-report-aggregate/src`.

## 1. The system

```
 panic hook / host code ──Report──▶ Preview ─▶ redact ─▶ consent ─▶ IngestBackend::send
        (host)                     (core/preview.rs)   (core/consent.rs)  │
                                                           lean backend ◀─┴─▶ TorOnionTransport
                                                        (core/backend.rs)      (tor/transport.rs)
                                                               │ POST               │ enqueue
 fault handler ──request_dump──▶ monitor process ──enqueue──▶ SPOOL (core/spool.rs) ◀┘
 (crash/client.rs)                (crash/monitor.rs)           │ list, load, remove
                                                               ▼
                                                        drain_spool ── Tor ──▶ endpoint
```

| Component | State it keeps | Operations | What is hard |
|---|---|---|---|
| **Local spool** `core/spool.rs` | a directory; a process-wide counter | `open`, `enqueue`, `list`, `count`, `total_bytes`, `load`, `remove`, `enforce_budget` | no lock: threads of several processes and a consumer interleave between any two file-system calls; kills, power loss; budgets; names that must sort by age |
| **Onion transport** `tor/transport.rs`, `http.rs`, `config.rs` | the locals of a pass; the spool; the socket | `send`, `drain_spool`, `transmit_with_retry`, `transmit`, `backoff_for`, `sample_jitter`, `post_report`, `read_response`, `parse_status_code` | a list of paths that ages; retries; lost, late and truncated answers; kills before the removal; a pass budget |
| **Crash capture** `crash/client.rs`, `monitor.rs`, `lib.rs`, `emit.rs` | an armed handler and its child process; a server; the raw dump file; an exit code | `arm_capture`, drop, the fault handler, `run_monitor`, the four `ServerHandler` callbacks, `minimize_delete_and_spool`, `surface_outcomes` | two processes and a fault in any of them; a socket name shared by hosts; every call may fail; order of delete and spool |
| **Consent, preview, reporting mode** `core/consent.rs`, `config.rs`, `preview.rs` | a mode per stream; tokens; the preview text | `with_mode`, `Preview::of`, `redact`, `into_edited_report`, `ConsentToken::granted` | what the user saw, agreed to and redacted against what leaves; a second sender that mints consent for itself |
| **Envelope, allowlist, backends** `core/envelope.rs`, `quasi.rs`, `report.rs`, `backend.rs` | none beyond one send | `from_report`, `to_bytes`, `from_bytes`, `safe_fields` and the coarsening, `LeanPipelineBackend::send`, `StubBackend::send` | payloads that look like the framing around them; values that are coarse in one spelling only |
| **End-to-end sealing** `core/e2e.rs` | none | `seal_report`, `open_report`, `Envelope::sealed`, `sealed_payload` | what is in the clear beside the ciphertext; a part of a ciphertext |
| **Manual-issue intake** `core/intake.rs` | none | `to_url`, `mailto_url`, `percent_encode`, `fits_url_length`, `clipboard_fallback_body`, `launch` | text that contains what a link is made of |
| **Sanitizer, redaction** `core/sanitize.rs`, `redact.rs` | none beyond one text | `HostIdentity::detect`, `sanitize`, `strip_identity`, `anchor_paths`, the detectors, `collapse_redactions`, the line shapes, `cap_bytes` | the order of the rules: what one replaces another no longer sees |
| **Minidump scrub** `crash/scrub.rs` | a buffer of bytes | walk the stream directory, zero what identifies, shorten module names | truncated and out-of-range streams; names of odd or impossible length |
| **Tier-A aggregation** `agg/*` | a mode, a producer (threshold, epoch) | `crash_signature`, `to_aux_string`, `StarProducer::with_threshold`, `produce`, `submit_over_transport`, `submit_over_tor` | one spelling of a crash on every device; a threshold that counts shares; a transport that repeats |
| **Wire hygiene** `tor/hygiene.rs` | the locals of one padding | size cap, bucket choice, padding, jitter | a length that contains its own digits, found by an iteration that may swing |
| **Arti connector** `tor/arti_connector.rs` | the client, created once | `connect` | creating it or dialling may fail or take too long |

What makes each correct:

* *Spool.* A listed file is whole and on the device. Enqueueing is atomic: a call
  that failed or died leaves nothing that turns up later, and nothing that is gone
  comes back. The budgets hold. Eviction takes the oldest.
* *Transport.* What is removed as sent was taken by the endpoint; what is dropped
  could never be sent; without a failure nothing is sent twice; the report of a
  pass tells what happened; a pass ends, and every sendable report leaves in the
  end. `Sent` means that the endpoint accepted the whole of it, a failure that it did
  not get there, and time and memory per report are bounded whatever the endpoint does.
* *Crash capture.* The raw dump and the spooled copy are never both there; the
  exit code and the recorded outcome tell what happened; a faulting host is not
  kept in its handler for ever.
* *Consent.* Nothing is sent before the user agreed; what was redacted stays;
  nothing is lost between capture and arrival.
* *Envelope, sealing, intake.* What is read at the other end is what was put in,
  or an error, never something else; of the metadata only coarse values leave; a
  sealed report is readable by its recipients and nobody else.
* *Sanitizer.* No name of the host or its user, no path of somebody's, no secret
  is left, and how many secrets there were cannot be read off.
* *Scrub.* What identifies is gone from the buffer, what a stackwalker needs is
  untouched, and no write leaves the buffer.
* *Aggregation.* Nothing is read below the threshold of clients, the same crash counts as the
  same on every device and no two crashes as one, and what is read identifies
  nobody.
* *Wire hygiene.* What is sent has the length of a bucket, or the best length that
  can be had; the search for it ends.

The code does not keep all of this. Section 3 says which runs show it to be so, and
which show where it is not.

`PROJECT.json` lists, under `hazards`, each place in the code where one of these
could go wrong in a way that tests hardly reach, with the properties that watch it.

## 2. The modules

| Module | Models | Variables ↔ code |
|---|---|---|
| `Spool` | `core/spool.rs`, every file-system call a step | `at`, `data`: each report's file and how much of it is written and synced; `stamp`, `seq`, `clock`: `file_stamp`; `pc`, `cur`, `files`, `total`: the locals of `enqueue` and `enforce_budget` per thread; `result`: what the call returned; `fate`: history |
| `ReportStore` | what the spool promises per report: stored in one step, or not at all | `status` |
| `ReportQueue` | what a single writer sees: a bounded queue | `stored`, `order`: its reports, and which came first |
| `SpoolProofs` | theorems about `Spool`: atomicity, then the budgets; then about `TorDrain`, over them | – |
| `TorDrain` | `drain_spool` and `transmit_with_retry` over `Spool` (EXTENDS it, shares its directory) | `dpc`, `paths`, `todo`, `report`, `attempt`, `answer`, `counts`: locals of the pass; `up`: the endpoint; `taken`, `accepted`, `excused`, `removal`: history |
| `CrashMonitor` | hosts that arm and disarm, their monitors, the raw dump, the exit code | `host`, `child`, `link`, `fault`: `arm_capture` and `ArmedCapture`; `mon`, `name`, `crashed`: the server; `raw`, `saved`, `told`, `exit`: what a capture leaves behind |
| `CrashMonitorProofs` | theorems about `CrashMonitor` | – |
| `Scrub` | `scrub_minidump_in_place` | `dump`: the file as written; `buf`: the buffer; `entries`, `cur`, `mod`: the locals of the two passes; `report`: `ScrubReport` |
| `ScrubProofs` | theorems about `Scrub` | – |
| `ReportFlow` | a report from capture over settings, preview and consent to the endpoint | `mode`: `ReportingConfig`; `stage`, `kind`, `holds`, `redacted`, `agreed`: a report at the host; `spool`, `taking`, `arrived`: the spool, the drain's hand, the endpoint; `shed`: what the code throws away; `setup`: the deployment |
| `ReportFlowProofs` | theorems about `ReportFlow` | – |
| `Quasi` | `core/quasi.rs`: the allowlist and the coarsening (operators) | – |
| `Envelope` | `core/envelope.rs`, `report.rs`, `e2e.rs`: bytes of a report, and back (operators) | – |
| `Intake` | `core/intake.rs`: links and the clipboard text (operators) | – |
| `Wire` | one report from the serializing call to its reader: `backend.rs`, `e2e.rs`, `tor/transport.rs`, `config.rs`, `arti_connector.rs`, `http.rs`, `core/intake.rs` | `pc`, `bytes`, `client`, `attempt`, `elapsed`, `buf`, `outcome`: locals of the send; `stream`: what is under way per attempt; `mail`, `pos`, `items`: `from_bytes` at the developer's |
| `WireProofs` | theorems about `Wire` | – |
| `Sanitize` | `core/sanitize.rs` with `redact.rs`, for one string | `lines`, `text`, `out`: the locals of `sanitize`; `input`: history |
| `SanitizeProofs` | theorems about `Sanitize` | – |
| `Signature` | `agg/signature.rs` (operators) | – |
| `Aggregate` | clients, a transport and the collector: `agg/star.rs`, `measurement.rs`, `submit.rs`, `consent.rs` | `mode`, `producer`: a client; `spooled`, `received`, `read`: where its messages are |
| `AggregateProofs` | theorems about `Aggregate` | – |
| `WireHygiene` | `build_padded_payload` with `tor/hygiene.rs`: the size cap and the padding of one envelope | `size`, `wire`: lengths of the envelope before and after; `candidates`, `budget`, `len`, `round`: locals of `pad_bytes_with_rng` and `pad_random_len` |
| `WireHygieneProofs` | theorems about `WireHygiene` | – |
| `MCSpool`, `MCTorDrain`, `MCCrashMonitor`, `MCScrub`, `MCReportFlow`, `MCWire`, `MCSanitize`, `MCAggregate`, `MCWireHygiene` | instances for TLC | – |

How they compose. `TorDrain` extends `Spool`: threads enqueue, in all their
steps, while a pass runs over the same directory. `CrashMonitor` and `ReportFlow`
use the spool as the atomic store that `Spool` is proved to implement
(`EnqueueIsAtomic`): saving a report is one step, and its error does not tell
whether the report was saved. `Wire` extends `Envelope` and `Intake`, both over
`Quasi`, and is the detail of one `Post` in `TorDrain` and of the sends in
`ReportFlow`; that an attempt ends in time is what `TorDrain`'s fairness rests
on. `Scrub` is the detail of `Minimize` in `CrashMonitor`. `WireHygiene` has the
lengths of what `Wire` pads, and an envelope it refuses is `Oversize` in
`TorDrain`. `Aggregate` extends `Signature` and `Envelope`: its messages travel
as attachments of reports, over either transport.

### Spool

`enqueue` is `Begin` (name), `Create`, `Write`, `Sync`, `Rename`, then
`enforce_budget`: `ListForCount`, `CountEvict`\*, `ListForSum`, `SumFile`\*,
`ListForBytes`, (`ByteStat`, `ByteEvict`)\*, `Return`. The directory is listed
three times, and each loop walks its own, ageing list. `WriteError`, `ListError`
and `SumVanished` are the early returns by `?`; `Unlinked` ignores the result of
`remove_file`, as the code does. A report stands for one call and its file, so
the temporary and the final name of a call are two places of one file.
`Restart` ends the processes it is given: their calls never return and their
counters start from zero. `PowerLoss` also tears any file written and not synced.

What the environment may do is the constant `Env`, so that a property is checked
against exactly the failures it is claimed for.

### TorDrain

`StartPass` lists, and a pass whose listing fails ends with a report of zeros; `TakeNext` takes the oldest path; `EndPass` ends at the end of
the list or of the pass budget, which is looked at before each report but cannot
be used up before the first; `Load` loads and builds; `Discard` removes what
cannot be sent; `Post` is one `transmit` with its retry decision; `Settle`
classifies and removes or retains. A result of `transmit` is a pair: did the
endpoint take the report, and what did the client make of the answer. An answer
cut short in its status line parses as another, non-2xx code. A second attempt in
one pass carries the same event id (the body is built once), a second pass a new
one, so `accepted` counts passes.

### CrashMonitor

`SpawnMonitor`, `Connect`, `ArmError`, `Attach` are `arm_capture`; `DropKill` and
`DropHandler` are the two halves of the drop, in the order of the code; `Fault`
and `FaultLost` the fault handler. In the monitor, `Bind` is `run_monitor` up to
its loop, `CreateFile` and `WriteDump` are the writer's callbacks, `ReadRaw`,
`Minimize`, `DeleteRaw`, `SpoolDump` the steps of `minimize_delete_and_spool`,
`Ack` and `Leave` the end of the loop and `surface_outcomes`. `ServerFails` is a loop
that returns an error, before a capture or after one, whose outcome is then dropped
for `EXIT_RUN_ERROR`. Hosts share one
socket name; a client is served by whichever monitor bound it last.

### Scrub

A dump is an array of cells. `Refuse` and `Collect` are the header and the first
pass, `DropStream`, `KeepStream`, `ModuleList` an entry each of the second,
`CoarsenModule` a module, `LastModule` the end of the list. A write beyond the
buffer would enlarge it, which `TypeOK` forbids: it is where the code would panic.

### ReportFlow

The state keeps, of a report's contents, only which fields hold a private span. A
file of the spool is a report as it was captured or as it was approved, with the
decision it carries. `Content`, `OnWire`, `Arrives` follow `into_edited_report`,
`safe_fields`, `Envelope::from_report`: the body comes from the redacted preview,
everything else from the original, metadata through the allowlist. Whether the host
sends what `into_edited_report` returns or, as the guide's sketch does, the report it
loaded, is part of the deployment (`edits`). `with_mode` is the user's
settings, a mode for each stream, at any time; `Show` asks `permits_reporting`,
`AgreeAlways` is the token a host mints under `Always`. Every enqueue may evict any
files, the new one too (`Enqueues`). `TorSend` has three outcomes: queued, not queued,
and queued with an error, of which the host hears "not queued". `LeanSend` may fail
before or after the report arrived, and calls a redirect sent. `DrainLoad`/`DrainPost`
are the background drain, which mints its own token and asks no mode, and removes
a file that it cannot load or build. The host's
own steps (capture, refuse, what it does after a send) are external, from
`docs/integration-guide.md` sections 3, 4 and 8.

### Envelope, Quasi, Intake and Wire

Bytes are tokens. A JSON header is two tokens, so that it can be cut in the
middle; a payload is tokens of any kind, also newlines and whole headers. A value
of metadata is a sequence of glyphs (numbers, words, punctuation), and
`coarsen_version`, `coarsen_os`, `coarsen_locale` rewrite it as the functions of
that name do.

A behaviour of `Wire` takes one route: `Build` and `StubSend` are the two
backends and the onion transport's `build_padded_payload`, `Seal` a host that
seals, which may fail, `BuildLink` and `Launch` an issue. `Jitter`, `Connect`, `Write`, `Read`,
`ReadTooLate`, `Classify` are `transmit_with_retry`. Each attempt has a stream of
its own, and what was written to it may arrive (`Arrive`) in part, late, or after
the attempt was given up. `Pull` and `ParseItem` are `from_bytes`, a round of its
loop a step; `Show` is a form that decodes a link, with the rules of query
strings (external).

### Sanitize

A text is a sequence of glyphs: words the code does not look into, and the
characters it does look at. `Strip`, `KeepFrame`, `RedactText`, `Judge` are what
`sanitize` does to a line of a body, or to a field, in its order, `Cap` the end.
`strip_identity` and below are operators named as in the code. The detectors of
keys, tokens, addresses and of high entropy are one, `HasSecretShape`, over words
that have such a shape. `SanitizeAssumption` says what a glyph is: a word, one of the
characters the code looks at, a placeholder or half of the truncation marker, and no
word is one of the others.

### Signature and Aggregate

A frame is a sequence of glyphs; `normalize_frame` cuts it as the code does.
`MCAggregate` gives every crash the ways in which devices print it: ordinals,
addresses, paths, generics, closures, hashes, source positions, frames without a
symbol. `with_threshold` makes a producer for the week it is (`epoch` stays what
it was then), `submit_over_transport` and `submit_over_tor` make one message and
hand it over, `Deliver` and `Evict` are the drain and the spool's budget. The
`sta-rs` library and the collector are external: a message opens when as many
different ones of its secret, epoch and threshold have arrived as the threshold
says. The epoch is a `String` the host chooses.

### WireHygiene

A behaviour pads one envelope, of which only the length matters. `CheckCap` is
`build_padded_payload`'s cap; `OnBucket`, `SkipBucket`, `NoBucket`, `TakeBucket`
walk the sorted buckets; `Iterate` is one round of the loop in `pad_random_len`,
`Clamp` one of the loop after it; `Assemble` appends the item, whose header holds
its length in decimal (`Digits`). `Fillable` says, without an iteration, whether
any number of bytes fills a room.

## 3. The runs

Every run takes about two minutes at most with two workers. Those that pass:

| Run (cfg) | Question | Instance |
|---|---|---|
| `spool_concurrent` (`MCSpoolConcurrent`) | Do whole files, the count budget of acknowledged reports, both budgets at rest and atomicity survive any interleaving? `TypeOK`, `ListedComplete`, `AcknowledgedWithinCount`, `BudgetAtRest`, `AtomicStore` (refinement of `ReportStore`) | host thread + monitor thread in two processes, 3 reports of 1, 2 and 4 units, budgets 1 report / 3 units; a consumer, failing writes and lists, a kill or a power loss; 1.9 M states |
| `spool_fifo` (`MCSpoolFifo`) | Does one writer see a bounded queue, through kills in the middle of an eviction? `EvictsOldestFirst` (refinement of `ReportQueue`), `OnlyOversizeEvictsItself` | 1 thread, 4 reports, one of them larger than the budget, two kills; 89 k states |
| `tor_drain` (`MCTorDrain`) | Is what is removed as sent taken, is nothing sent twice needlessly, does a pass end and tell the truth, does every report leave? `SentOnlyIfAccepted`, `NoNeedlessDuplicate`, `ReportIsHonest`, `PassEnds`, `EveryReportLeaves` | 1 thread enqueueing 2 reports into a spool of 1, one of them refused, 3 attempts, two kills, failing listings (of the drain, and of an enqueue, which leaves both reports in the spool), evictions during a pass, endpoint down for a while or for ever; `LiveSpec`; 487 k states |
| `monitor` (`MCCrashMonitor`) | Raw and saved copy never both; exit codes are honest; a fault ends. `TypeOK`, `NeverBothCopies`, `ExitTellsOutcome`, `FaultEnds` | 2 hosts, 2 monitors, one name, every call and the server's loop may fail, every process may be killed; `LiveSpec`; 403 k states |
| `scrub` (`MCScrub`) | Is all gone that identifies, and nothing else? `TypeOK`, `ReservoirsErased`, `OnlyBasenames`, `StackwalkerKeeps` | every order of three streams, one or two modules, names with either separator, at the end, none, of odd and of impossible length, files cut short in four ways; 5 k states |
| `flow` (`MCReportFlow`) | Consent before sending, redacted body stays, nothing lost. `ConsentBeforeSend`, `RedactedBodyStays`, `KeptUntilSettled` | a crash and an issue, settings that change at any time, all deployments in which the drained spool holds approved reports only, with hosts that send what was edited and hosts that do not; evictions, unreadable files, every outcome of a send; 2.4 M states |
| `wire` (`MCWire`) | Is what is read what was sent, is only coarse metadata on the wire, who can read what is sealed, does the onion transport's `Sent` mean accepted, is a send bounded? `ReadsWhatWasSent`, `CoarseOnly`, `OnlyRecipientsRead`, `OnionSentMeansAccepted`, `Bounded` | five routes; payloads of newlines and of fake items; every pair of metadata fields with 16 values; links of every reserved byte; 6 answers, cut anywhere; 2 attempts; 900 k states |
| `sanitize` (`MCSanitize`) | Does any rule hide from another what must go? `TypeOK`, `NoLocalIdentity`, `ForeignPathsGone`, `SecretsGone`, `RedactionsUncounted` | 19 phrases, two with each of 7 things between them, four of them in threes; field and body; 60 k states |
| `aggregate` (`MCAggregate`) | Has one crash one secret but for hashes, does nothing else identify? `SameCrashCollides`, `NothingIdentifies` | 3 clients in 2 classes, 2 crashes in every rendering of `Lines`, hashes with an offset or a line behind them included; an OS with a build, and one with its numbers in a word; thresholds 1 and 2 with a floor of 2, 2 epochs; loss, repetition, eviction; 665 k states |
| `padding` (`MCWireHygiene`) | Does the padding end, and where? `TypeOK`, `LandsWherePossible`, `Returns` | the first two default buckets, the real framing of 93 bytes, every length from 1 to 16 600; 115 k states |

### What the violations show

Each of these runs checks one statement of the repository, quoted in `findings`, and
TLC finds a behaviour of the code that contradicts it.

| Run | Property | What happens |
|---|---|---|
| `flow_unasked` | `ConsentBeforeSend` | The drain mints consent for what is in the spool, "consent-gated at enqueue time"; the monitor's dumps were not. They are sent unasked, although the disclosure says that they stay on the device. It takes a monitor, or a host that captures first, on the spool that is drained; `flow` and the theorems show that there is no other way |
| `flow_redacted` | `RedactedStays` | The preview shows title and metadata and lets the user redact them; `into_edited_report` takes both from the original, and they are sent |

### Divergences seen while modelling

The models follow the code in these, too. The first group contradicts a statement of
the repository. The passing properties do not cover these cases, and their comments
say so.

* *Guide.* The sketch of the "Send" handler (`docs/integration-guide.md:89-93`) passes
  the loaded report to `send`: redactions, of the body too, are without effect
  (`edits` in `ReportFlow`; `RedactedStays` fails with any span).
* *Told "not queued".* `enqueue` may fail in `enforce_budget`, after the rename. The
  host hears "was not queued" (`transport.rs:389`), or the monitor "was discarded"
  (`monitor.rs:194`), and the report is in the spool, to be drained. In `TorSend`
  and `SpoolDump`; consent and the other properties hold with it.
* *Oversize.* A report larger than `max_total_bytes` evicts all others, then itself,
  and `enqueue` returns `Ok` with a path that does not exist; `send` says `Sent`,
  documented as "durably spooled" (`transport.rs:380-381`). In `ByteEvict`.
* *Dropped.* `drain_spool` deletes a report on any error of `load`, a transient read
  error too, as "Unparseable on disk" (`transport.rs:282`); and a report evicted while
  a pass has it on its list is counted as dropped, "permanently un-sendable"
  (`transport.rs:80`). `ReportIsHonest` counts the second among the dropped and is
  about reads that succeed; the theorem `NothingSendableDropped` has the premise.
* *Exit code 1.* The server's loop may fail after a capture; its outcome is dropped
  and the exit code is the one of a monitor that "never ran a capture" (`lib.rs:106`).
  `ExitTellsOutcome` says nothing of code 1.
* *Raw dump.* When the minidump writer fails, the raw file that was created stays,
  although it "is deleted in-handler" (`lib.rs:31-32`). `ExitTellsOutcome` allows it
  where that failure was recorded.
* *Padding.* An envelope of 4003 bytes, the framing short of 4096, gets an empty item
  whose header writes the digit 0, which the framing leaves out: 4097 bytes, between
  two buckets; where no number of bytes fills a gap the result is one byte below the
  bucket; and one less than the framing below the largest bucket is not padded. All
  against `hygiene.rs:144-149`; `LandsWherePossible` is what the code does.
* *Redirects.* With redirects off, a redirect is no error to the lean backend and
  counts as `Sent`, "accepted by the endpoint" (`backend.rs:33`).
  `OnionSentMeansAccepted` is about the other transport, and a report lost so is in
  `shed`.
* *Coarsening.* "Linux-6.8.0" is one word and stays whole, and "26100.1234" keeps its
  second part, against `quasi.rs:17` and `184-185`, and with them the tuple of an
  aggregate message, against `measurement.rs:39`. `CoarseOnly` and `NothingIdentifies`
  name what they leave out.
* *Paths.* An absolute path behind `[`, `{`, `;` or a newline of a field is not
  dropped, although the anchoring is to "fail closed" (`redact.rs:11-13`).
  `ForeignPathsGone` is about the places where the scan looks.
* *Distinct clients.* One client that submits a crash as often as the threshold says
  has it revealed, although it takes "k distinct clients" (`star.rs:6-8`).
* *Hashes.* A hash with an offset or a line right behind it is not stripped, so that
  one crash has two secrets, against `signature.rs:12` and `25`. `SameCrashCollides`
  compares secrets without their hashes.

These contradict nothing that is written, but a reader may expect otherwise.

* *Scrub.* An identifying stream that reaches beyond the end of the file loses its
  slot and keeps its bytes.
* *Settings.* Turning a stream off recalls nothing that is in the spool, and neither
  does opting out of aggregation.
* *HTTP.* A status line cut to `HTTP/1.1 20` is another code and the report is
  retried. A response may pass `MAX_RESPONSE_BYTES` by less than one read.
  `is_valid_onion` (`tor/config.rs:221`) rejects the digits 2 to 7 of base 32; no step
  calls it.
* *Envelope.* A body cut between two items parses as a shorter envelope.
* *Quasi.* Nothing limits the length of a language code.
* *Sanitizer.* `/home/annm` becomes `<HOME>m`. A path dropped inside a token
  (`KEY=/x`) hides the rest of the token from the detectors, and a user's own mail
  address becomes `<USER>@x.y`, which is none. `is_url` never applies: paths are
  dropped before. A line of a body that does not begin with a slash has a safe
  shape, so that `bob@pc` stays. A cache directory below the home directory is
  reported as below `<HOME>`. A variable `USER` that is set and empty hides
  `USERNAME`.
* *Intake.* A label that holds a comma becomes two labels; the text for the
  clipboard has no template and no labels.
* *Signature.* In frames of the form "0x… - name" every symbol is "-"; `->` in a
  generic argument closes a bracket.

### Bounds, and why they are enough

* *Reports, threads.* Two threads give every pairwise interleaving of two
  `enqueue` calls; a third thread would only add evictions of the same kind. With three reports of
  1, 2 and 4 units and budgets of one report and three units, the count alone
  (1 and 2), the bytes alone (4) and both can be exceeded; four reports with a
  count budget of two let the order of evictions show. In the drain one report is refused and
  stays in front of the other. For the runs that show a violation, the smallest instance that
  has it.
* *`MaxClock`.* A restart takes one tick, so `MaxClock` bounds the number of kills:
  one for concurrent writers, two for the queue. Within a tick the counter alone
  orders the names, which is the hard case of the comparison.
* *`MaxAttempts`.* 3: first, middle and last attempt.
* *`accepted`* saturates at 2: "in more than one pass".
* *Monitors.* Two let one be orphaned, taken over or busy with another host's
  fault while the second starts.
* *`Spans`.* The fields that are treated alike are alike in the model; each kind alone,
  two together, and all of them.
* *Wire.* Two attempts: the answer to one meets the bytes of another. At most one
  of them arrives in part, and nothing arrives after a developer began to read:
  parts of two attempts are never read together. `MaxBackoff` is below
  `BaseBackoff` and `MaxJitter` below `MinJitter`, so that the cap and the clamp bite.
  `MaxResponse` is shorter than the longest answer and longer than a status line.
* *Texts.* The rules of the sanitizer look at one run of characters and what touches
  it; two phrases with something between them are every pair of neighbours, three
  show what the replacement of the middle one does to both sides.
* *Dumps.* Streams do not overlap, as a writer lays them out. The cuts end in the
  last name, in the list of modules, in the streams and in the directory.
* *Aggregate.* Three clients of which two share a class, one message each, so that
  there is room for every rendering. How many messages it takes is proved, not run.
* *Lengths.* The first two buckets are 4096 and 16384, so that gaps from nothing to
  12 288 occur: every relation of a gap to the framing, and the crossings of 10,
  100, 1000 and 10 000 bytes.

Deadlock is not checked in these runs: hosts have a finite number of reports, one
report or text is sent or sanitized once, and then the system really stops.

## 4. Fairness

`TorDrain!LiveSpec` assumes weak fairness of `StartPass` and of `DrainStep`: the
host calls `drain_spool` repeatedly (its doc comment asks for that), and a pass
that runs goes on, since connecting and posting are bounded by
`config.timeout` and a backoff by `RetryPolicy::max_backoff`. Nothing obliges threads
to enqueue or the endpoint to recover: `EveryReportLeaves` assumes `<>[]up`
where it needs it, and that passes begin again and again, since a listing that always
fails lets none begin. It is checked without the pass budget and without failing
removals; with either the code does not promise it. Failing reads and removals and
the budget of a pass are in the theorems about the drain, not in the run.

`CrashMonitor!LiveSpec` assumes weak fairness of each running monitor's next
capture step and of noticing a closed connection. Neither arming, nor faulting,
nor binding the name is fair.

`WireHygiene!Spec` assumes weak fairness of its only process: it is sequential code
that calls nothing that could block.

## 5. What is proved

All for any values of the constants that meet the modules' assumptions.

**Spool** (`SpoolProofs`), with every failure in `Event` allowed.
`TypeCorrect`, `NoTornReport` (`Spec => []ListedComplete`) and `EnqueueIsAtomic`
(`Spec => AtomicStore`). `ListedComplete` is not inductive: whether the file
that `Rename` lists is whole depends on what its call did before and on no other
call writing it. The invariant `SpoolInv` adds that a busy thread is alone on its
report (`OneThreadEach`), that a program counter tells how far the file has come
(`Progress`), and that a listed file is whole and has no fate yet
(`SpooledWhole`). For the refinement each action is a step of `ReportStore` on one
report (`OneReportChanges`), on several that a crash gives up (`ManyDiscarded`), or
a stutter.

These theorems are proved over the steps of the spool without the guards that
bound kills and failures (`AnyNext`), so that the drain, which removes reports and
dies on its own terms, inherits them.

*The budgets* (`CountBudgetKept`, `BudgetsKeptAtRest`; premise: removing a file
that is there succeeds, `"io_remove" \notin Env`, since the code counts a file as
gone whether or not it is). Concurrent calls walk through listings that age
separately, so that no single listing bounds the spool. On the count, the
invariant says of every set `T` of calls in the middle of their count: a report
whose call is past its count and that none of `T` has left in its listing fits in
the budget together with all such reports and the own reports of `T`
(`CountBound`). It holds because the listings of counting calls are nested once
the files that are gone are left out (`ListingsNest`), and a call finds its own
report in its listing unless somebody has removed it (`OwnInListing`); names never
repeat (`NamesInv`). With `T` empty it is the budget. On the bytes the invariant is
that while the spool exceeds the budget some call has yet to sum, or one has
summed all that is there and still evicts (`BytesOpen`, `Covers`), or a call was
cut short. Every step of the first argument is that of a call which takes files
away or makes a listing (`TakesAway`).

`SmallReportsSurvive` (`[]OnlyOversizeEvictsItself`) is about one thread, as its
property is: with no consumer, a clock that does not go back and listings that
succeed, a call's own name is the newest, so that when its own report comes up for
eviction nothing else is left and `total` is exactly its size (`AloneInv`).
Where removals succeed too, what a call evicts from is all that is spooled
(`WholeListing`), so that each eviction takes the head of the queue while a budget is
exceeded, and a rename adds the newest name at its tail: `OneWriterSeesAQueue`
(`Spec => EvictsOldestFirst`, the refinement of `ReportQueue`).

**Drain** (`SpoolProofs`), for any spool beside it, any attempts, reports and
hazards: `DrainTypeCorrect`, `RemovedBecauseTaken` (`[]SentOnlyIfAccepted`),
`AtMostOncePerExcuse` (`[]NoNeedlessDuplicate`); `NothingSendableDropped`
(`[]DroppedOnlyUnsendable`) where a file that is there can be read, which the code
does not tell from one that cannot be parsed; `DrainReportIsTrue` (`[]ReportIsHonest`) where
reading and removing a file that is there succeeds. It says of the reports that a pass
came to what its counts mean, an evicted report counted as dropped included, and nothing of reports spooled after the listing. A pass works on a list that ages.
What is known of a listed report, however old the list: it has been in the spool,
so it is there or something has removed it for good (`PathsSeen`, from `SeenStays`
of the spool). On that rest the history of each report (`Deliveries`), the reason
of each discard (`DiscardsExplained`) and the sums of the `DrainReport`
(`CountsAddUp`: every path is processed, in hand or to do). Each step of the drain
is a step of the spool or none (`DrainStepsTheSpool`), which carries atomicity and
both budgets over: `DrainedSpoolIsAtomic`, `DrainedSpoolKeepsBudgets`.

**Crash capture** (`CrashMonitorProofs`). `CaptureTypeCorrect`, `RawOrSaved`
(`[]NeverBothCopies`), `ExitIsHonest` (`[]ExitTellsOutcome`). The inductive invariant
says for each monitor what its raw file and its saved copy can be in each stage
(`Stage`), that both are never there (`Disk`), and what an ended monitor's outcome
and code can be (`Ended`): nothing follows of a capture from code 1, with which a
monitor ends whose loop failed before one or after it, and a raw dump stays only where
a failure was recorded before the spool was tried. Steps of hosts touch no dump; a step of one monitor
touches no other's.

**Flow** (`ReportFlowProofs`), for any settings at any time, any spans, evictions,
unreadable files and outcomes of a send, each under `ApprovedOnly` (a deployment with a
drain neither captures first nor arms the monitor on that spool): `NothingUnasked`
(`[]ConsentBeforeSend`), `RedactedBody` (`[]RedactedBodyStays`, of the body about hosts
that send what was edited) and `EveryReportAccountedFor` (`[]KeptUntilSettled`, about reports
that the code has not itself thrown away). The invariant adds that whatever the drain
can get hold of is an approved version (`DrainedIsApproved`) and that an approved
version carries an agreement (`ApprovedIsAgreed`), so that it may be sent also after a
failure, a restart or a second question to the user. `flow_unasked` shows that
`ApprovedOnly` cannot be dropped.

**Scrub** (`ScrubProofs`), for files of any size and content. `NoWriteOutside`
(`Spec => []TypeOK`) holds of every file whatever: each read and write stays in the
buffer, which in the code is that no index panics. The other three are about files
laid out as a writer lays them out: `KeepsWhatIsNeeded` (`[]StackwalkerKeeps`),
`NothingIdentifyingLeft` (`[]ReservoirsErased`) and `PathsAreGone`
(`[]OnlyBasenames`). `LaidOut` says that nothing the walk reads to find its way
(directory, module lists, lengths of names) lies in what it rewrites, and that
what it rewrites in one way is not part of what it rewrites in another; two modules
may share a name. Without it a stream could declare the directory its contents.
`MCScrub` lets TLC evaluate `LaidOut` on every file of the run. The invariant
compares the buffer with the file: what is neither erased nor a name is as it was
(`StackwalkerKeeps`), the slots of the directory are as they were or empty
(`SlotsKeptOrEmptied`), a name is as it was or shortened
(`NamesKeptOrShortened`), and what the walk has passed is done (`PassedDone`). A
name that two modules share is shortened twice; the second time it has no
separator left.

**Wire** (`WireProofs`), for any policy, report, route and endpoint:
`OneReportIsBounded` (`Spec => []Bounded`), where the invariant splits the time into that of
the attempts before and of the waits of this one (`Before`); and, where codes have
three digits (`CodesEnd`: what an answer begins with is read as an acceptance only if
the whole of it is one; TLC evaluates it in `MCWire`), `OnionSentWasAccepted`
(`[]OnionSentMeansAccepted`), and `SentWithoutRedirects` (`[]SentMeansAccepted`, of any
backend) for endpoints that never redirect. The invariant follows an attempt: what
is in `buf` begins an answer which the endpoint gave on the stream of this
attempt, and it accepts only what arrived whole.

*What a reader makes of the bytes*, from the modules' assumptions alone:
`OnlyRecipientsOpen` (`[]OnlyRecipientsRead`), `ReadersReadWhatWasSent`
(`[]ReadsWhatWasSent`) and `OnlyCoarseLeaves` (`[]CoarseOnly`). `ReadInv` says that
the bytes of a send are those of one list of items, that no stream and no mail has
more than a first part of them, and that what has been parsed is the first items of
the list, read up to where the parser stands (`Reading`); so a payload may hold
anything, line ends and headers included, since a header's length and not the
payload says where the next item begins, and a cut loses the last items and makes up
none. `IssueInv` says the same of a link: what is opened is `to_url` or `mailto_url`
of the request, and `RoundTrip` (a browser decodes `percent_encode` of any bytes to
these bytes) with `LinksShow` (no byte of a value is a separator once it is encoded)
says what the form shows. That what leaves is coarse is about operators alone: a kept
value is a number, a dot and a number, or words with such a version behind them, or
letters folded to small ones, and each is cut to itself when it is cut again.

`percent_encode`, `decode` and `safe_fields` are sequences put together of pieces, one
per byte or key, and written with `FlattenSeq` or as recursive functions rather than as
RECURSIVE operators. Where a proof about them needs induction, it is on a set, the numbers for
which the claim is so: a claim not so of all numbers has a smallest counterexample
(`WFMin` of the library), and no theorem with an operator as a parameter is needed.

**Sanitizer** (`SanitizeProofs`), for any texts, directories, environment and budgets:
`SanitizerTypeCorrect` (`[]TypeOK`: a body within its lines and a result within its
cap, the marker included) and `ListedPathsGone` (`[]NoListedPath`, a conjunct of
`ForeignPathsGone`: no absolute path at the beginning or behind a space, a quote, `(`
or `=`; `NoListedPath` says what a path is by itself, without the scanner; behind
other glyphs it does not hold); `HomePathGone` (`[]NoHomePath`, a conjunct of `NoLocalIdentity`)
where the home path has no line break and no placeholder in it (`PlainHome`); and
`RedactionsStayUncounted` (`[]RedactionsUncounted`) where no text comes with a
redaction of its own (`FreshText`; the rule keeps a frame's line as it came). `MCSanitize`
lets TLC evaluate both premises. The sanitizer is rules one after another, and what is
hard is that each writes marks into what the next one reads. A rule is a rewriting of
runs to marks, and the proofs are about its trace: each glyph of the result is a mark
or comes from the text, next to the one before it or behind a run (`Rewritten`). So a
part without marks that stands in the result stood in the text, at a place where no
run started (`StoodBefore`). From this follow that a rule removes what it looks for,
wherever it stands (`ReplaceTakes`, `DropTakes`), that no later rule makes it up again
(`Keeps`), that no mark opens an absolute path (`NoNewPath`) and that collapsing leaves
no two redactions side by side (`CollapseApart`). Sorting the roots by length loses none
of them: it is one-to-one between finite sets of one size (`RootsAre`). The invariants (`PathInv`, `HomeInv`,
`ApartInv`) carry each fact from the step that brings it about to the lines that are
done, and lines joined by line breaks cannot put a home path together
(`JoinedIs`).

**Aggregation** (`AggregateProofs`), for any clients, crashes, thresholds hosts
ask for, weeks, losses and repetitions: `FloorHolds` (`[]RevealedOnlyAtThreshold`). Every
message there is, in a spool, under way or received, was made by a producer that
`with_threshold` let through (`FloorInv`), and a report carries the message
it was made of (`OneMessage`). The theorem counts messages; that they come from
different clients is not so.

**Wire hygiene** (`WireHygieneProofs`), for any finite set of buckets, any framing and
any cap: `HygieneTypeCorrect` (no subtraction goes below zero) and `PaddingLands`
(`[]LandsWherePossible`). A padding of `n` bytes fills `Filled(n) == Digits(n) + n`.
Powers of ten are far apart, so `Digits` grows by at most one over ten (`DigitsStep`)
and `Filled` by one or two at each byte. The invariant says that after an odd round the
length fills the budget or leaves one byte (`Nearly`), and after an even one fills
it or exceeds it by one where the length before leaves one (`OneBeyond`), in which
case no length is exact (`NoneBetween`) and the clamp takes the byte back. That
`decimal_digits` counts powers of ten is exact for lengths below 10^10.

**Only model-checked.** The liveness properties (`PassEnds`, `EveryReportLeaves`,
`FaultEnds`, `Returns`): fairness and ENABLED are out of the prover's reach. Of
`Sanitize`, what does not hold for every text but for texts as they occur: that names
and their parts are gone (the rest of `NoLocalIdentity`), that every word of a foreign
path is (the rest of `ForeignPathsGone`), and `SecretsGone`. Of `/tmpann` the anchoring
replaces what is the name of a directory and leaves the rest, as it does with
`/home/annm` above, and a user named `c` has the name of a drive; the names and texts of
the run are of the kind the code and its tests have in mind. Of
`Aggregate`, `SameCrashCollides` and `NothingIdentifies`: they depend on what a signature
makes of the frames that are printed and the coarsening of the values that are attached,
which no theorem can say of all texts; the run checks them on the renderings of
`MCAggregate`.

## 6. What the models assume

* A rename or an unlink survives a power loss (the code never syncs the
  directory, and what survives then is a property of the file system).
* `read_dir` returns a snapshot. Two processes do not read the same nanosecond
  with the same counter. A restart takes at least one tick of the clock. The clock
  goes back only where `Env` has `"clock"`; no run that claims an order does.
* Serialising a report does not fail.
* The bytes of the spool may exceed the budget for a while after an `Ok`:
  `total` is summed over one listing and reduced over a later one. `BudgetAtRest` is
  therefore stated for a spool at rest.
* One pass of the drain at a time, as the documentation has one worker.
* `minidumper` is modelled by how it is used: a bound name is taken over or
  refused; the loop may end with an error; a request is answered after `on_minidump_created`; when the writer
  fails, the file stays.
* In `ReportFlow` an enqueue may evict any files, whatever the budgets say, and files
  that are alike count as one. `ReportingMode::Always` counts as agreement for reports
  of text, as `config.rs` says of it ("without a fresh per-event prompt", "user
  previously chose"), and not for a minidump, which the disclosure excludes. What `into_edited_report` does
  when a redacted span cuts through the preview's own markers is not modelled.
* No library is modelled beyond its contract: `age` encrypts to all recipients,
  authenticates the whole and hides it from others; `sta-rs` opens a message with
  enough shares and not before; the signature's digest has no collisions.
* An endpoint accepts no body shorter than its header says.
* Words of a text are opaque: a rule that looks at the letters of a word (entropy,
  the lengths of a hash) sees a class of words.

## 7. What is not modelled

* `crash/policy.rs`: one setting, with constant flags for the Windows writer;
  `crash/consent.rs`: a token no send path asks for; `scrub_env` in
  `core/sanitize.rs` and `target_bucket` in `tor/hygiene.rs`: only tests call them.
* The parsing of keys in `core/e2e.rs`, `is_valid_onion`, the builders of
  configurations, `build_request_headers`: assignments and formatting.
* The arithmetic of the entropy detector, and the wording of messages.
* The insides of `age`, `sta-rs`, `minidumper` and the Arti client; what they can do
  to their callers, fail or take too long, is in the models.
