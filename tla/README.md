# Verification of redteam-logcat

redteam-logcat records shell commands and their output on endpoints, shows them
live, and forwards them as a hash-chained evidence stream to a central
collector. This directory holds TLA+ models of its parts, the TLC
configurations that check them, and TLAPS proofs.

## Inventory

| Part | State | Operations | Talks to | Hard behaviour | Correct when |
|---|---|---|---|---|---|
| Collector (`central_collector.py`: `CollectorStore`, `_Handler`) | `sources/*/state.json`, `events/`, `artifacts/`, `manifests/`, one lock | `ingest` per request, one thread each | endpoints, by mTLS POST | threads, a crash or `OSError` between any two files, replays, forks, streams, legacy directories | accepted evidence is one unforked chain per source, owned by one certificate, durable once acknowledged |
| Forward spool (`central_collector.py`: `EvidenceSpool`) | `pending/`, `claimed/`, `acknowledged/` | open (recovery), `enqueue`, `enqueue_stream`, `forward_once` | transports call it; it posts to the collector | crashes between renames, timeouts with late answers, two processes on one directory, backoff reordering | nothing enqueued is lost, nothing is acknowledged that the collector does not have, everything is delivered in the end |
| Evidence protocol (`redteam_evidence_protocol.py`) | none | make/validate events, chunk outputs, verify a chain, adapt Windows records | everybody | chunk boundaries, proper-subset tests, mixed up fields | what is made validates; a verified chain is linked |
| Linux transport (`platform/linux/redteam-linux-transport.py`) | `commands-cursor.json`, `chain-state.json` (head, outstanding event), `capture-pending/`, `captured/`, `artifacts/` | a timer starts `forward_once`: queue jobs, capture one, forward, advance | reads recorder jobs and syslog, uses the spool | crash between job, spool and state file; log rotation; wedged chain | every captured command reaches the spool once, in one chain |
| macOS transport and hooks (`platform/macos/`) | `chain-state.json`, `capture-pending/` | `capture_once`, `reconcile_acknowledged`, `forward_once` | as Linux | several pending jobs at once, non-atomic state file | as Linux |
| Log viewer (`redteam_logcat.py`) | follower offsets, known sessions, per session a marker splitter buffer, a renderer state and the running command | discover, follow, split, render, print | reads `commands.log` and the recordings | interleaved sources, rotation, partial markers, control sequences cut at buffer ends | each output is shown under its command |
| SSH stream (`redteam_ssh_stream.py`) | three pipes, a record file | selector loop | ssh child | half closed pipes, broken pipe, full pipes | every byte both ways, terminates |
| Shell hooks and recorders (`install.sh`) | per-session counters, FIFOs, job files | preexec/precmd hooks, recorder, installer | viewer, Linux transport, by log lines, markers and job files | end line and marker race | start and end lines pair up |
| Windows pipeline (`platform/windows/*.ps1`) | intake, outbound and spool directories | capture, import, seal, publish, transport task | spool | partial failures between renames | every sealed record is published once |

Not modelled:

- the Windows pipeline: as committed no record gets through it.
  `Seal-RedteamEvidenceOutbound.ps1` does not parse (line 41 has a `)` too many),
  and `Import-RedteamEvidenceIntake.ps1` assigns properties its object does not have
  (`$staging.intake_source`, line 21; also lines 16 and 26), which throws, is caught
  at line 29, and keeps every record in the intake. So
  `Publish-RedteamEvidenceSpool.ps1`, which has the same fault (lines 56 and 84), never
  meets a record, and a model would be of a program that is not there. What reaches
  the collector in the Windows schema is in `EvidenceProtocol`;
- the numbering of commands by the shell hooks, a counter in one shell's variables;
- package and ACL set-up of the installers, TLS and argument parsing, PowerShell
  display and retention scripts, `assert_root_owned_storage` and the other checks of
  owners and modes of files, LICENSE, CI: set-up and display without transitions.

## Plan

1. `SourceLedger`, `CollectorStore`, `CollectorStoreProofs` (done).
2. `DeliveryQueue`, `EvidenceSpool`, `EvidenceSpoolProofs` (done).
3. `EvidenceProtocol`, `EvidenceProtocolProofs` (done); the events of
   `MC_CollectorStore` are checked against it.
4. `LinuxTransport` over the abstract `DeliveryQueue`, with a crash at every file
   operation, and `MacTransport` likewise; `LinuxTransportProofs`, `MacTransportProofs`
   (done).
5. `SessionViewer`, `SessionViewerProofs` (done): discovery, followers, marker splitter,
   renderer, blocks.
6. `SshStream`, `SshStreamProofs` (done).
7. `SharedLemmas` (done): induction over the natural numbers and prefixes of sequences,
   for the proofs of 3, 4 and 5.

## Modules

### SourceLedger and CollectorStore

`SourceLedger` is what the collector promises: per source an owner and a
sequence of events, each naming its predecessor's hash and its own position; an
acknowledgement only for an event of the ledger.

`CollectorStore` is `CollectorStore.ingest` one file operation at a time.
`state`, `artifacts`, `events`, `manifests` are the four directories;
`pc[h]` is where thread `h` is: `Receive` (`do_POST` got a valid body),
`Acquire` (`with self._lock`), then lines 137-151 (`RefuseLegacy`,
`FindBinding`, `BindSource`), lines 152-165 (`RefusePeer`, `AnswerStored`,
`RefuseChain`, `RefuseStream`, `Admit`), lines 166-178 (`WriteArtifact`,
`WriteEvent`, `WriteManifest`, `WriteState`), and the answer (`Reply`,
`LoseReply`). `IOError` is an `OSError` in `ingest`, `Crash` the death of the
process. `ledger` and `acked` are history variables.

`_atomic_write` (temporary file, fsync, rename) is one step: either file is
seen, never a part. Event and artifact files are named by the event id, a SHA-256
of the event, and hashes are assumed collision free; so a file is identified
with its event. Endpoint id and certificate format checks are in
`validate_attachment_request`, whose failures change nothing.

### EvidenceProtocol

The functions of `redteam_evidence_protocol.py` as operators: `MakeEvent`,
`EventValid`, `AttachmentRequest`, `OutputStream` with `ChunkCount` and `Chunk`,
`WindowsEvent`, `Accepted` and `Canonical` (`validate_attachment_request`),
`ChainValid` (`verify_source_chain`). A mapping is a record, its keys the DOMAIN;
`canonical_json` with SHA-256 is an injection, so a digest is a record of what it is
the digest of. `EvidenceRaises` is where `_evidence` ends in a `KeyError`.
`OutputStream` is recursive, each event naming its predecessor's hash; `IsOutputStream`
says the same without recursion, which the proofs of what is accepted start from.

`MC_CollectorStore` composes it with `CollectorStore`: its assumptions say that the
events of the runs are, up to the names of hashes, what producers make and receivers
accept, that of the requests garbled on the way none is accepted
(`EventsAreProduced`), and that every output of up to five bytes is accepted chunk by
chunk (`StreamsAreAccepted`).

### DeliveryQueue and EvidenceSpool

`DeliveryQueue` is what the transports rely on: put in, delivered at least once,
taken out only when the collector has it.

`EvidenceSpool` has the three directories; each rename, existence test and read
is one step, so that two processes interleave as they really can. `Start` ..
`Opened` is the constructor, `StartEnqueue` .. `Enqueued` are `enqueue` (a batch
of one) and `enqueue_stream`, `Scan` .. `NothingDue` is `_claim`, and
`ReadClaimed` .. `RequeueFails` is the rest of `forward_once`. A request in
`inflight` may be served with (`Answered`) or without (`Collect`) its answer
being read, also after the process gave it up or died. `FileNotFoundError`
outside the `try` ends the process; inside, it counts as a failed delivery.

### LinuxTransport and MacTransport

Both follow one `forward_once` of their script through its file operations,
over the spool as `DeliveryQueue` describes it; that `EvidenceSpool` provides it
is `spool_shared`'s `QueueImplemented`. An event's
hash covers its predecessor's hash and its contents, so an event is modelled as
the history it commits to: the sequence of (command, chunk) entries from the
first of the source to its own. Two events fork the chain exactly when neither
history is a prefix of the other, and `chain` is the last history the collector
accepted.

`LinuxTransport`: `StatLog` .. `SaveCursor` is `queue_completed_end_events`;
`FirstJob` .. `UnlinkJob` the rest of `capture_once`, which takes the first job
by the hash in its file name (`rank`, any order); `Deliver` .. `StopForwarding`
the loop over `spool.forward_once`; `AdvanceChain` and `KeepChain` the end of
`forward_once`. `RecordEnd` is `script`, `LogPart` and `LogEnd` the hook's `logger` with
rsyslog, which may be read between the parts of a record (`log.part`), and `Rotate`
logrotate. `LateFlush` are commands whose end record may be
read before `script` has written the end marker; their job is then dropped, as
lines 238-242 do.

`MacTransport`: `StillOutstanding` .. `CaptureDone` is `capture_once`, which
captures every job it finds; `TruncateState` and `WriteState` are the two halves of
`write_text`. `CreateJob` and `WriteJob` are the two halves of the shell's redirection in
`redteam-macos-event`; a run that meets a job file in between ends there (`ReadBlank`).
`burst` records that a job file was created while there was another.

### SessionViewer

One recorded session and the viewer's loop. `kind` says whether it is a
terminal, whose commands have markers, or an ssh command without. The recorder
makes the directory (`MakeDirectory`), later the files (`MakeFiles`); the hooks
log a command (`Enter`), mark its start, and after the output mark its end and
log it. `output` is everything the terminal wrote, `written` how much of it is in
`output.log`; `sent` and `delivered` count log lines the same way (line 2k - 1
starts command k, line 2k ends it), and `commands.log` holds the lines after
`rotated`.

The viewer's step is `pc`: `Discover` (`discover_sessions`), `ReadLog`
(`_read_command_events`), `Poll` or `SkipPoll` (`needs_poll`), for ssh commands
`PollMetadata`. `view` is the `SessionView` with its splitter (`buffer`), renderer
(`mode`, `return`, `text`) and `IndentedOutput` (`line`). `Feed`, `Render`,
`OnMarker`, `OnText`, `BeginEvent`, `FinishEvent` and `Register` are the methods of
these classes as functions on views; a read feeds its bytes one by one, which
gives the same as feeding them together. A byte is a class and a label with the
command and line it belongs to, so that `shown` can say which text was printed
under which command. A marker is three bytes (prefix, payload, BEL). Colours are off.
Left out are a partial last line of `commands.log` (`command_pending`, lines 609-611;
records are delivered whole), outputs that contain the private marker, nested shells that
number their commands anew, and what is typed ahead while a command runs; the properties
speak of recordings without them.

`late`, `overflow` and `raced` record the three ways the viewer is known to mix
up or drop output; see Findings.

### SshStream

The loop of `main`: `Select` is `selector.select()`, after which each ready key is
handled, in any order: `ReadOutput`, `Mirror` and `EndOutput` for stdout and stderr,
`ReadInput` and `EndInput` for the client's stdin, `WriteInput` and `InputRefused`
for the command's; `Poll` is what follows the keys, `Return` the end. `keys` is
`streams.get_map()`, `pending` is `pending_stdin`. Around it the command and its
descendants write (`Write`), read (`Take`), close their ends and exit (`Closes`), and
the client sends, ends its input or is lost (`Client`), in any order. Output bytes
are counted, input bytes numbered. `Mirror` is `write_all`, which blocks; a lost client
ends it anywhere. `pc = "failed"` is the uncaught `ValueError` below. Opening the
files and dropping privileges come before the loop; a write to the record that
fails is not modelled (it ends the recorder).

## Runs

| Run | Instance | Shows |
|---|---|---|
| `collector_faults` | 1 source, 6 events (a fork at 1, three competing final chunks of a two-chunk stream), 2 threads, 2 certificates, 2 faults | `ChainIsSound`, `AckedIsDurable`, `SourcesAreOwned`, `ManifestIsComplete`, `StateOnlyAdvances`; implements `Ledger!LedgerSpec`; until the first fault `LinkedUntilFault`, `ManifestUntilFault` |
| `collector_sources` | 4 sources (one with unbound state, one with events and no state), a stream id shared by two sources, 1 certificate, 1 fault, fair | `LegacyStaysBlocked`, `ManifestIsFinal`, `LockIsReleased` |
| `collector_relink` | `collector_faults` with 1 fault | finding: `AckedIsLinked` fails |
| `spool_single` | 1 process, a chain of 2 events and another source's event, 2 crashes, fair | `OneCopy`, `EventuallyAcknowledged` |
| `spool_shared` | 2 processes, a chain of 2 events, 1 crash | `NoEvidenceLost`, implements `DeliveryQueue` |
| `linux_crashes` | a command of two chunks (its marker possibly late) and an SSH command, 2 crashes, 1 rotation, fair | `StateIsSound`, `CapturedIsQueued`, `CursorSkipsNothing`, `CommandsAreUnique`; `ExtendsUntilCrash`; `EventuallyAccepted` (no crash, no rotation) |
| `linux_fork` | 1 crash | finding: `OutboxExtendsChain` fails |
| `mac_crashes` | two commands, one of two chunks, 2 crashes, fair | `StateIsSound`, `JobsAreKept`; `ExtendsUntilBurst`, `UniqueUntilCrash`; `EventuallyAccepted` (no burst, no crash) |
| `mac_burst` | two commands, no crash | finding: `OutboxExtendsChain` fails |
| `viewer_output` | 1 session: two commands (a line and a partial one; a coloured line; an open escape sequence) or one ssh command, live or `--history 1`, 1 rotation (ssh), fair | `LinesAreReadOnce`, `GroupedUntilLate`, `PromptIsHidden`, `LinesAreShown` |
| `viewer_discovery` | the same | finding: `NewSessionsAreFollowed` fails |
| `ssh_pipes` | 2 bytes to stdout, 1 to stderr, 2 of input, pipes of 1 byte, an exit code and a signal, stdin captured or not, fair | `RecordIsComplete`, `InputInOrder`, `Terminates`, `InputIsDelivered` |

Bounds. Two threads suffice for every race on the lock, since all writes are
under it; two faults let a recovery itself fail. Six events give every kind of
successor: right, forked, out of turn, replayed, final and wrongly final. Two
spool processes give every pairwise theft of a claim. A transport with two
commands, one of two chunks, meets every order of capture, partial delivery and
crash between two commands; `MaxRun` is 2 in place of 32, so that a run can end
before the outbox is empty. Two commands are enough for one to disturb the next;
`MaxPending` is 2 bytes, so that a line fits and two do not; `MaxLag` is 0 (the
shell goes on when `output.log` has what it wrote, at any byte of which reads may
end); `MaxSkips` is 1 in place of the nine loops in half a second; the rotation is
met with the two lines of an ssh command, since the follower of `commands.log`
does not depend on the kind. Two bytes of input over a pipe of one give a write of a
part of the buffer, with the rest pending when the client ends or the command closes.

Fairness. `collector_sources`: a thread that holds the lock proceeds, as
nothing in `ingest` waits. `spool_single`: the timer starts the transport again
(weak), a process works on (weak), each run that goes on calls `forward_once`
(strong on `Scan`, since the process may exit or enqueue first), time passes
(weak on `BackoffExpires`), and a collector asked infinitely often to take an
acceptable event answers some time (strong on `Answered`). Crashes are finite.

`linux_crashes` and `mac_crashes`: the timer starts run after run (weak on `Run`), a
collector asked infinitely often answers some time (strong on `Deliver`) and the
answer is seen some time (strong on `Settle`); on macOS `script -F` also flushes the
marker of an ended command (weak on `RecordEnd`) and a created job file is written (weak on
`WriteJob`).

`viewer_output`: the viewer's loop never ends (weak on `Turn`, which every step of
it is), and `script` and the ssh stream write what they have read (weak on
`Flush`). Neither the shell nor rsyslog has to do anything.

`ssh_pipes`: the recorder runs while it can (weak on `Turn`). Of the command it is
assumed that it prints what it has to print and then reads what there is (weak on
`Write("stdout")` and on `TakeNext`), as `cat file -` does; it may still close, exit or
stop reading at any time, and the client need do nothing.

Deadlock is checked in every run but `mac_crashes`, where a torn state file
stops the transport for good, and `ssh_pipes`, as the recorder ends with its command.

## Findings

1. `collector_relink`: after a crash or `OSError` between the event file and
   `state.json`, the retry is answered 200 and the chain never advances; the
   successor gets 409 for ever, and a fork with the same number is accepted.
2. `linux_fork`: a crash while a command is captured lets the next run chain a
   second command from the same head; the collector refuses one of the two for
   ever.
3. `mac_burst`: several commands that end within one launchd interval are all
   chained from the same head. `ExtendsUntilBurst` and its proof say what this takes: two
   job files at one time. A crash between `write_text` and `unlink` (lines 94-96) leaves
   one whose event is then acknowledged; a command that ends before the next run is
   captured with it, from the head that the first copy became.
4. `viewer_discovery`: a session scanned between the creation of its directory
   and of its `output.log` is hidden until another session of the user begins;
   an ssh command takes a `logger` and the start of Python in between, the viewer
   scans every 50 ms.

Seen while modelling, and the reason for the conditions in some properties, but
no run of their own:

- a fault between the event file of a final chunk and its manifest leaves the
  stream without one (`ManifestUntilFault`);
- a first request that is refused has bound its source (`BindSource` precedes
  `RefuseChain`);
- end records appended after the last run and before a rotation are never read,
  and a job whose marker is late is dropped (`EventuallyAccepted` on Linux);
- a crash inside `write_text` leaves a `chain-state.json` that stops every later
  run on macOS;
- a crash before `job_path.unlink()` puts the command in the chain a second time
  there (`UniqueUntilCrash`);
- a log line that reaches the viewer after the next command's start marker merges
  two outputs under one command, as `pending_output` is not cleared by an end
  marker (`late`); so does a line that a history or a late start skipped;
- an ssh command that writes and ends between the viewer's reads of `output.log`
  and `metadata` loses its last output (`raced`);
- a last line without a line end is never printed, and an escape sequence that
  stays open swallows the output of later commands (`LinesAreShown` excepts both);
- `--history N` keeps the last N lines of each read, end lines included, where its
  help says N commands.

- when an ssh command has closed its stdin and the client sends more, line 118 of
  `redteam_ssh_stream.py` calls `fileno()` of a closed file; the `ValueError` is not
  caught and the recorder ends before the command's output does (README.md:161-163
  says that stdout, stderr and exit status are preserved). `Terminates` and
  `InputIsDelivered` except it (`failed`);
- when both outputs end before `poll()` sees the command end, the recorder waits for
  the client's stdin (`Idle`);
- `pending_stdin` has no limit, and `output.log` has the two streams in the order they
  were read;
- a value that lacks a required field and has an optional one passes the test of line
  58 of `redteam_evidence_protocol.py` and ends in a `KeyError` (`IncompleteRaises`).

## Proofs

`CollectorStoreProofs` proves, for any sources, certificates, threads, events
and bound on faults, from `EventAssumption` and `ConstantAssumption` only:

- `TypeCorrect`: `TypeOK`.
- `ChainIntegrity`: `ChainIsSound`; `SourcesKeepTheirOwner`: `SourcesAreOwned`.
- `AcknowledgedEvidenceIsDurable`, `LegacySourcesStayBlocked`,
  `HeadsOnlyAdvance`, `StoreImplementsLedger`.
- `ManifestsAreComplete`: `ManifestIsComplete`; `ManifestsAreFinal`: `ManifestIsFinal`.
- until the first fault: `ReliableAcksAreLinked`, `ReliableFinalsHaveManifests`
  (`ManifestUntilFault`), `ReliableStoreImplementsLedgerAndAcks`.

The inductive invariant has three parts. `DiskInv` speaks of the directories
and the ledger alone: `state.json` counts the ledger, stored events extend it,
an event file has its artifact. It is not inductive alone, because each write
relies on a test some steps earlier; `ThreadInv` records for every place in
`ingest` what the thread that holds the lock knows (the event is the next in its
chain, the source is bound to the caller, which files are written). `AckInv` ties
acknowledgements and pending positive answers to the disk. Until the first
fault `LinkInv` adds that a stored event not yet in the ledger belongs to the thread in
`ingest`. `ManifestInv` adds that the thread about to write a final chunk still stands
where `_verify_stream` left it: the other chunks are stored, and nobody has named the
stream, for which it needs the lock; `NamedInv`, until the first fault, that a stored
final chunk without a manifest is in the hands of the thread that writes it.

`EvidenceSpoolProofs`, for any processes, events and bound on crashes:
`TypeCorrect` (`TypeOK`), `EvidenceIsKept` (`NoEvidenceLost`), `SpoolImplementsQueue`
(`QueueImplemented`) and, for one process, `AloneOneCopy` (`OneCopy`). `QueueInv` says
what is in the directories and in flight: what is acknowledged, or about to be, the
collector has. `CopyInv` ties a single process's place to the copy it works on: it is
what excludes a second one, and needs that nobody else's `RecoverReturns` moves it.

`EvidenceProtocolProofs`, for every output, chunk size and evidence:
`ChunksAreTheOutput`, `MadeEventsAreValid`, `StreamsAreAccepted` and `HashesCommit`.
They rest on the injective hash, and on `ProtocolAssumption`; `StreamsAreAccepted`
also assumes a stream within the limits that `make_output_stream` tests. Its output is
that of the recursive `OutputStream` itself: `OutputStreamIsOne` shows by induction over
the number of chunks that its events exist and are chained as `IsOutputStream` says, and
`LinkedRequestsAreAccepted` that such requests are accepted.

`SshStreamProofs`, for any sizes of output, input and pipe: `TypeCorrect`,
`RecordComplete` (`RecordIsComplete`) and `InputOrdered` (`InputInOrder`). `OutputInv`
adds that a stream is only unregistered when nobody holds it and all of it is
recorded, and that a ready key stays ready; `InputInv` that what was forwarded and
what is pending make what was logged as long as the command's stdin is open, who
closes it when, and which keys are registered meanwhile.

`LinuxTransportProofs`, for any commands, sizes of output, order of job files and
numbers of crashes and rotations: `TypeCorrect`, `StateSound` (`StateIsSound`),
`CapturedQueued` (`CapturedIsQueued`), `NothingSkipped` (`CursorSkipsNothing`),
`CommandsUnique` (`CommandsAreUnique`) and `OneAtATimeUntilCrash`
(`ExtendsUntilCrash`). Each adds to the types one invariant: `ChainInv`, whatever was
acknowledged is a prefix of the chain; `QueueInv`, the chunks of a command being
captured are in the spool one by one; `CursorInv`, the cursor in hand only passes
records that have a job or are in the batch still to be queued; `UniqueInv`, no event
of the spool has an entry twice, and a command being captured is not in the head;
`OneCommand`, all that the chain lacks are chunks of the command in hand or awaited.
The last is not kept by `Crash`, which is finding 2.

`MacTransportProofs`, for any commands, sizes of output, orders of job files and numbers
of crashes: `TypeCorrect`, `StateSound` (`StateIsSound`), `JobsKept` (`JobsAreKept`),
`CommandsUniqueUntilCrash` (`UniqueUntilCrash`) and `SingleJobsExtend`
(`ExtendsUntilBurst`). `Typed` adds where in a run the state file can be read and agrees with the memory; its
`ChainInv` and `QueueInv` say of the memory too what those above say of the file, since
the file is torn while the memory is being written. `UniqueInv` is not kept by `Crash`:
until the first one a command in the head has no job file left, except at `unlink`,
so that no capture can repeat it. `OneCommand` is kept by `Crash`, but not
by a second job file: what the spool has beyond the chain are chunks of one command after
the head, which is captured, awaited, or captured again after a crash from the only job
file there is; a job file created while an event is awaited stays where it is. Both transports'
proofs compare histories with the lemmas of `SharedLemmas`.

`SessionViewerProofs`, for any outputs of the commands, numbers of commands and
rotations, and bounds on memory and lag: `TypesAreKept` (`TypeOK`), `ReaderIsExact`
(`LinesAreReadOnce`), `PromptStaysHidden` (`PromptIsHidden`) and `OutputIsGrouped`
(`GroupedUntilLate`). `LinesInv` says where the reader of `commands.log` stands in the
file it reads, and what is due when that is not the file there is. `ShellInv` says what
the recorder can have written. `ViewInv` ties the view to it: there is a function `where`
that gives the command the terminal is in after each byte of the recording, which the
markers alone change, and whole (`MarkersAreWhole`); at its offset the view's splitter
holds the part of a marker read so far (`Splitter`), its renderer and partial line only
text of that command (`Renderer`), and the running command is that one or none (`Session`),
also when the viewer attached inside a marker. An ssh command's stream has no markers and
one label (`StreamView`). A read feeds its bytes by a fold; the proof unrolls folds into
the values after each prefix (`FoldUnrolls`) and goes from one to the next by induction.

Induction, where a proof needs it, is over a set of natural numbers (`Induction` of
`SharedLemmas`, which follows from the well-foundedness of `<`), as the library's induction
theorems take an operator no installed prover can instantiate.

Only model-checked are the liveness properties (`LockIsReleased`,
`EventuallyAcknowledged`, `EventuallyAccepted`, `Terminates`, `InputIsDelivered`,
`LinesAreShown`), which need ENABLED and fairness, out of the prover's reach.
