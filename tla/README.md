# Verification of symaira-ingest

TLA+ models of `symingest` (a Go program that ingests documents into an Obsidian
vault), model-checked with TLC and proved about with TLAPS.  Line numbers refer to
the sources under `src/`; `PROJECT.json` maps every definition to the lines it
stands for.

## 1. The system

`symingest` takes documents from files, a watched folder, IMAP folders, a Paperless
server or a Notion export, extracts their text, copies the original to an archive,
writes a Markdown note to a vault and keeps its state in one SQLite database.

| Component | State it keeps | Operations | Talks to |
|---|---|---|---|
| Store (`internal/store`) | `documents`, `jobs`, `mail_messages`, `mail_poll_cursor`, Paperless rows, rules, extractions | one SQL statement or transaction each, one connection per process | every other component |
| Pipeline (`internal/ingest/pipeline.go`) | archive directory | `Ingest`, `Reprocess`, `processJob`, `processSource`, `atomicCopy` | store, extraction, writer |
| Worker (`worker.go`) | the job it holds | claim, process, complete or fail, move the source | store, pipeline |
| Watcher (`watcher.go`, `clock.go`) | pending files with timers | debounce, stability check, move to processing, enqueue | store, file system |
| Mail poller (`mail.go`) | IMAP session; saved attachments | search, fetch, save, enqueue, mark or move, track, save the cursor | store, IMAP server |
| Watch process (`cmd/symingest/watch.go`, `service.go`) | lock file | lock, `ResetRunningJobs`, start worker, watcher and poller, stop | all of the above; launchd or systemd restarts it |
| MCP server (`internal/mcp`) | map of watchers | `start_watch`, `stop_watch`, tools | pipeline, watcher |
| Paperless import (`internal/paperlessimport`, `internal/paperless`) | Paperless rows, report | `Run` with N workers, resume, `Verify` | store, pipeline, HTTP |
| Writer (`internal/writer`), vault review (`internal/vaultreview`) | notes and sidecars | `WriteNote`, `UpdateNote`, corrections, cutover | vault directory |
| Notion import, extraction, OCR, annotation, barcodes, PDF operations, rules, configuration, desktop client | none, or files of one call | functions of their input, or one external program per call | pipeline |

Several processes share the database and the directories: a watch process (worker,
watcher and poller in goroutines), the MCP server, and one-shot commands (`ingest`,
`reocr`, `jobs retry`, `import-paperless`).  Nothing but the database's transactions
and a lock file orders them.

What is hard about it, and what makes each component correct:

* **Queue.**  Claims of several processes; crashes between the archive, the note and
  the row; `ResetRunningJobs` and `RetryJob` while somebody works; attempts, the
  ten-second pause and terminal failure; the source file that moves away.  Correct:
  rows never promise what is not on disk, one worker per job, three attempts, nothing
  accepted is forgotten.
* **Mail.**  Arrivals between the steps of a poll, sequence numbers that shift, a new
  UIDVALIDITY, errors of one message among others, restarts, shutdown half way, two
  pollers.  Correct: tracked means recorded, one job per content, every message that
  no error hits is recorded, only recorded messages are marked or moved.
* **Watcher.**  Timers against events, files that keep changing, moves that collide,
  crashes after the move.  Correct: a file is enqueued when it stands still, none is
  forgotten, none replaced by another, and the archive has what the hash says.
* **Lock.**  Stale locks, taking over at the same time.  Correct: one watch process.
* **Imports, notes, vault.**  Resume after an interruption, workers that share a
  report, read-change-write on notes.  Correct: one note per document, no update lost.

`PROJECT.json` lists each hazard at its line with the properties that cover it.

## 2. Plan

Done, in this order: `JobQueue`, `Intake`, `MailPoller`, `Watcher` with their proofs;
then `PaperlessImport`, `WatchLock`, `WatchSessions`, `NoteVault` with theirs;
`Migration`; `Readers` and `OcrEngine`, composed by `Extraction`.

The proofs cover every invariant of the runs that pass.  What is left: an abstract
specification of an import and one of the lock, each implemented by its module.

## 3. Modules

### JobQueue

The documents, jobs and files, and three kinds of actor: `Workers` (watch processes
with one background worker), `Clients` (one-shot calls and, as enqueuers, watcher and
mail poller) and the operator who retries jobs.

A store method is one atomic step, since each is one statement or one transaction.
What `processSource` does between two of them is a step of its own: `Extract`,
`Archive` (`atomicCopy`), `WriteNote`, then `SetVaultAndArchivePath` and
`CompleteJob`.  `pc` says which call comes next, `job` which job is held.

| Variable | Code |
|---|---|
| `docStatus`, `stored` | `documents.status`; `vault_path` and `archive_path` set |
| `archived`, `noted` | copy in the archive, note in the vault |
| `origin` | source at the path the row records, or moved to the processed or failed folder |
| `jobDoc`, `jobKind`, `jobStatus`, `attempts`, `cooling` | columns of `jobs`; `cooling` is `updated_at` less than ten seconds ago |
| `pc`, `job`, `target` | program counter, claimed job, document created but not enqueued |

Abstractions: a document is its content hash; job ids stand for the order of
`created_at` (whose resolution is a second); two documents have two notes (names are
the concern of `NoteVault`); the source of a document is one file.

`Faults` selects crashes of watch processes, of one-shot processes, and errors of
store methods.  `QuietStart` and `Retryable` describe how the program is used:
`QuietStart` that a watch process starts only while nobody works (the lock file and
the absence of one-shot calls), `Retryable` which jobs an operator retries.  The code
enforces neither, so what must hold in any case is checked without them.

### Intake

What a caller sees of one content: absent, accepted, stored, rejected; stored content
stays stored.  `JobQueue!Phase` is the refinement mapping; a row that points at
missing files maps to a phase Intake does not have.

### MailPoller

The folder on the server (`box`, `uid`, `uidNext`, `validity`, `seen`, `moved`), the
store (`tracked`, `cursor`, `docs`, `jobs`), the processing folder (`files`) and one
session per poller.  `got` is what sequence numbers meant when the poller fetched,
`live` what they mean to the server now: they part when `MOVE` expunges.  The steps
are the calls of `pollAccount` and `processMessage`: SELECT and cursor, SEARCH and
FETCH, check, the parts one by one, enqueue each, STORE or MOVE, track, save the cursor.
SEARCH and FETCH are one step: what arrives in between has a higher UID than the
cursor will have and belongs to the next poll.

An error of `NextPart` is only logged.  A part in an encoding or character set it does
not know (`decodes` is false) is skipped, and the message acted on and tracked without
it (`SkipPart`).  A message that breaks off in the header of a part (`Truncated`) gives
the same error for ever: the poller goes round (`Spins`) until it is stopped, as the
comment at `mail_test.go:1115-1117` says.

Faults: a failing connection, a failing STORE or MOVE, a message that cannot be parsed
or saved (`MessageFails`, `SavingFails`), a crash, and a shutdown, after which every
call with the context fails while the poller itself still runs on (`cancelled`).
`failed` is a history variable: messages an error, a crash or a shutdown hit.

One account with one folder; a content that was already a document counts as known
to all accounts, as in the code.  The server is external and modelled from the calls.

### Watcher

Files that users drop, write to and take back, the watcher in front of them, and the
worker behind it, here in one step.  The event loop, `debounceFile` and
`checkStability` hold the watcher's mutex and are one step each.  `enqueueFile` runs
without it, in the goroutine of the timer that fired, and is one step per call:
choice of a free name, rename, detection and hash, `CreateOrGet`, `EnqueueJob` or
`EnqueueSkippedJob`, and the move to the failed folder when one of them fails.

| Variable | Code |
|---|---|
| `place`, `version` | where a file is; its size and modification time, content |
| `events` | the channel of fsnotify |
| `pending` | the map `pending` of `fileState`: `file` and `seen` are what `os.Stat` said, `age` is the time since `createdAt` |
| `timers` | per path, timers set with `AfterFunc`, by the ticks they have left |
| `pc`, `at`, `dst`, `body` | goroutines in `enqueueFile`: next call, `workPath`, target of the rename, hash |
| `source`, `job`, `archive` | rows of `documents` and `jobs`, and the archive, by hash |
| `dirs` | which of the processing, processed and failed folders are configured |
| `raced`, `late`, `hit` | history: two moves to one target overlapped; contents whose file a user wrote to, or dropped anew, between its hash and its copy; files a fault hit |

All three folders are optional.  Without a processing folder a file is hashed where it
was dropped and stays there until the worker has copied it; without the others it stays
where it is (`watcher.go:366`, `:374`, `worker.go:86`).  Users write to a file wherever
it is, since a writer keeps its handle over a rename.

`timers` counts timers, because a path may have several: `StopTimer` of the real
clock stops nothing.  A rename replaces what is at its target, as `rename(2)` does.
Names are tried as the code does (`name`, `name-1`, ...), `Copies` of them.

Left out: ignored names, directories that are created while the watcher runs, sidecar
files, and `Stop`, which leaves the same state as a crash between two calls.

### PaperlessImport

One import of a Paperless-ngx server after the other, each in one of the modes
`import`, `retry-failed` and `plan` (`--plan`, `--dry-run`), over the whole archive or
over `--ids`, while users add and delete documents on the server.

| Variable | Code |
|---|---|
| `remote` | the server's documents, in the order it lists them |
| `run`, `mode`, `ids`, `cancelled`, `err` | how far `Run` is, its options, its context, its first error |
| `selected`, `page` | the slice `docs`; documents or ids asked for so far |
| `next`, `feed` | the feeder's loop variable; the unbuffered channel `jobs`: somebody is sending, or it is closed |
| `pc`, `at`, `outcome`, `mine` | per worker: next call in `processDoc`, index, status, and whether `CreateOrGet` made the store's document |
| `recorded`, `stats` | the results and the counts of the report |
| `rows`, `document` | `paperless_import_state`; `documents` by content |
| `archived`, `notes` | archive and vault |
| `owed`, `shrunk`, `spoiled`, `broken` | history: what was on the server when listing began; a deletion while listing; documents whose import was cut off between note and row, whose row could not be read, or which one run listed twice; contents whose first import was cut off |

`processDoc` is a step per call: look at the row, download, `CreateOrGet`, extract and
archive, write the note, file the document, upsert the row, record.  Steps that pay
attention to the context fail when it is cancelled; the copy and the note do not.  With
one worker or one document the loop without a channel is taken (`NextInTurn`), which
stops at the first error.  `NoteMeta` is the order of preset metadata and rules in
`processSource`, `Discrepancies` what `Verify` makes of it.

The jobs of an import are not in the model: the run claims the job it has just
enqueued and completes or fails it, which `JobQueue` describes.

### WatchLock

`acquireWatchLock` as it is seen by other processes: open with `O_EXCL`, write the pid,
or read the pid of the owner, ask whether it lives, remove the file and start again.
`file` says who made the lock file and what is in it; `pid`, `seen` are the process id
and what was read; `foreign` are pids of other programs.  A crash leaves the file, a
pid may be given to another program.  `overlapped` is a history variable: two processes
were between `Start` and the end of the acquisition at the same time.

On Windows `processAlive` is always false (`service_windows.go`): there a second watch
process always takes the lock over, and nothing of this module holds.

### WatchSessions

`entry` is the `sync.Map` of watchers, with `Reserved` for the `nil` that `start_watch`
stores first; `live` are the watchers that run; `hpc`, `hdir`, `hid` a handler between
its reservation and its entry.  A `stop_watch` that takes a reservation away panics at
the type assertion (`StopPanics`); `tripped` remembers it.  Its names (`SessionInit`,
`SessionNext`, `SessionSpec`, `sessionVars`) differ from those of `WatchLock`, so that one
module, `WatchProofs`, can prove theorems about both.

### NoteVault

The notes, the rows that point at them, and three kinds of actor: processes that
ingest and reprocess (the writer's mutex makes each call of one process one at a time,
hence one `task` per process), commands that correct frontmatter, and the user.

| Variable | Code |
|---|---|
| `notes` | the files: whose document, and the parts that differ in who owns them: the user's field (`mine`), tags (`fixed`), the sidecar link |
| `row` | `documents.vault_path` |
| `task` | what a process has at hand: next call, document, path, the text it has read, ids of a bulk update still to do |
| `backups` | `.symingest-backups` |
| `edited`, `raced` | history: notes the user edited; notes one process wrote while another had them at hand |

`Resolve` is `resolveNotePath`: a free suffix for laid out notes, one path for flat
ones.  `BulkIds` are the ids a bulk update collects: sorted, one for each note found.  A
write of the writer is a rename and one step.  A correction is found, copied to the
backups, truncated and written (`os.WriteFile`), each a step a crash may follow. `Torn`
is a file without frontmatter.

### Migration

The commands before leaving Paperless: `import-paperless` with and without
`--dry-run`, `--retry-failed`, `--ids` and `--limit`, `verify`, `cutover-check`,
`review-report`, each one step, and what users do to server, vault and archive in
between.  `dry`, `imp`, `verify` are the report files, `decision` what `cutover-check`
said.  The gates are those of `BuildCutoverReport`, each with its first objection; the
`Chips` those of the review.  Whether a document can be imported is decided by the
bytes and the extension, whether the audit calls it unsupported by another list:
both are there (`Ingestible`, `Unsupported`).

A tag stands for all of a document's references, one field for its metadata.  Deep
verification, the duplicate-content warning and the layout of reports are left out.

### Readers, OcrEngine, Extraction

`Readers` models `Detect`, the archive limits and the readers of `structured.go`.  A
file is revealed as it is read: an action hands the reader the next element of a
well-formed file and updates the reader's state `p` (its flags, buffers and output) and
`doc`, what the file says to somebody who opens it.  So all files up to a number of
elements are covered without being enumerated first.  A run of text is one numbered
piece; white space, escapes and cell borders are left out.  `odd` collects constructs
after which text and reader are known to differ: tables within tables, text boxes
(stored twice), phonetic readings, comments and scripts that are cut off, tracked
deletions, HTML beside text in a mail, parts whose names are not in reading order.

`Detect` believes the name of a file when its first bytes say nothing, so the name of
such a file has to be right when it names a kind that is not an archive
(`NamesAssumption`). The parts of a file have different names (one archive entry each),
and `ByName` is their ascending order, in which the readers of slides and chapters take
them.  The first `spine` parts of a file are those it is read by, in their order; what
else has a name the reader goes by (an EPUB's navigation document or notes, a slide that
is no longer in the presentation) follows.  The readers take those too, and where they do
`odd` says so.

`OcrEngine` models calls of `Extract` that share one `Runner`: the vision model with its
fallback (which an image file that cannot be read does not get), HEIC conversion,
validation of the languages (the cached list under `langMu`, the cached result published
afterwards), `pdftoppm`, pages read by up to `PageLimit` goroutines, cancellation,
failing tools, and language packs that are installed meanwhile.  `call` is the state of
a call, `runner` the caches.

`Extraction` composes them as `extractText` does.

## 4. What the runs check

| Run | Bounds | Shows |
|---|---|---|
| `queue_open` | 1 content, processed and failed folder, 2 watch processes, 1 one-shot process, 2 jobs, 2 starts, 1 retry of any job, all faults | `StoreNeverLies`, `MovedAfterStored`, `GivenUpAfterAttempts`, `AttemptsNeedRestarts`, `WaitingHasJob`, and that the queue implements `Intake`, in spite of resets and retries under a live process |
| `queue_disciplined` | same processes and folders, 3 starts, crashes, retry of failed jobs, quiet starts, fairness | `Exclusive`, `CompletedIsFinal`; every job settles; `Intake` with its fairness |
| `mail_folder` | 1 poller, 3 messages (one anonymous and unsupported, two with a part that cannot be decoded, of which one is cut off), 2 faults of any kind, 2 UIDVALIDITYs, fairness | `TrackedIsRecorded`, `CursorPassesOnlySettled`, `EveryMessageRecorded` |
| `mail_two` | 2 pollers that move, 2 messages that share an attachment, 1 fault | `DocumentHasItsJob` |
| `mail_move` | 3 messages, no fault | violated: `ActedIsRecorded` |
| `watch_folder` | 2 files of one content dropped at one path, one of them written to again wherever it is, with all folders, without a processing folder, with none; 2 goroutines, 1 fault of any kind, fairness | `LossNeedsRace`, `PendingHasTimer`, `ArchiveIsContent`, `EveryFileSettles` |
| `watch_lock` | 2 processes, 4 starts, 2 crashes, 3 pids, 1 other program, fairness | `OneWatcherUnlessOverlap`; every start comes to a decision |
| `watch_sessions` | 3 handlers, 2 directories, 4 watchers | `WatchersAreKept` |
| `import_run` | 2 documents of the same bytes, one of them added later, one that may be deleted; 2 workers, pages of 1, 2 runs in any mode, 2 faults of any kind, fairness | `RowIsBacked`, `OneNoteEach`, `ListingIsComplete`, `CleanRunVerifies`, `ReportIsComplete`, `DocumentIsFiled`; `CancelEndsRun` |
| `vault_notes` | 4 documents with 2 base names (2 laid out, 2 flat), 2 writers, 1 reviewer, 5 calls, 1 edit, 1 fault | `EditsAreKept`, `RowIsItsNote` |
| `migration_gate` | 3 documents, of which 1 comes later, one tag, 4 commands with 3 kinds of selection, 1 change by users | `ReadyMeansMigrated`, `ReviewNamesBlockers` |
| `extraction` | 25 files: every kind, at and over each limit, with parts off the spine; up to 16 elements of a Word file (3 runs of text), 7 of a mail, 8 of the others; entry limit 2, total 3, 4 entries; 2 engine calls, 3 pages, 2 at once, 1 failing tool | `TextIsExact`, `ReadsAreBounded`, `CallsShareOnlyLanguages` |

Runs also check the `TypeOK` of their module where `PROJECT.json` lists it.

Why the bounds are enough: two processes suffice to lose a job to another one, two
starts to reset a job under a live process (and, with three attempts of its own, to
reach a fourth), two jobs for a duplicate or a reocr job beside the ingest job; two
messages for a failure beside a success, a third for the one that is moved by
mistake; two files with one name and content for a collision, a duplicate, and two
goroutines on one path.  Three lives of two processes make a stale lock whose pid is
somebody else's; two runs of an import an interruption and its resume, two workers on
one content a document shared by them, pages of one document a list that shifts; two
documents of one base name a collision, five calls a note written by three commands.
A table of two rows of two cells takes 12 elements and a table within a table 14, a
mail with an alternative within a mixed part 7.  With limits of 2 and 3 an archive
can be at, below and over the limit of an entry and of the total by one.
The bounds of the model only are `MaxJobs`, `MaxStarts`, `MaxRetries`, `MaxFaults`,
`MaxValidity`, `Deletable`, `Removable`, `Writes`, `MaxRuns`, `MaxCalls`,
`MaxEdits`, `MaxChanges`, `MaxSuffix`, `MaxCrashes`, `MaxForeign`, `MaxTokens`,
`MaxPages` and the number of `Goroutines`.

Deadlock is not checked: a queue without work, used-up bounds and a process that is
down are legitimate ends.

### What the properties except, and why

Where the code has a window it does nothing about, the property names it:

* `LossNeedsRace`: two moves to one target that overlap.  `EveryFileSettles`: a file a
  fault hit, and such moves.
* `ArchiveIsContent`: such moves, and a content in `late`: a user wrote to the hashed file,
  or dropped another where it was, before the worker copied it.  Without a processing
  folder the file lies in the inbox all that time (`watcher.go:366-369`); with one, a
  writer that is still at work goes on after the move, which early timers and the forced
  enqueue allow (`clock.go:39`, `watcher.go:266-277`).  Nothing hashes the copy again.
* `WaitingHasJob`: a document that never got a job, because its caller is at work, or
  died or met a store error, between `CreateOrGet` and `EnqueueJob`.
* `TrackedIsRecorded`: attachments that `NextPart` cannot decode.
* `CursorPassesOnlySettled`, `EveryMessageRecorded`: a message that an error, a crash or
  a shutdown hit itself.  `EveryMessageRecorded` also: what is behind a truncated message,
  as long as the poller is not stopped.
* `OneWatcherUnlessOverlap`: starts that overlap.  Two processes may take over one
  stale lock, or take one for stale whose pid is not written yet.
* `WatchersAreKept`: a `stop_watch` that meets the reservation of a `start_watch`.
* `OneNoteEach`, `CleanRunVerifies`: an import cut off between note and row, a row that
  cannot be read, and a document one run lists twice (pages that shift because of an
  upload, or `--ids 1,1`).
* `ListingIsComplete`: a deletion while the pages are fetched shifts a document over
  the border of two pages.
* `CleanRunVerifies`: a document without metadata on the server where a rule fills it;
  `Verify` compares the note with the server.
* `EditsAreKept`, `RowIsItsNote`: two processes with one note at hand; flat notes, which
  are named by the file alone and replace each other.
* `ReadyMeansMigrated`: changes after the verification, and `--ids` with a document
  twice, which satisfies `--min-documents` with fewer documents.
* `TextIsExact`: the constructs in `Losing` and `Leaking`.
* `CallsShareOnlyLanguages`: a tesseract that vanished between `Available` and the
  listing of its languages fails the calls after it too.

### Where code and documents part

`ActedIsRecorded` (run `mail_move`): sequence numbers of one FETCH are used across
MOVEs, and a message that was not ingested is moved away.

Met while modelling, without a run of their own:

* `EnqueueReprocessJob` (`store.go:345`) does not count a failed reocr job with attempts
  left as active, though its comment promises that a document is not processed twice
  concurrently: a worker retries it while a second call works on a new one.
* With a failed folder, `worker.go:56` moves the source away after the first failed
  attempt, as `README.md:134-142` sets it up.  The two attempts left look for it at the
  recorded path and fail, and so does `retry_job`, though it resets a job "so that it
  gets retried" (`mcp.go:339`) and `README.md:185` counts on "retry semantics".  Both
  queue runs have a failed folder: such a document is not forgotten (`WaitingHasJob`)
  and its job settles (`EveryJobSettles`), but only as failed.
* The mail cursor passes messages whose processing failed (`mail.go:405-419`).
* An attachment that `NextPart` cannot decode is dropped for good: its message is
  tracked and marked or moved without it (`mail.go:471-474`).  A truncated message makes
  the poller spin, and what is behind it waits (`mail_test.go:1115-1117`).
* The comment at `structured.go:412-414` says that an EPUB's navigation is skipped "so
  the table of contents does not duplicate chapter text".  `toc.ncx` is; the navigation
  document of EPUB 3 is XHTML and is read with the chapters.
* `StopTimer` of the real clock (`clock.go:39`) stops nothing: the timer of an earlier
  event compares the file with what the last event recorded and enqueues it early,
  while it may still be written to.
* The audit's extensions (`audit.go:11`) are said to mirror `extract.Detect` and do not:
  the dry run calls files unsupported that the import takes, and the reverse.

### Fairness

`JobQueue!Fairness`: weak fairness of a worker's and a one-shot process' own steps (a
goroutine that can go on does), of a watch process coming up (launchd with
`KeepAlive`, systemd with `Restart`), and of time passing (`CoolDown`).  Calls,
retries and faults are never forced.  The settling properties hold in
`queue_disciplined` only: a one-shot process that dies between `CreateOrGet` and
`EnqueueJob` leaves a pending document nobody takes up, and a store error may leave a
job running until the next start.

`MailPoller!FairSpec`: weak fairness of a poller's steps: the ticker fires again and
a poll under way goes on.  Errors and crashes are bounded by `MaxFaults`.

`Watcher!FairSpec`: weak fairness of time, of the event loop, of timers that are due
and of goroutines, of the worker, and of the process coming up again.  Users are not
forced to do anything.

`WatchLock!FairSpec`: a process that takes the lock goes on until it has it or is
refused.  Starts are bounded, so no endless competition of two is excluded by it.

`PaperlessImport!FairSpec`: weak fairness of the run's own goroutines: the listing,
the feeder, the workers, the end.  Requests for lists time out
(`ResponseHeaderTimeout`), a download's body has no limit of time: fairness forces a
download only once the run is cancelled (`Prompt`), because the context closes its
connection.  Users, faults and Ctrl-C are not forced.

## 5. What is proved

For all constants that satisfy the named assumption of each module, any number of
actors, and any bounds.

`JobQueueProofs`:

* `TypeCorrect` carries, beyond `TypeOK`, what `pc` says about `job` and `target`.
* `StoreTruth`, `CompletionTruth`, `SourceCustody` follow from one inductive
  invariant, `StorageInv`: a process at `note` has its copy in the archive, at
  `record` its note too, at `complete` and `tidy` its document is stored.  None of
  this mentions who else holds the job, so it survives resets and retries.
* `RejectionTruth` and `RestartsPayForAttempts` relate a failed document to its job
  and attempts to restarts.
* `ExclusiveClaims` and `CompletionIsFinal` assume `Discipline` (`QuietStart`, and no
  retry of running or completed jobs).  Inductive: a working process' job is running
  and no other's; a job in the way to be claimed belongs to its process alone.
* `WaitingIsNotForgotten` holds with any folders and needs no discipline.  It is inductive
  together with what the rows of documents and jobs have to do with each other
  (`RecordedInv`): a job stops being live only in the step that decides its document,
  and a job another process has taken away is live for that process.
* `IntakeImplemented`: initial states map to `Intake!Init`, and each action to a step
  of `Intake` or a stutter, using the storage invariant (a torn row never arises).

`MailPollerProofs`:

* `MailTypes` rests on `TypeInvariant`, which also says where a poller stands in its
  message (`Place`).
* `TrackingFollowsRecording`: inductive through `Custody`, which says that the
  attachments behind the poller are recorded and, unless it is being stopped, that it
  has been through all parts, and saved those that can be decoded, before it enqueued
  the first.  A truncated message never comes to its end.  A cancelled poller may come to
  `act` with a part of them, but can no longer track.
* `OneJobPerContent`: the poller about to enqueue a content's job is the only one
  (`Owners`), and a stopped poller's message is among the failed ones (`Stopped`).
* `CursorLeavesNothingUnread` needs to know of each poll under way (`Window`) that what
  lies below its start is settled, and that what lies below the UIDNEXT it was told is
  settled or still among its messages to do; and that UIDs are given out in order
  (`UidInv`).  A renumbering makes cursor and polls those of an earlier validity.

`WatcherProofs`:

* `WatcherTypes` includes the events, timers and goroutines of the process.
* `NoPathForgotten`: inductive with the types of `pending` and `timers`.  A tick loses
  no timer (`SoonerKeeps`), and whoever spends one forgets the path or sets another.
* `OnlyRacesLose`: as long as no moves overlapped, the target of a rename that is about
  to happen is free (`TargetsAreFree`).
* `ArchivesAreTheirHash` needs no assumption on folders or writers.  Inductive: a file
  in the processing folder has at most one holder, a goroutine or a queued job
  (`Custody`), and what has been hashed and is not `late` is still where it was
  (`Fresh`), in the inbox too, where only users and moves take files away.

`WatchProofs`:

* `LockTypes`, and `LockExcludes`, which is inductive with `Orderly`: as long as no
  starts overlapped, one process at a time takes the lock (`OneAcquires`), whoever
  runs has his pid in it, whoever has read it knows the pid of the one that runs, and
  nobody runs when a file is written or removed.
* `SessionTypes`, and `SessionKeepsWatchers`: a call half done holds the reservation of
  its directory alone, and a watcher that runs is in the map or about to be.  Unique
  numbers of watchers are not needed.

`PaperlessImportProofs`:

* `ImportTypes` carries where indexes are: a worker's and the feeder's are in the list.
* `RowsAreBacked`: the copy is made before the note, both before the row (`Backed`).
* `NotesAreSingle`: an index goes to one worker (`Places`); a note belongs to a row, or
  to the worker about to write it, and nobody who may still write a note is at a
  document that has one (`Single`), except for the spoiled ones.
* `DocumentsAreFiled`: the worker that made a document keeps it until it is filed or
  its import is broken off (`Filed`), whatever the others do with the same bytes.
* `ReportsAreComplete` (`Counted`): every index the feeder has passed is recorded or at
  a worker, none is recorded while at a worker, and the counts add up to the number of
  those recorded; an index that gets lost has left an error behind.
* `ListingsMissNothing` (`Listed`): a document that was there when the listing began is
  in the list or still to come, that is, at a place of the server's list no page has
  reached.  An upload moves it back, never forward.
* `CleanRunsVerify` (`Clean`): as long as no document failed, what is recorded, and what
  a worker is about to record, is as Verify wants it.  It uses `Places` (nobody undoes
  another's work), `Counted` (nothing is left out), `RowIsBacked` and `OneNoteEach`.

`NoteVaultProofs`:

* `VaultTypes`: the queue of a bulk update holds ids of documents.
* `RowsLeadToNotes` and `UserEditsAreKept` follow from `VaultInv`: what a process has at
  hand is what the note is, unless the note is raced (`Honest`); a truncated note's text
  is in the backups; a free path stays free.  That a free suffix is found uses the
  well-ordering of numbers.

`MigrationProofs`:

* `MigrationTypes`, with what reports say (`ReportInv`, `VerifyInv`): the number of
  failures is that of the results, discrepancies are of the known kinds, one entry for
  each document selected.
* `ReadyIsMigrated`: inductive is `Current`, that a verification nothing has changed
  since would find the same again.  In the step of the cutover, the gates give the
  rest: the vault's, that no note of the document is torn or without its hash; the
  verifier's, that its findings are empty.  A document without findings has exactly one
  note with its id (`CleanIsMigrated`); the stub that stands in for a missing one always
  lacks its date.  Documents selected once and as many as the server has are all of them.
* `ReviewsNameBlockers`: each gate's objections are known (`FirstObjection` and the
  lemmas after it), an objection leaves something to show, and the filter shows it.

`ExtractionProofs`:

* `CallsAreApart`: what a call has read is what it was given to read, page by page,
  whatever other calls do (`PagesOK`); what it has learned about the languages is what
  the runner holds, and the runner only learns (`Grows`), so that a call is not
  disturbed by the others' steps (`CallStays`).
* `LimitsHold`: what has been accepted so far is the sum of the sizes of the parts
  taken (`Taken`), no part is taken twice, and a part's size is charged before it is
  read.  `ProbesAreBounded` adds up the probes of `Detect`.  The sums (`Total`) are over
  sets, and the laws of sums (`SumIs`, `SumLaws`) are proved by induction over the
  subsets of a set, ordered by inclusion (`SubsetInduction`, from the well-ordering of
  numbers).
* `TextsAreExact`: `TextInv` says, for each kind, what the reader's buffers hold of what
  the file has said so far.  `WordOK`: the output, the table, the row and the cell at
  hand, one after the other (`Has`), as far as the tables are nested as the reader
  believes (`WordPlain`).  `RegionOK`: RTF's, HTML's and ODF's open regions, and the one
  the reader skips.  `SheetOK`: the table and the row, and the shared strings.
  `SlidesOK`: the parts read, in ascending order of their names.  `MailOK`: what the ways
  to read each open container have to do with the texts of its parts (`BoxOK`).  `Sub`
  says by positions that a text is another with pieces left out; unlike the fold
  `Within` it can be put together from parts (`SubJoined`), and `SubIsWithin` shows that
  the fold finds what has such positions.  Slides and chapters whose names are in reading
  order, with nothing off the spine, come out in it (`NamesInOrder`); of others `odd`
  says so.

The assumptions on constants are those named in the modules: finite sets, types, and
bounds that are numbers.  `Labels` is not empty, since a tag has a name; `NamesAssumption`
is explained with `Readers`.

Only model-checked:

* Everything under fairness (`EveryJobSettles`, `ImplementsFairIntake`,
  `EveryMessageRecorded`, `EveryFileSettles`, `StartDecides`, `CancelEndsRun`): liveness
  is out of the prover's reach.

## 6. What is not modelled

* Notion import: one sequential pass that parses and rewrites text, with no state
  between runs.
* Annotation profiles, matching of classification rules, configuration, report layout,
  the HTML of the review: functions of their input.
* Barcodes, PDF operations, keychain, search, file type detection: one external program
  per call, whose output is parsed.
* Plain text, CSV and Markdown (`ReadTextKind`) are copied; of the old Office formats
  only the container is told apart, and they are refused.
* MCP tools other than `start_watch` and `stop_watch`, and commands that call one
  operation: the operation is modelled, the translation of its arguments is not.
  `StopAllWatchers` is called by tests only.
* The desktop client, which shows the output of the command line program.

Of the formats that `Readers` models, these constructs have no element of their own:

* the pictures of an RTF file (`\pict`) stand under `info`, and ODF's annotations under
  `tracked`, as regions whose text is not the document's;
* a message within a mail (`message/rfc822`, also inline) is a part of another type, whose
  text is not the mail's own;
* chapters of an EPUB whose names do not end in `.xhtml`, `.html` or `.htm` are not read
  and are not parts of the model's file.

Wording, logging and layout are left out everywhere.
