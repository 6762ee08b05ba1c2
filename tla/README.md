# A TLA+ model of darek

`darek` is a personal assistant written in Go: a chat agent with tools, a link
library with importers and a web UI, a mail index, a WhatsApp listener, a daily
digest, and a blog-marketing scheduler and auto-poster. Most of it moves items
between services that fail independently (Todoist, Mastodon, FreshRSS, IMAP,
WhatsApp, an LLM) and a Postgres database, in loops of `darek serve` and in
one-shot commands run from cron, with nothing between the processes but the
database. That is where its bugs can hide and what this project models.

- Modules: one per component, named after what it models. `MC*` modules hold the
  constants TLC needs, `*Proofs` modules the theorems.
- `*.cfg`: the instances TLC checks.
- `PROJECT.json`: components, runs, mutants, the map from definitions to source
  lines, findings, hazards, theorems.

Run one check with `tlc -config BlogSyncPair.cfg MCBlogSync`, one proof with
`tlapm BlogSyncProofs.tla`.

## Inventory

| Component (source) | State | Operations | Hard parts | What makes it correct | Module |
|---|---|---|---|---|---|
| Blog scheduler (`blogmarketing/sync.go`, `store.go`) | rows of `blog_posts_scheduled` and `blog_post_tasks`, Todoist tasks, locals of a pass | SyncAll, Sync, createSeries, rollback, SaveTasks, MarkSeenOnly | 9 remote calls and then one transaction; serve and cron unsynchronised; lost acknowledgements; first-run detection by row count | series all or nothing, one task per cell, recorded tasks never rolled back, back catalogue never scheduled, every post recorded eventually | `BlogSync` |
| Auto-poster and re-roll (`publish.go`, `regenerate.go`) | `posted_at`, Todoist task contents and labels, Mastodon statuses and idempotency keys | Publish, Regenerate | crash between toot and record; overlapping passes; stale listings; a slow LLM call between read and write | posted at most once, recorded only if posted, closed only if recorded, only due tasks, foreign tasks untouched | `BlogPublish`, `PostOnce` |
| Todoist and Mastodon clients (`tools/todoist`, `tools/mastodon`) | none | REST calls | paging, omitted fields, errors after effect | modelled where their callers use them | |
| Mail index (`tools/mail`) | accounts, folders with `uidvalidity`/`last_uid`, messages, attachments | Sync, Search, FetchBody, FetchAttachment, GCAttachments | UIDVALIDITY changes, a sync cut short between insert and state update, concurrent syncs | no message missed, a reset leaves no old envelope behind | `MailSync` (not the read tools and attachments) |
| Mail sending (`tools/mail/send.go`, `confirm.go`, `smtp`, `imap/append.go`) | none of its own | mail.send | a question to a terminal or a pipe; an SMTP dialogue that breaks off after the server took the mail | sent once for a yes, never otherwise; the model is told the truth | `ChatTurn` |
| Chat agent (`agent/`, `tools/registry.go`) | message history | RunTurn, Execute | tool failures, iteration limit | every tool call is answered exactly once and in order | `ChatTurn` |
| Calendars (`tools/calendar/`) | sources | ListEvents, Group, create, update, delete | one source failing, events across midnight, patches of one end | each event shown on the days it overlaps, times in order | `ChatTurn`, `DailyDigest`, `Agenda` |
| Link library (`links/`) | links, tags, ratings, notes, AI analysis | IngestOne, Save, ApplyAnalysis, edits of the web UI, links.save | lookup and save in separate statements; requests, workers and analyses write the same row | one link per canonical URL, ratings, notes and tags survive imports | `LinkLibrary`, `LinkKey` |
| Importers (`todoistimport/`, `freshrssimport/`, `cmd/darek/auto_analyze.go`) | the sources' open items | Sync, processTask, processArticle, callbacks | worker pool, ingest then complete, a session that expires | an item is completed only if ingested, all are in the end, new videos analysed | `LinkLibrary`, `Handoff` |
| FreshRSS client (`tools/freshrss`) | cached session | login, tokens, listing, marking | a POST repeated without its body | a refused session costs a pass, never an item | `LinkLibrary` |
| WhatsApp manager (`tools/whatsapp/manager.go`, `pairing.go`) | client, pairing snapshot, drop channel | Run, runPairing, Unpair, handleEvent | goroutines and callbacks sharing a one-slot channel and a snapshot; reconnection | no wake-up lost, no code while paired, a lost session is paired again | `WhatsAppManager` |
| WhatsApp store and summary (`store.go`, `summary.go`) | groups, messages with `summarized_at`, `extracted_at` | InsertMessage, UpsertGroup, SetIngestEnabled, BuildSummary, MarkSummarized | messages arriving between read and mark; a summary that fails | marked only if told of | `DailyDigest` |
| Daily digest (`cmd/darek/daily_digest.go`) | none of its own | list events, build summary, extract memories, mail, mark | crash between mail and mark; overlapping runs | nothing is lost, everything is told of in the end | `DailyDigest`, `Handoff` |
| Memory (`memory/`) | memories with dedupe keys and status, extraction marks | Extract, SaveMemories, recall | re-extraction | extracted only if saved | `DailyDigest` (extraction only) |
| Execution history (`exechistory/`, `cmd/darek/serve/executions.go`) | pending steps per trace, executions, steps | OnEnd, flushExecution, Shutdown, RunCleanup, List, Get | parallel spans, nested roots, shutdown while loops run, paging while rows come and go | no partial execution in a plain trace, no step saved twice, no page skips an execution | `ExecHistory`, `Waterfall` |
| Web server (`cmd/darek/serve/`) | sessions in cookies, OIDC state, footer cache | handlers of the components above, login | | | handlers in the modules of their components; login and footer not modelled |
| Configuration, database, observability, LLM, YouTube, blog feed, iCal and Google clients | none that changes | load, migrate, export, fetch, parse | | | not modelled |

How they interact: `darek serve` (`cmd/darek/serve.go`) starts the web server,
the WhatsApp manager and one goroutine per sync loop (`runSyncLoop`: run at
once, then at every tick, errors only logged). The loops share the database
pool and the API clients. `darek blog sync|publish|regenerate`, `darek mail
sync`, the importers and the daily digest run the same code in processes of
their own, and the chat calls the same tools and stores. No two of these
processes share anything but Postgres and the remote services.

## The modules

`BlogSync`, `BlogPublish`, `MailSync`, `LinkLibrary`, `WhatsAppManager`,
`DailyDigest`, `ExecHistory` and `ChatTurn` are state machines, one per group of
operations that meet in the same state. They are not composed further, because
they share little state: `BlogSync` writes the series that `BlogPublish` starts
from, and only adds to them. `LinkLibrary` and `DailyDigest` each compose
several components (library, two importers, FreshRSS client, web and chat;
WhatsApp store, digest, memory, calendars).

`PostOnce` and `Handoff` are abstract specifications. `BlogPublish` implements
`PostOnce` (`KeepsPromise`). `Handoff`, at-least-once delivery, is what
`LinkLibrary` promises for tasks and articles and what `DailyDigest` promises
twice, for mails and for memories (`NothingLost` in both). `Agenda`, `Waterfall`
and `LinkKey` hold the pure functions of three components; the theorems about
them are in the proof modules of these components.

Each module takes its actors, items and fault budget as constants, so that the
same text is checked on small instances and proved for all.

Left to do, in this order: attachments and the read tools of mail; saving of
memories (slugs, dedupe keys, a user's decisions); executions that start at the
same time.

## BlogSync

One action per step of a pass (`Sync` within `SyncAll`), for any set of
`Workers`, each a process that runs passes: `StartPass`, `ListFeed`,
`ReadCount`, then per entry `LookUpEntry`, `MarkSeenOnly` or `Draft`,
`CreateTask` once per cell, `SaveTasks`; on errors `RollbackOne` per created
task, `EntryFails`, `AbortSync`. The database (`posts`, `taskRows`) and Todoist
(`created`, `deleted`) are shared; everything in a pass's hands (`pc`,
`pending`, `cur`, `refs`, `firstRun`, `resolved`, `runs`) is lost by `Crash`.
`SaveTasks` is one action because it is one transaction; the primary key and the
unique index of `blog_post_tasks` are `TaskConflict`. A failing call may have
taken effect: `CreateTaskFails` may leave a task nobody knows, `SaveTasks` may
commit and be reported as failed. `catalog` and `polled` are history variables.

Abstracted: an entry is its canonical URL (entries without one are skipped
before any effect), the order of entries is left open, drafts and due dates
are left out, feeds only grow. `MaxFaults` bounds failures and crashes together.

Properties and what they say about the code:

- `SeriesComplete`, `OneTaskPerCell`: what `SaveTasks` records is all cells of a
  post, each with its own task, even when two processes race.
- `RollbackSparesSaved`: why `Sync` must not roll back after a failed
  `SaveTasks` (sync.go:161-168).
- `NoTaskForRecordedPost`: with one process at a time a post that is recorded
  gets no (further) tasks.
- `FirstRunSafeUnlessFault`: the back catalogue stays without campaign as long
  as nothing fails, also when two blogs carry the same post.
- `EveryPostRecorded`: a failed poll is made up for by a later one.

Runs: `BlogSyncSolo` (one process, two blogs, two posts, two cells, one fault)
and `BlogSyncPair` (two processes, two faults). Two cells suffice to have a
series that is half created; two processes suffice for every race, since all
interference goes through the database; two faults let a failure hit the
recovery from a failure.

An empty first poll makes the first real post count as back catalogue; the
model contains this, and no property forbids it.

Fairness: `runSyncLoop` starts a pass at every tick and no step of a pass waits
for another process, so each worker's steps are weakly fair; failures, crashes
and new posts are not.

## BlogPublish and PostOnce

`Posters` run Publish and `Regens` run Regenerate over the same Todoist tasks. A
pass lists a project (or the label) once and works on that listing: `page` and
`cur` are the stale copies the code works on. `now` is read at the start of a
pass. The user relabels, rewrites and closes open tasks, the clock advances to
`MaxTime`, and when `KeyWindowEnds` Mastodon may forget a key at any moment.
`ListTasks` returns the first page only (`FirstPage`), `UpdateRequest` leaves
out an empty label list (`LabelsSent`). A failing call may or may not have taken
effect: both outcomes are alternatives of the action that makes the call.

Abstracted: a text is one of `Drafts`, a description is whether it has the
linkback, a deleted task counts as closed, due dates are fixed. Rows from before
migration 0014, whose entry has no metadata, are left out (they fail in
`GetEntry` at every pass).

`PostOnce` is what the auto-poster promises: a task is posted, recorded,
completed, in this order and at most once. `KeepsPromise` is the refinement:
posts are the statuses on Mastodon, recorded is `posted_at`, done is what darek
completed.

Properties: `PostedOnce` (at most one status per task, while keys live),
`RecordedIsPosted` (with `KeepsPromise`, the order of the three effects, under
failures and overlapping passes), `NeverRepublished` (a recorded task is never
posted again, even without keys, for one poster), `OnlyDueTasksPosted`,
`OthersLeftAlone`, and under fairness `DueIsPosted`, `PostedIsClosed`,
`LabelIsStripped`.

Runs: `BlogPublishPair` (two posters, two projects, one task that is
auto-posted and one without publisher, two faults, keys live) and
`BlogPublishAll` (one poster, one re-roll pass, a foreign task, two user
edits, one fault, keys expire). Two user edits are needed for one to put the
label on and another to interfere with the re-roll.

A re-roll writes back the labels as listed and undoes a concurrent label edit,
and the poster sends the text as listed even if a re-roll has just replaced it:
the model contains both, and no property forbids them.

Fairness: as above, per pass, and the clock advances. The user owes nothing.

## MailSync

One action per step of `Sync`, for any overlapping `Workers`, each an invocation
of `darek mail sync` (mail has no loop in `serve`). `Plan` lists the folders of
all accounts in order: an error in one folder ends the pass for all later ones,
across accounts too, because `runMailSync` returns it (`Abort`, which also
stands for a crash). `EnsureFolder` reads `uidvalidity` and `last_uid`;
`FetchNew` asks the server; if the UIDVALIDITY has changed, `ClearMessages` and
`StampFolder` (the two statements of `ResetFolderState`, not in a transaction)
and `Refetch` follow; `InsertEnvelope` is one transaction per message;
`UpdateFolderState` stores the new mark. `Fetched` models `UID FETCH since+1:*`
as IMAP defines it: the range always contains the newest message. `Upserted` is
the ON CONFLICT clause, which keeps the envelope of an existing row. The server
(`Deliver`, `Expunge`, `Renumber`) is external.

Abstracted: a message is its UID and the UIDVALIDITY it was fetched under;
headers, flags, snippets, attachments are left out, and so are `--account` and
`GCAttachments`. Reports are not state.

Properties: `NoGap` (the mark never runs ahead of the index while a folder keeps
its UIDVALIDITY), `OneValidity` (a reset leaves no old envelope behind, wherever
it is cut), `MessageIndexed` and `NewestIndexed` (liveness, before and after a
change). `OneValidity` excuses two cases that the code does not handle and
`mixed` records: two passes meeting in one folder, and an interrupted first pass
(`uidvalidity` still 0) that is taken up after a change. A folder that was ever
`mixed` is excused for good. `NewestIndexed` asks there only that the newest UID
has a row, and elsewhere that the row is of the message itself: a mixed folder
may hold a row of the old UIDVALIDITY under that UID, and the ON CONFLICT clause
(store.go:124) keeps its envelope. Neither property sees that the newest
message, fetched by every pass, has its attachments inserted each time.

Runs: `MailSyncPair` (two passes over one folder, two UIDs, one change, one
failure): two messages are needed for one to be skipped by the other's mark.

Fairness: cron repeats the command, and no step waits for another pass.

## LinkLibrary and Handoff

`Passes` are invocations of an importer's `Sync`; `Work` pairs a pass with an
item, and `at` is the step a worker is at with it: `lookup` (`IngestOne` asks
whether the canonical URL has a row), `select` and `write` (the two statements
of `Save`; an INSERT that meets the unique index fails), `labels`, then for an
article `token` and `close` (`Client.Mark`), for a task `close`, and `analyze`
and `apply` for a new video. `TakeItem` is the `errgroup` with its limit
`Concurrency`. Requests of the web form and of `links.save` go through the same
steps; `ResaveTool` is the second `Save` of the tool. `sid` is the session that
the FreshRSS client caches: a listing or a token renews it (`Authed`), while a
POST that is refused is repeated without its body and fails (`Close`). The
user's edits are actions of their own; the rating is two (`ClickStar`,
`SetRating`), because the handler reads it first. `handed` and `closed` are
history variables, the two variables of `Handoff`.

Abstracted: an item is its canonical URL and its labels. The chat's FreshRSS
tool has a client of its own, whose session is not modelled. Rows are never
deleted, because nothing calls `Store.Delete`. Full-text search and `Similar`
change nothing and are left out.

Properties: `NothingLost` (`Handoff`): a task or article is closed only once its
row is there with all its labels; `ItemsDrain`: a failure, a lost race or an
expired session costs a pass, never the item; `NewVideoAnalyzed`: of several
workers that bring in one video, the one that inserts it has also seen that it
is new; `EditsButKindSurvive`: no importer, no save of the same URL and no
analysis undoes a rating or a note, takes a tag away or removes a link. The kind
is the exception: `IngestOne` passes the classifier's to `Save` (ingest.go:90),
so an import of the URL replaces what the user has chosen (`KindSurvives` fails,
see below). Two clicks on a rating at once are not covered: the later one wins.

Runs: `LinkLibraryImport` (a FreshRSS and a Todoist pass with two workers each,
two tasks and an article for one video, a task without URL, one failure, expiry
or crash) and `LinkLibraryRequests` (an import, the form and the tool save one
link while the user edits it twice). All interference is on one row, so one URL
with three writers is what produces it; two edits make a click and another edit
in between. The chat's edits of the sources (`MarkArticle`, `CompleteTask`) are
counted among the edits.

Fairness: `runSyncLoop` repeats each importer, and a worker waits for nobody.
The user, and failures, owe nothing.

## WhatsAppManager

`pc` is the position of `Run`: `top` (read the stored device), `client`
(`ensureClient`), `check`, the pairing flow (`pair`, `open`, `codes`),
`connect`, `asleep` (the select over `drop`), and `wait` for the backoff.
`HandleEvent` is `handleEvent` on whatsmeow's goroutines: events are pending in
any number and are handled in any order. `SignalDrop` is the non-blocking send
to a channel of one slot, `st` the pairing snapshot that the web pages read.
`Unpair` is four steps, between which the loop and the handlers go on.
whatsmeow, the phone and WhatsApp's server are external: codes, scans, drops,
logouts from the phone (which may happen while darek is offline), restarts.

Properties: `QRMeansUnpaired`, since the page decides by the snapshot;
`AsleepMeansConnected`: no wake-up is lost between the check and the sleep;
`Recovers`: a linked device is connected again, one without session is offered
a code. The last two excuse what follows an Unpair, see below.

`WhatsAppConnection`: two drops, so that one can happen while the loop handles
the other; a logout, a failed call, an Unpair and a restart, in any order.

Fairness: the loop and the handlers are goroutines that nothing blocks; a
started Unpair goes on; WhatsApp sends a first code, ends an unused QR session
and closes a connection without a session. Nobody has to scan, click or
restart.

## DailyDigest

The event handler (`IngestMessage`, `RefreshGroups`), the opt-in page
(`SetIngestEnabled`) and any number of `Digests`, each one run of the command:
`ListEvents` (it ends the command if a calendar fails and no other has events,
`Sources.ListEvents`), `StartSummary` and `SummarizeGroup` per opted-in group,
`StartMemories` and per group `Extract`, `SaveMemories`,
`MarkMemoriesExtracted`, then `Compose`, `Send`, `MarkSummarized`. `ids` is what
will be marked, `shown` what the sections tell of. A message is its number;
`Newest` is the cut that transcripts (`TranscriptMax`) and the fallback list
(`FallbackMax`) make; `old` is the edge of `LookbackDays`. `Send` may fail after
the server took the mail. `IngestMessage` looks up the flag and inserts in one
step, although the code takes two statements: an opt-out in between would store
one more message of that group, which concerns no property here.

Properties: `NothingLost` (`Handoff` twice): a message is marked as summarised
only after a mail told of it, as extracted only after its memories were saved,
unless it was cut off: `PushedOut` are the messages with as many newer ones in
their group as the transcript or the fallback has room for. `EventuallyMailed`:
it is told of in the end, unless it is cut off, grows too old or its group is
switched off first. A day on which the calendars keep the digest from going out
(calendar.go:129) is made up for by a later one. `NothingLostFromView` is what
the comments claim, without that exception.

`DailyDigest`: two overlapping digests, a message in an opted-in group and one
in an unknown group, two calendars, one click, one failure or crash. Both
tables and every step are reached by each of the digests; the failure can hit
any step of either. Here `TranscriptMax` and `FallbackMax` have room for all
messages, since two digests over more messages take TLC too long; the theorem
is about any room. `DailyDigestFallback` is the smallest case without room, and
violates `NothingLostFromView`.

Fairness: cron starts the command every day, and no step of it waits.

## ExecHistory

Spans of several traces begin and end (`Begin`, `EndForeign`, `BufferStep`); a
root takes the pending steps of its trace (`TakeSteps`, up to the unlock of
`flushExecution`) and writes them in one transaction (`WriteAll`). The process
shuts down in the order of its deferred calls (`ClosePool`, `Shutdown`) while
the loops it does not wait for still end spans; it may be killed (`Exit`).
`Cleanup` deletes old executions. A user pages through the list (`ShowPage`: the
query, the limit and the link to older rows) and opens an execution
(`ReadExecution` and `ReadSteps`, two statements).

Properties: `WholeExecutions` is `SavedOnce`: in every trace a step is saved
with one execution at most, of its own trace, and `PlainAreWhole`: in a trace
that is `Plain`, what is stored or shown of an execution is all that ended in it
and nothing else. `PagingComplete`: who follows the links to their end has seen
every execution that was there all the time.

A trace is plain if each of its steps is in an execution and an execution around
others has no steps of its own. Every command has plain traces but one: `darek
blog publish` marks a root, its `ResolveProjectID` step (cmd/darek/blog.go:377)
ends before the root of `Publish` begins, and as `flushExecution` takes all
pending steps of the trace (recorder.go:75), the step is stored with the inner
execution. recorder.go:22-23 makes no exception; `ExecHistoryPublish.cfg` has
this trace and violates `EveryExecutionWhole`.

What is assumed of spans is what the code guarantees: `SpanAssumption`, that
they form finite trees; `Ends`, that a function ends its span after all that it
started (the passes join their workers); `Begin`, that the passes of a command
run in sequence (`SyncAll`), so that two of them are never open in one trace
unless one is inside the other.

Left out: a span that cannot be converted (recorder.go:57-61), since the
attributes darek sets can all be marshalled; an execution that cannot
(recorder.go:80-84) is one that `WriteAll` fails to write. Two executions with
the same `started_at` at the end of a page are left out too: paging is by
`started_at < before`, so the second one would not be shown, and
`PagingComplete` does not see that. types.go:3 names chat turns as executions,
but the chat command registers no recorder.

`ExecHistory`: a command that wraps two passes, the first with two parallel
steps, the second with a step and a database span; a request that ends a step
outside of every execution; one failed write or kill; pages of one and two
rows. Three executions make three pages, with deletions and insertions between;
two passes in one trace are what it takes for a step to reach the wrong one.

## ChatTurn

`RunTurn` is `CallTools` (an answer of the model with up to `MaxCalls` calls),
`AnswerUser`, `ChatFails` and `GiveUp`; each tool is executed in turn and
`Answer` appends its tool message, error or not. `mail.send` is `RefuseMail`,
`ShowPreview`, `Confirm` (which reads through a buffer of its own: `ReadLine`
takes a line and, with it, any number of the lines that follow in the pipe),
`SmtpSend` (may fail after the server took the mail) and `AppendCopy`. The
calendar tools write to calendars that are writable (`RefuseEvent` is all they
refuse); Todoist's tools change tasks (`RefuseTask`); `things` is what calls
created. An answer of the model without any choice makes `RunTurn` panic
(agent.go:99); `ChatFails` ends the turn for it. Tools that only read, tools
that do not exist, and the tools over links, articles and memories are
`ExecuteOther`.

Properties: `MailAsAgreed`: a mail is delivered once, and only for a yes to its
own preview, and what the model is told of a mail or of a thing created did
happen (an "error" says nothing: the mail may be out); `AnsweredInOrder`:
the conversation the API gets is always well-formed.

`ChatTurn`: two requests with up to two calls of any tools, a terminal, an empty
pipe and a pipe with two answers, one failure. Two calls of one answer are what
it takes for an answer to reach the wrong call, two requests for a retry.
There is no liveness property: the model may call tools until `maxIters` ends
the turn, and a question waits for the user.

## Agenda, Waterfall and LinkKey

Pure functions, as operators with theorems for all inputs: the days of the
agenda (`Bucket`, `Precedes`) and the times that the calendar tools accept
(`Created`, `Patched`) in `Agenda`; the bars of an execution and of the list
(`OffsetPct`, `WidthPct`, `TickMS`, `RowPct`) in `Waterfall`; the canonical URL
(`Canonicalize` over the parts of a URL it tells apart) in `LinkKey`. There is
nothing to run: each theorem is proved, in `DailyDigestProofs`,
`ExecHistoryProofs` and `LinkLibraryProofs`.

## Disagreements with the documentation

`DailyDigestFallback` is among the runs: summary.go:205-207 says that a group
whose summary fails is not marked, so that tomorrow retries, and
daily_digest.go:236-237 that no message is lost from the user's view. The code
shows the last `fallbackMaxMessages` of the group and marks all of them.

Ten more instances are there to be run by hand (`tlc -config X.cfg MCY`); each
of them ends in a counterexample.

| Instance | What it shows | What is said |
|---|---|---|
| `BlogSyncBackfillFault` | one failure in the first poll, and the next one schedules the rest of the back catalogue | README.md:234: adding a blog never does |
| `BlogSyncOrphans` | two processes schedule one post; the loser's series stays in Todoist, recorded nowhere | store.go:87-90: harmless |
| `BlogPublishKeyWindow` | keys expire before the retry; a crash between toot and `MarkPosted` posts twice | README.md:270 against mastodon/client.go:112-113 |
| `BlogPublishFirstPage` | a due task beyond Todoist's first page is never published | README.md:247 |
| `BlogRegenOnlyLabel` | a task with no other label keeps `regenerate` and is drafted anew at every pass, since an empty list is left out of the update | README.md:274 |
| `MailSyncReset` | after a reset the old `last_uid` is stored again, and new messages below it are found only while they are the newest | sync.go:20-21 |
| `LinkLibraryQueue` | once a page is full of rated links the queue is empty, although unrated ones exist: the limit comes before the filter (handlers.go:174, 183, links/store.go:285) | docs/specs/2026-04-29-rss-inbox-design.md:164 |
| `LinkLibraryKind` | an import of the URL puts the classifier's kind in place of the one the user chose (ingest.go:90, links/store.go:105-148) | docs/specs/2026-04-29-rss-inbox-design.md:45 "User-overridable in UI", :143, README.md:304 "you can override the kind from the UI" |
| `ExecHistoryPublish` | the step that `darek blog publish` takes before the pass is saved with the pass, and the command without it (recorder.go:75) | recorder.go:22-23: "by design, we never surface a partial execution" |
| `WhatsAppUnpair` | after Unpair the loop goes on sleeping, and no code is offered before a restart: `Unpair` signals nothing, and a disconnect of one's own raises no event | manager.go:108-111 |

## What is proved

Every proof is about all values of the constants that satisfy the named
assumptions (`RunsAssumption`, `ItemAssumption`, `BoundAssumption`, ...), which
TLC evaluates in every run.

`BlogSyncProofs`: `TypeCorrect`, `SeriesAlwaysComplete`, `CellsAndTasksMatch`,
`RollbackSafe`. The properties are not inductive: the proof adds that ids in a
pass's hands were handed out, are held by one pass and one position only, are
not recorded, and are not deleted unless being rolled back (`SafeInv`), and that
`pc` determines what the locals hold (`LocalsOK`). The keys of `blog_post_tasks`
carry the rest.

Two more hold for one pass at a time, and are proved with that as the
hypothesis: `FirstRunIsSafe` (`FirstRunSafeUnlessFault`) and `NoSecondSeries`
(`NoTaskForRecordedPost`). `SoloInv` says that the post a pass is scheduling is
not recorded, since nobody else records, and that up to the first fault each
post of a back catalogue is recorded or still to do for the poll that found its
blog empty (`CatalogInv`). `BlogSyncBackfillFault` shows what one fault does.
`OrphansNeedFault`: under both conditions nothing stays in Todoist unrecorded,
since each task is in the hands of the pass or recorded, and no save conflicts
(`KeptInv`); `BlogSyncOrphans` shows what a second process does.

`BlogPublishProofs`: `TypeCorrect`; `OthersStayAlone` (`OthersLeftAlone`), since
a pass that acts is at a task with a row of its own; `RecordsAreTrue`
(`RecordedIsPosted`, and `ClosedIsRecorded`: what darek closed is recorded) and
`OnlyDuePosted` from `PostInv`, which ties each step of a pass to what it has
seen done before; `AtMostOnePost` and `ImplementsPostOnce` (the refinement)
under `~KeyWindowEnds`, from `KeyInv`: what was posted has its key; and
`RecordedNeverRepublished` for at most one poster. `DoublePostNeedsFault`: for
one poster, before the first fault, `PostedOnce` needs no keys, since each post
is recorded before the next one (`PostedOrMark`); `BlogPublishKeyWindow` shows
what a crash does.

`MailSyncProofs`: `TypeCorrect`, and `MarkNeverAhead` (`NoGap`). The invariant
`GapInv` adds what a pass has in hand: every message up to its own mark or up to
an envelope it still holds is indexed or among those envelopes, and all of these
are below the server's next UID, so that a message arriving between the fetch
and the store is above the stored mark. `ResetLeavesNothing` (`OneValidity`)
rests on `ValidInv`: where passes have not met, a pass has the folder to itself
(`Alone`); all rows of a folder are of one UIDVALIDITY, and of the server's if
that is the stored one (`RowsInv`); and each step of a reset has found or made
the folder as the next one needs it (`ResetInv`).

`LinkLibraryProofs`: `TypeCorrect`, with what each step of a worker has seen of
the table (`WorkOK`); `ItemsHandedOver` (`NothingLost`), from `HandedFirst`:
what a worker is about to close has been in the library with its labels,
whatever the user has removed since; `UserEditsButKindSurvive`
(`EditsButKindSurvive`), action by action. Of `LinkKey`: a key is its own key
(`KeyIsStable`, for hosts with at most one `www.`), and equal pages have equal
keys (`SamePageSameKey`).

`WhatsAppManagerProofs`: `TypeCorrect`; `NoCodeWhilePaired` (`QRMeansUnpaired`);
`NoLostWakeUp` (`AsleepMeansConnected`). `PairingInv`: a code is shown only by a
pairing that has reset the snapshot. `SleepInv`: from the check on, the session
lives and the connection is up, or there is a sign of their end that `Run` has
still to see, a token in the channel or an event that will put one there.

`DailyDigestProofs`: `TypeCorrect`; `MessagesHandedOver` (`NothingLost`), for
any room that transcripts and fallbacks have. `DigestInv` ties a digest's `pc`
to what has been mailed, saved or cut off of what it holds; that a message cut
off stays cut off, and that whatever `Newest` leaves out is, are lemmas about
`PushedOut`. Of `Agenda`: every event is on the agenda of its days and on no
other (`EventIsShown`, `OnlyItsDays`), midnight loses exactly the events without
duration (`MidnightIsLost`), the order of a day is a strict weak order
(`PrecedesIsAWeakOrder`), what the chat creates is shown (`CreatedIsShown`), and
an accepted change puts the end before the start exactly if it moves one end
past the other, which it can do to every event (`OnlyOneEndInverts`).

`ExecHistoryProofs`: `TypeCorrect`, with executions numbered in the order they
start; `ExecutionsAreWhole` (`WholeExecutions`, for every forest of spans) and
`NoPageSkips` (`PagingComplete`). The tree of spans is given by recursive
functions on `Parent`; that they exist is proved first, from well-foundedness.
`WholeInv`: open spans are inside open spans (`SpansNest`), what is pending of
an execution is all that ended in it until it is taken or dropped
(`PendingInv`), a batch is whole or can no longer be written because the pool is
closed (`BatchInv`, `ProcessInv`), and what is stored and read is whole
(`RowsInv`, `ViewInv`), each for plain traces; for all traces `KeptInv` says
that a step which ended is pending, in one batch and its execution, or nowhere.
`PagingInv`: what is due and not yet shown started before the cursor; it needs
that a page is the latest rows below its cursor (`PageFacts`). Of `Waterfall`:
bars lie on their scale (`BarsOnScale`, `RowsOnScale`).

`ChatTurnProofs`: `TypeCorrect`, `OnlyWithConsent` (`MailAsAgreed`),
`OneAnswerPerCall` (`AnsweredInOrder`). `CallInv` counts: answers given and
calls left are the calls made, numbered in order, and a request still to come
has room for `MaxCalls` more. `MailInv` says that nothing was sent for a call
before its turn, and that a mail is under way only after a yes.

Only model-checked: the liveness properties (`EveryPostRecorded`,
`PostedIsClosed`, `DueIsPosted`, `LabelIsStripped`, `MessageIndexed`,
`NewestIndexed`, `ItemsDrain`, `NewVideoAnalyzed`, `Recovers`,
`EventuallyMailed`), because the proof system does not reason about fairness and
ENABLED. Every invariant and action property of the passing runs is proved,
under the hypotheses named above (one pass, keys that live), which are those of
the runs that check it.

## What is not modelled

- Login and sessions (`serve/auth.go`, `oidc.go`), the footer's cache, and all
  rendering, of pages, mails and summaries.
- Of mail: attachments and their garbage collection, and the tools that search
  and read. Messages built for sending are their call.
- Of memory: slugs, dedupe keys, recall and the chat tools.
- Of links: full-text queries, `Similar`, and the classifier, beyond what is a
  video.
- Parsing of feeds, of iCal and of what models answer; prices of tokens;
  configuration, migrations, metrics: they read and convert and keep no state
  that others see.
