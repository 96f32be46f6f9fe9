# Ziba in TLA+

Specifications of [Ziba](../src/README.md), a personal content aggregator: a Go
program (`ziba serve`, plus commands run by hand) over one PostgreSQL database.
It reads sources, turns what it finds into articles, has them analysed, and
selects a daily digest. TLC checks the models on small instances; TLAPS proves
the theorems of the `...Proofs` modules for every value of the constants.

Paths are relative to `src/`.

## The system

| Component | State | Operations | What makes it hard | What makes it correct |
|---|---|---|---|---|
| Work queues (`internal/store/queries.go`) | `raw_items`, `articles`: stored, `processed_at`, `failure_count`, `last_attempt_at`, `failed_at`, `outcome` | enqueue, read a chunk, record a failure, settle | several processes, retries, crashes | rows leave the queue only when done or given up; nothing is lost; nothing waits for ever |
| Runner (`internal/job/job.go`) | locals only: the chunk, its results, the moment the drain started | Collect, Expand, Hydrate, Analyze, Drain, Digest | what was only in memory is lost at any statement; chunks; parallel analyses | a drain handles all it owes, each row once |
| Scheduler (`internal/job/schedule.go`, `cmd/ziba/serve.go`, `runner.go`) | last occurrence, in memory; one-time request, in the database | claim, catch up, run, sleep | crashes, a schedule that changes, two servers | one run per occurrence, one per request; the digest is refreshed |
| Schedule times (`internal/config/schedule.go`) | none | On, NextEvery, PreviousEvery | midnight, the anchor, intervals that do not divide the day | the announced run is the one that happens |
| Configuration (`internal/store/configuration.go`, `internal/web/settings.go`) | `app_settings`, `interests`, `sources` | wizard pages, Settings pages, SyncSources | read-modify-write of the whole configuration, without locks | what is configured can be run; setup stays complete; collected items stay |
| Collectors (`internal/collect`) | none | a few sources at a time; feeds, mail, link digests, full text | remote failures, redirects, a slow source beside healthy ones | a collection ends unless a mail server falls silent; a failing source costs no other; no mail the source accepts is missed |
| Analysis (`internal/pipeline`) | journal file | assess, summarise | settings that change between the judgement and the page | what is listed was not spared its summary |
| Digest, reading, feedback (`internal/store/reading.go`, `feedback.go`) | `digests`, `digest_articles`, `archived_at`, `article_score_feedback` | generate, show, archive, page through; correct, reset | two processes that refresh one date; a selection rebuilt while it is read; paging by OFFSET | one selection per digest; nothing archived is shown; nothing is skipped |
| Polite transport (`internal/collect/throttle.go`) | next slot per host | reserve, wait, send | cancelled waits, redirects, late timers | requests to a host keep their distance |
| Browser sidecar (`browser/server.mjs`) | permits and waiters; Firefox | acquire, open, navigate, read, close, release | awaits that fail outside `try`, in `finally`, or never end | permits are accounted for, the queue starves nobody |
| Linkwarden (`internal/linkwarden`, `internal/web/linkwarden.go`) | shared settings and session, a mutex | configure, log in, list, save, test | pages that share one client; a login under the mutex | a session is used only where it was opened; every page is answered |
| Migrations (`internal/store/migrate.go`) | `schema_migrations` | apply | concurrent starters | not modelled: one advisory lock, a transaction per file |
| Statistics (`internal/store/stats.go`, `handleStats`) | none | counts over the queue tables, a query each | runs write between any two queries of a page | a page adds up when nothing was written meanwhile, and never shows more new articles than there are |
| Templates, address policy, parsing | none | | | not modelled: no state that changes |

Processes interact only through the database: the scheduler and the web server
of one `ziba serve` share the process but the scheduler reads what it needs from
PostgreSQL on every turn, and a `ziba run` beside it is another process
altogether. The one exception is the marker "collection in progress", an atomic
in the store object (`internal/store/store.go`). The hazards that follow from
this are listed, each at its line, in `PROJECT.json`.

## The modules

    Backlog                 what a queue promises (abstract)
      ^ implemented by
    Pipeline                the runner over both queues
      PipelineProofs        its theorems
      MCPipeline            instances for TLC
      Statistics            the statistics page, read beside the runs
      MCStatistics          the instance of MCPipeline with such a page
    ScheduleTimes           instants of a schedule
      ^ extended by
    Scheduler               unattended collection
      SchedulerProofs
      MCScheduler
    Settings                the configuration and who rewrites it
      SettingsProofs
      MCSettings
    Throttle                slots of the polite transport
      ThrottleProofs
    Sidecar                 page permits of the Firefox sidecar
      SidecarProofs
    Mailbox                 the window of a newsletter source
    Collect                 a collection, composed of these three
      CollectProofs         Collect implements Throttle and Sidecar; its mailbox
      MCCollect
    Reading                 judging, selecting, reading, archiving
      ReadingProofs
    Linkwarden              pages that share the Linkwarden client
    Web                     Reading and Linkwarden in one process
      WebProofs             theorems of Linkwarden, and of both together
      MCWeb

### Pipeline

A *worker* is a process executing one command. `cmd[w]` names it: `daily`
(scheduled collection and `ziba run`), `unanalyzed` (the same without a key),
`collect`, `gather` (`ziba collect -no-fetch`) and `process`. `pc[w]` is its
place in `runAll`, `Drain` and the batch functions; `todo`, `finished`,
`results` and `lostRecord` are the locals of the batch in progress. The database
is `rows` (the queue columns of both tables in one function, since the two are
driven by the same statements) and `outcome`.

Every action is one statement, or one implicitly atomic batch, with the
in-memory step around it. `Abort(w)` is a crash, a cancelled context and every
return with an error at once, since none of them undoes a statement: memory is
gone, the database stays.

| Code | Model |
|---|---|
| `Runner.Collect`, per source | `CollectSource`, `CollectFinish` |
| `expandBatch` | `SelectIssues`, `ExpandIssue`, `ExpandFails`, `MarkExpanded` |
| `Hydrate` | `SelectItems`, `SkipItem`, `StoreItem`, `MarkHydrated` |
| `analyzeBatch` | `SelectArticles`, `AnalyzeArticle`, `AnalysisFails`, `RecordLost`, `AnalysesDone`, `SaveAnalysis`, `AnalyzeFinish` |
| queue reads | `Waiting`, `Eligible`, `Chunks` |
| `recordFailure`, settling | `RecordFailure`, `Charged`, `Settled`, `MarkProcessed` |

*Time.* A read compares `last_attempt_at` (written by the clock of the database)
with the moment the drain started (the clock of the process). Only the
comparison matters, so `since[w]` holds the rows attempted since worker `w`
started its drain. `ClockLag` lets the database clock lag behind: a failure may
then be missed by any worker.

*Left open.* Which rows of a queue are the oldest; which of the offered items a
source really offers; where a link lands (`Landing`); when analyses end. All of
these are nondeterministic choices, so an order the code guarantees but the
properties do not need is not modelled.

The history variables `origin`, `attempted` and `target` exist only for the
properties.

### Scheduler and ScheduleTimes

Instants are integers and a day has `Day` of them; time of day and interval are
multiples of one instant. Days on which the clock changes are left out. A server
goes `request` (the UPDATE of `ClaimCollectionRequest`), `claimed` (its
`collectionRunning.Store(true)`), `schedule` (the query, and `PreviousEvery` of
it), `check` (`catchUp`), `working` (the closure of `serve.go` until
`currentRunner` answers), `collecting`, `sleep`. `ReopenSetup` is a request of
the wizard that was slower than its last page and writes `configured=FALSE`, at
any time, also between the claim of a first collection and its start; the user
may then complete the setup again. `failedAt` is when a query or a run last
failed, and `dropped` says that a first collection was lost between its claim
and its start. What a run does to articles is
the subject of `Pipeline`; here it takes any time and ends with a digest or with
an error. `previous` in the code only decides what is logged and is left out.

### Settings

A page request reads the settings, the interests and the sources in three
queries (`ReadSettings`, `ReadInterests`, `ReadSources`), changes one thing in
its copy and saves the whole copy. The transaction of the save is two actions:
its first statement, `DELETE FROM interests` (`BeginSave`), and the rest at its
COMMIT (`CommitSave`). READ COMMITTED is modelled where it shows: interests
inserted by a transaction that commits in between are not deleted, and rows
another save has replaced are gone (`seen`); equal topics then violate UNIQUE
and the save fails. The upserts of sources take row locks, and are taken to
happen at COMMIT: two saves that each add a source the other does not know
could, in the database, both keep it enabled, where the model turns off the
earlier one.

A collection reads the settings, then the sources, then writes the sources back
with SyncSources and reads one enabled source after the other. An interest is
its topic and a source its (type, url) with its `enabled` flag.

The history variables are `possible` (what the database held while a request
read it), `torn`, `wiped`, `off`, `offAtStart`, `overlapped`, `finished` and
`reopened`.

### Statistics

A page is made by queries one after the other, without a transaction
(`ReadTallies`, `ReadArticles`, `ReadBacklogs`), between the statements of runs
(`RunStep`): `Tally` counts items by outcome and kind, `Library` articles,
`Backlogs` both by stage. So the halves of a page may disagree, and
`StatisticsAgree` says how far they may not: if no table was written between its
queries the page adds up (`AddsUp`), and whatever is written, it never shows more
items that "became an article that did not exist before" than articles, because
the items are counted first and an article is saved before its item is marked.

### Collect, with Throttle, Sidecar and Mailbox

Each part has its own state, actions and specification (`ThrottleSpec`,
`SidecarSpec`); `Collect` runs them from `Registry.Run`. A source is *pending*,
*busy* in one of the `Parallel` slots of the group, and then has its *items* or
an *error*.

| Code | Model |
|---|---|
| `reserve`, `RoundTrip` | `Reserve`, `Send`, `Leave` (a wait that ends with its context) |
| `get`, `RSS.Collect` | `GetFeed`, `Redirect`, `FeedArrives`, `FeedFails`, `FeedTimesOut` |
| `BrowserFeed.Fetch` | `PostFetch`, `Unreachable`, `FetchReturns`, `FetchTimesOut` |
| `Semaphore.acquire`, `release` | `Acquire`, `Close` |
| `fetchFeed`, await by await | `OpenContext`, `OpenFails`, `Navigate`, `ReadFeed`, `AwaitChallenge`, `ReadAgain`, `PageFails`, `Stall`, `Close`, `CloseFails` |
| `handle` | `Arrive`, `Refuse`, `Respond`, `Discard` |
| `Newsletter.Collect` | `Connect`, `MailboxReturns`, `ReadMail` with `Window`, `Newest`, `ItemsFromMessage` |
| `Runner.Collect`, `job.New` | `StartRun`, `FinishRun`, `NewClient` |

Times are relative to the present: `due[h]` is `next[h]` of the code minus now.
A request may be sent later than its slot (`late`), since nothing guarantees
when a goroutine runs again; the distance between requests is promised only for
requests sent in their slot, and only by one client, hence within one run.
Deadlines of a request through the sidecar are not counted: they pass at some
time. `lost` counts permits that are never released (`newContext` that rejects
outside the `try`, `context.close` that rejects in the `finally`), and a
*stalled* page is one whose body never ends, which nothing in the code bounds.
The health endpoint of the sidecar looks at neither. The messages of a mailbox
have an age in days; the day the server gives a message may be the one before
the program's, so mail arrives with an age of 0 or 1. A message that is *old* is
dated by its sender before the cutoff of its source: `withinCutoff` keeps only its
provenance (`Kept`). A mailbox that is read may stay silent for ever, *hung*,
since neither a deadline nor the context of the run reaches the IMAP client.

History: `calm`, `hurt` (feeds whose host failed or was slow, or that sent
late), `lost`, `prompt` (readings were closer together than the window) and
`crowded` (a reading found more than `MaxMessages`).

### Reading

Runs go through `StartRun` (a runner is built and keeps its settings),
`TakeArticle`, `SaveAnalysis`, `BeginDigest`, and the statements of
`GenerateDigest`: `Upsert`, `Clear`, `SelectArticles` with its COMMIT. `Stop`
ends a run anywhere and rolls its transaction back. The upsert waits for a
transaction that has written the row of the same date; `cleared` is what the
DELETE saw. The reader opens the digest in two queries (`OpenDigest`,
`ShowDigest`), pages through the archive (`NextPage`) and marks articles
(`SetArchived`). Articles are numbered in the order of the archive,
`collected_at` with its ties.

`Summary` is what `Pipeline.Analyze` does about a summary: spared, not possible
without text, or tried, with or without success. The history variables say what
a property excludes: `again` (an article was analysed a second time, by two
overlapping runs), `loose` (the settings were changed so that they list more when
something had been spared or a run worked, or a run began beside one of a lower
threshold), `turned` (interests changed while the reader paged), and
`picked`, `unread` and `there`, what a page is compared with.

### Linkwarden and Web

A page reads the settings, configures the client (`Configure`), and makes its
requests one after the other: each needs `Credentials`, which answers from the
token or the session or logs in while it holds the mutex (`BeginLogin`,
`LoggedIn`, `LoginFails`), and is then on its way without the mutex. `via`
records which configuration gave a request its token and its address.
`disturbed` says that another page has configured the client differently since
this one did. Then, and only then, a request can reach an instance other than
the one the page read from the settings; the pages have no way to notice.

A test that fails leaves the client with settings that were never saved; since
every page configures the client first, nothing uses them. A session the
instance has revoked is never cleared: requests fail until the settings change.

`Web` puts both in one process. They share no variable, so TLC takes them one at
a time (`part`).

## What is checked

| Run | Instance | Properties |
|---|---|---|
| `PipelineOne` | one process, all five commands; an issue with one link, a post at an address the link may reach too, an item too old, a newsletter; chunks of two; a reader of the statistics page; two attempts; two faults | `TypeOK`, `StatisticsAgree`, `DrainComplete`, `NothingLost`, `StoredIsCreator`, `DuplicateWasKnown`, `ImplementsBacklog` |
| `PipelineTwo` | two processes, `daily` and `process`; an issue and its link; chunks of one; two attempts; one fault | `AttemptedOnce`, `DrainComplete`, `NothingLost`, `SettledNotGivenUp`, `ImplementsBacklog` |
| `PipelineLive` | one process, all commands, chunks of one, two faults, lagging clock, fairness | `EverythingSettles`, `ImplementsFairBacklog` |
| `SchedulerOne` | one server, a day of three instants and the midnight after it; one change of the schedule, digest by hand or reopening of the setup; one request, one crash, one error; fairness | `TypeOK`, `MarkerMatches`, `Refreshed`, `FirstCollectionMade` |
| `SchedulerTwo` | two servers, two instants; one change, two requests, one crash | `ClaimedOnce`, `NoReplay` |
| `Settings` | two tabs, one collecting process, two interests, two sources, three requests, two collections | `TypeOK`, `ReadyToRun`, `SetupIsFinal`, `DraftsOwnNothing`, `TurnedOffStaysOff` |
| `Collect` | three feeds of one host (interval 1, deadline 5, one redirect each), or two feeds through a sidecar of one permit that holds three requests, or a mailbox, alone or beside a feed, with two messages, a window of two days and one message per reading; two sources at a time; fairness | `TypeOK`, `PermitsAccounted`, `NoIdlePermit`, `NoMailMissed`, `HealthyIsCollected`, `Polite`, `QueuedIsServed`, `CollectionEnds` |
| `Web` | two runs, two articles (one without text), two settings, one of which lists less in every way, one click and one change of the settings, pages of one article; or two pages, three configurations, one with a token, two pages of tags; fairness of the handlers | `TypeOK`, `OneSelection`, `NoneSkipped`, `SummaryShown`, `SentWhereMeant`, `PageAnswered` |

Four runs show where the program does not do what it says:

| Run | Property violated | What happens |
|---|---|---|
| `PipelineRetrieval` | `RetrievalRetries` | README: "Temporary processing failures retry automatically". A page that could not be fetched is stored with its excerpt and its item is settled in the same chunk; nothing fetches it again. |
| `SchedulerNextRun` | `NextRunShown` | Before the time of day the schedule is anchored at, the pages announce that time, while runs of yesterday's cycle still happen (`6h` at `20:00`, seen at 01:00: announced 20:00, runs at 02:00). |
| `SettingsTurnedOff` | `TurnedOffNotCollected` | README: "Turning off collection for a source stops future collection". A collection that began before writes its snapshot back and turns the source on again. |
| `SettingsSnapshot` | `ConsistentSnapshot` | "Configuration returns one consistent snapshot": its three queries see what is saved in between. |

Properties of one tab at a time (`SetupIsFinal`, `DraftsOwnNothing`,
`TurnedOffStaysOff`) say so with `~overlapped`: when two page requests overlap,
a wizard page that was slow can write `configured = FALSE` after the setup was
completed, and drafts that have collected can then be deleted. `ReadyToRun`
holds under any overlap until that happens (`~reopened`). After it, a page of
Settings that passed its gate before may find an empty list in its copy, which
`saveConfiguration` does not look at, and complete the setup again without an
interest or without a source: with four page requests the model gets there, and
collections then fail for want of a source, or judge articles against no
interest, until one is added. `DuplicateWasKnown` is checked for one process
without faults: a crash between `SaveArticle` and
the mark makes an item find its own article, which is then called a duplicate.

Three more statements of the repository do not hold as written. They have no run
of their own: a property above excepts each of them by name.

- newsletter.go:72-73, "a delayed delivery or a wrong clock cannot hide mail". The
  search does not hide it, but the cutoff of the source looks at the date the
  sender claims: an essay or the links of a message dated before the cutoff never
  become items (`Kept` in `NoMailMissed`).
- job.go:29-31, a timeout "short enough that one bad source does not stall the
  run". It covers requests over HTTP; a mail server that falls silent does stall
  it (`Hung` in `CollectionEnds`).
- pipeline.go, of a declared source below the threshold, "leaving it out would put
  an article on the page with nothing to read beneath it": lowering the threshold,
  or turning a source's categories on, does (`loose` in `SummaryShown`).

Deadlock is checked in `Collect`, where collections follow each other without
end. It is not in the others: the bounds on requests, faults and time make those
models stop in the end, and the program itself idles when there is nothing to do.

### Bounds

`MaxFaults`, `MaxRuns`, `MaxRequests`, `MaxChanges`, `MaxAsks`, `MaxCrashes`,
`MaxErrors` and `Horizon` bound what may happen, not what is done about it.
`PipelineOne` takes chunks of two, so chunks are empty, partly filled and full,
and the mutation that takes a chunk that is not full for the end of a queue is
caught; the other instances take chunks of one, where every queue needs several.
Two attempts (`MaxFailures = 2`; the code has `maxRetries + 1`, four) are the
fewest with a failure that is not the last. One fault is enough for a crash
between any two statements; two show that a crash during the recovery of another
loses nothing either. Days of three instants with the schedules "every 2 from
0", "every 1 from 2" and "off" have an interval that does not divide the day, a
cycle that goes on after midnight, and none at all. Two tabs and one collection
are the smallest overlap of each kind.

`Collect` takes the three kinds of source one at a time, and a feed beside the
mailbox (`MCPlans`): they share nothing but the slots of the group, and
`Parallel` below the number of sources makes feeds wait for one. Mail comes
only in the plan of the mailbox alone (`MailPlans`); beside a feed its point is
that it may never answer. Three feeds that wait for one host, one redirect each
(`MaxHops`; Go follows ten), are the fewest with a slot wasted between two
others; the deadline is the shortest within which a healthy feed is always
collected with two at a time and not with three. With ten redirects on a host
that other requests contend for, the deadline of 30 seconds could pass. One
permit and three requests leave a queue of two; one client that gave up and two
that wait are all a handover can go wrong with. Two messages and `MaxMessages`
of one make a reading crowded.

In `Web` a day is one step and the horizon one day, so the window of a digest and
its date change together, and two runs may refresh the same date or different
ones. Two pages of Linkwarden suffice for each hazard of the shared client: one
in flight, one that configures it.

### Fairness

`PipelineLive`: a command that runs goes on (`WF` of `Step`), since model calls,
statements and requests over HTTP have timeouts; its only source is a feed. With
a mailbox among the sources it would have to be assumed of the mail server,
which the code gives no deadline: while that is silent, nothing settles. The
scheduler starts a complete run again and again (`SF` of `StartCommand(w,
"daily")`, strong because commands run by hand may take its place in between).
Faults are bounded, so in the end runs complete. `SchedulerOne`: time passes,
the loop of the scheduler goes on, runs end, and the container is restarted when
it died. That runs end assumes of a mail server that it answers (see `Collect`).

`Collect`: clocks and goroutines run, deadlines of clients fire (`httpTimeout`,
`browserTimeout`), and the process of the sidecar goes on with every request
whose next await ends; that a body ever ends is not assumed (`Stall` is a step
the process may take at any time, and no fairness takes a page out of it). No
host is trusted to answer, and no mail server: the code gives IMAP no deadline and
does not pass it the context. A mail server that accepts a connection and says
nothing therefore hangs a collection for ever, and the scheduler with it. That is
what `CollectionEnds` allows (`Hung`) and nothing else: all other sources of the
collection have returned by then. It has one mailbox; as many silent ones as the
group has places would keep the other sources from being read at all.

`Web`: handlers run, and each call of Linkwarden ends, at the latest with the 15
seconds of its client. Taking the mutex is `SF`: others take it in between, but
`sync.Mutex` hands it over to one that has waited.

## What is proved

### The pipeline

`PipelineProofs` proves, for every number of workers, items and addresses, every
feed, chunk size, limit of attempts and number of faults, with or without
`ClockLag`, from `DataAssumption` and `BoundsAssumption`:

- `TypeCorrect`: `Spec => []TypeOK`.
- `NothingIsLost`: `Spec => []NothingLost`.
- `StoredNamesCreator`: `Spec => []StoredIsCreator`.
- `DrainIsComplete`: `Spec => []DrainComplete`.
- `AttemptsAreOnce`: `~ClockLag` implies `Spec => []AttemptedOnce`. Without the
  assumption it is false: a failure that is dated before the start of the drain
  is taken again by the same drain.
- `PipelineImplementsBacklog`: `Spec => ImplementsBacklog`, the refinement of the
  abstract queue without its fairness.
- `SettledIsNotGivenUp`: `Spec => []SettledNotGivenUp` for no more workers than
  attempts (`Cardinality(Workers) <= MaxFailures`; the code allows four
  attempts). With more it is false: each can add a failure to a settled row.
- `AttemptsAreLimited`: the failures of a row stay below
  `MaxFailures + Cardinality(Workers)`. The bound is reached: each process but
  the one that gave the row up may have had an attempt of it under way.
- `PageAgrees`: `StatsSpec => StatisticsAgree`, of pages read in separate queries.
- `DuplicatesWereKnown`: `Spec => []DuplicateWasKnown` for one worker. The
  property excludes interruptions itself. Of two processes with the same item in
  their chunk, one inserts its article and the other finds it there.

`NothingLost` is not inductive. An item is marked from `finished[w]`, a local,
and the database is what was written some steps earlier, with any number of
statements of other processes in between. `SavedBeforeMarked` closes the gap: of
every item a worker has finished and not yet marked, what it became is already
in the database. It is kept because rows are never deleted (`StoredForever`) and
`finished` is emptied by `MarkProcessed` and by every end of a command.
`StoredNamesCreator` goes the same way with `CreatorKnown`, and needs that the
`origin` of a stored address never changes. The four together are `SavedInv`.

The other two need to know what a worker holds in each stage (`MemoryShape`),
and that a step of one worker leaves the memory of the others alone, except that
it may make rows too recent for them (`OthersUntouched`). Then one worker at a
time is enough:

- `Owes(w)`: once a worker is past a stage, nothing it owes waits in the queue
  of that stage. Empty chunks come only from empty queues (`EmptyChunk`), rows
  that the worker adds belong to later stages, and what is handled stays handled
  (`HandledStep`): settled rows are not reopened (`DoneForever`), and a row given
  up has used all its attempts (`FailedIsExhausted`), so that one more failure
  of a slower process does not bring it back.
- `Once(w)`: of every row a worker attempted, something keeps it from being
  selected again (`Remembered`): it is settled, its failure is dated, or its
  outcome is still in memory, in which case the worker is in no stage that
  selects.

*The abstract queue.* Each of the statements is shown to be a step or a stutter
of `Backlog` under the mapping `StatusOf`, `ChargesOf`. That needs that a row is
given up exactly when its attempts are used up (`RowInv`), and that workers hold
only rows that are stored (`Held`); the late failure of a settled or given-up row
is then a stutter, and every other one is a charge.

*Late failures.* The processes that still have a row in their chunk (`Holders`)
are the only ones that can charge it once it is settled or given up, and each
gives it out of its hands when it does (`HoldersDwindle`). So the failures of a
settled row and its holders together stay below the number of workers
(`LateFailuresBounded`), and those of a row given up below the limit of attempts
plus that number (`LimitKept`).

*Statistics.* The items are divided by outcome and by stage, and at one moment the
two divisions count the same sets (`PageAddsUp`). `OutcomeInv` says why: an item
has an outcome exactly when it is done, and only kinds that can have an outcome
get it. `PageInv` carries this over the queries of a page: until a table is
written, what was counted first still holds. The items that became articles are
compared with the articles through `SavedInv`, and since the articles only grow
(`StoredGrows`) the second count may come later than the first.

### The transport and the sidecar

`ThrottleProofs` (from `ThrottleAssumption`) proves `Polite`, an action property:
a request sent in its slot finds its host calm for at least the interval. The
inductive invariant relates the slots that are waited for, the next free slot
and the last request: slots of one host are an interval apart (`SlotsApart`),
the next free one is an interval after all of them (`BehindSlots`), and all of
them are an interval after the last request (`CalmBeforeSlots`,
`CalmBeforeDue`). Late requests drop out of it, and so break no other's slot.

`SidecarProofs` (from `SidecarAssumption`) proves `PermitsAccounted` and
`NoIdlePermit` together, since neither is inductive alone: a permit is handed to
the head of the queue without being counted, which keeps the sum only if that
request held none, and it held none because exactly the queued requests wait,
once each.

### The collection

`CollectProofs` (from `CollectAssumption`, `MailboxAssumption` and those of the
parts) shows that a collection implements both: every step of `Collect` is a step
or a stutter of `ThrottleSpec` and of `SidecarSpec` (`CollectUsesThrottle`,
`CollectUsesSidecar`), from which `CollectIsPolite` and `CollectKeepsPermits`
follow for any set of sources, and with the mailbox `CollectTypeCorrect`.

`NoMailMissedHolds` proves `NoMailMissed` for any look-back, limit and number of
messages: that of mail the source accepts by the date its sender claims.
`NotYetDue` carries it: as long as the window has exceeded every gap, a message
still to be collected is no older than the gap since the last reading, give or
take the day by which the clocks differ.

`HealthyIsCollected` depends on numbers, and is proved under two hypotheses,
either of which is enough:

- `HealthyIsCollectedHolds`, under `SlotsFit`: the slots that all feeds may claim
  in a run, `MaxHops + 1` each, fit into the deadline of one. The invariant
  (`WaitsForSlots`) says that what a feed has waited and what lies before it are
  slots that have been claimed, and counts these (`Claimed`).
- `HealthyAmongMany`, under `GroupFits`: for each request a feed may make, the
  deadline covers two intervals for every place of the group. With the values of
  the code (4 places, 1 second, 30 seconds) a feed may then follow two redirects,
  however many feeds share a host. Before the next free slot of a host lie slots
  of feeds only (`SlotsHeld`): of those under way, at most one for each place,
  and those left behind by feeds whose deadline passed while they waited. For the
  latter the invariant has to remember more than the state does, which is why it
  quantifies over `gone`, the slots left behind. There are few of them
  (`FewBehind`): a feed leaves a slot only after it has held its place in the
  group for the whole deadline, and by then a slot left before it has passed.

The run `Collect` takes the deadline one below what `SlotsFit` asks for its three
feeds, where it is the group of two that keeps the queue short; with five feeds
of one redirect each and two places, the model needs a deadline of six and
`GroupFits` asks for nine.

### Reading and Linkwarden

`ReadingProofs` (from `ReadingAssumption`) proves `OneSelection` and
`SummaryShown`. The first needs that a transaction that has deleted the rows of
a digest deleted all of them, and that no two transactions write one date
(`Exclusive`); and that the page being loaded may list whatever is not archived
(`Loading`). The second is about settings that change between the moment an
article is judged and the moment it is listed. Runs keep the threshold they began
with, so the one in use may be higher, but not lower, and those that work side by
side have the same (`OneThreshold`); an article taken as not declared is not
declared now (`TakenUndeclared`); so what was spared its summary is below the
threshold in use and below that of every run at work, and is not declared
(`SparedLeftOut`). Digests list analysed articles only (`Selected`). What breaks
each of the three is what `loose` names, and none of it is far-fetched: lowering
the threshold puts articles on the pages that were judged too low for a summary.

`NoneSkippedHolds` proves `NoneSkipped` for any length of page. The invariant
(`Ahead`) says that of the articles that were there at the start, those the
reader has not seen are on the pages to come. It is kept because articles that
are added move the others to later pages only (`LaterPages`), and the reader
does not stop early because a page that is followed by another one is full
(`FullPages`). That an article leaves the archive is what `turned` and `again`
exclude.

`WebProofs` (from `LinkwardenAssumption`) proves `SentWhereMeant` from two facts:
a session never outlives the configuration that opened it (`SessionFits`), and
the client keeps the configuration a page has given it until another page
disturbs it (`AsRead`). It shows that the process of `Web` implements both
`ReadingSpec` and `LinkwardenSpec`, so that `WebTypeCorrect` and
`WebKeepsPromises` hold of the specification the run `Web` checks.

### The scheduler

`SchedulerProofs` (from `DayAssumption` and `SchedulesAssumption`) proves
`TypeOK`, `ClaimedOnce`, `NoReplay` and `MarkerMatches` for any number of
servers, any schedules, any length of the day and any horizon. `NoReplay` speaks
of one stage of the loop only. The invariant (`Shape`) says of every stage that
what was handled is the occurrence of the run in progress or not after
`lastOccurrence`, and that an occurrence is looked at only when it is after
`lastOccurrence`. That an occurrence is a time of the model at all rests on
`PreviousIsLatest`: what `PreviousEvery` chooses exists, is in the cycle the
present is in, is not after the present, and nothing of the cycle lies between.

Two theorems say how far the announced run can be trusted. `NextIsEarliest`:
`NextEvery` is the first occurrence after the present of the cycles of today and
tomorrow. `NextRunIsRight`: from the time of day at which the schedule is
anchored until midnight, no run happens before the announced one, for any time
of day and any interval. Before the time of day that is false, which is what the
run `SchedulerNextRun` shows.

### The settings

`SettingsProofs` (from `SettingsAssumption`) proves all the safety properties of
the run `Settings`, for any number of tabs, collecting processes, interests,
sources, requests and collections.

- `ReadyToRun`: a page of Settings saves `configured = TRUE` without looking at
  what it saves, so the invariant has to say what its copy holds. Its gate saw
  that setup was complete; until a wizard's save undoes it, the database has an
  interest and a source at every later moment, therefore also when the copy was
  made (`Copied`), and what handlers do to the copy leaves both (`MaySubmit`,
  `JobFits`). Saves of other tabs in between do not matter, except the one that
  sets `reopened`.
- `SetupIsFinal` and `DraftsOwnNothing`: without overlaps the one request in
  progress is where the gate let it (`OneAtATime`), and before setup is complete
  nothing is collected (`BeforeSetup`).
- `TurnedOffStaysOff`: of a source that is off for the database or for a
  collection in progress (`IsOff`), nobody holds a copy in which it is on, but
  the request about to turn it on (`StaysOff`). `off` alone is not enough: it
  forgets when the user turns a source off twice.

### Only model-checked

Every invariant and every safety property of a step that a passing run checks is
stated by a theorem. Left to TLC are the properties under fairness:
`EverythingSettles`, `Refreshed`, `FirstCollectionMade`, `QueuedIsServed`,
`CollectionEnds`, `PageAnswered`, and of `ImplementsFairBacklog` the fairness of
the abstract queue. They need `ENABLED` of the actions that are taken fairly and
an induction over what is left to do, and the prover has neither. The four
properties that do not hold are TLC's by nature.

Theorems with a hypothesis are weaker than what a run of more processes would
ask: `SettledIsNotGivenUp` and `DuplicatesWereKnown` say so because the property
is false otherwise, `HealthyIsCollectedHolds` and `HealthyAmongMany` because the
bound they prove is not the sharpest.

## Not modelled

- Migrations: a session-level advisory lock around everything and a transaction
  per file, with its row of `schema_migrations`; what remains to go wrong is the
  database's.
- The address policy (`safe_transport.go`, `public-url.mjs`, `safe-proxy.mjs`),
  process configuration, templates, presets, fixtures: filters and rendering
  without state. In `Sidecar` an address that is refused is an error like
  others.
- Parsing of feeds, mail, pages and forms; prompts, wire formats and the journal
  of the model providers. Their results are choices.
- Corrections of scores: no query that selects articles reads them, and
  restoring provider scores changes no row the program of this version wrote.
- The pages by interest and by day. The first is cut by OFFSET from a list that
  archiving shortens, so it may skip an article between two pages; nothing in
  the repository promises otherwise.
- Token counts, the grouping of the statistics by day, and the oldest row.
- In `Reading`, that a collection writes the categories of a source back as it
  read them: that is a snapshot written back, the subject of `Settings`.
- Two processes share no transport and no Linkwarden client: what `Throttle` and
  `Linkwarden` promise holds within each.

## Plan

1. Proofs that are left: a sharper deadline for `HealthyIsCollected`, and the
   numbers behind the liveness properties (how many statements a drain can take,
   how long a queue for a permit can be).
2. The pages by interest and by day, with the moment an article is archived.
3. The rest of the library's statistics (`Store.Articles`: shown, hidden, above
   the threshold) over `Reading`.

## Running

    tlc -config PipelineTwo.cfg MCPipeline.tla     # and so on, a cfg per run;
    tlc -config PipelineOne.cfg MCStatistics.tla   # this one with the page
    tlapm PipelineProofs.tla                       # and the other proof modules
