# A TLA+ model of fflogs_check

fflogs_check is a small web service for players of Final Fantasy XIV. A browser
opens a websocket and sends the name of a character; the service fetches the
character's combat logs from FFLogs, analyses them and sends back an HTML page.
Analyses are expensive, so they run one at a time behind a queue, and nearly
everything that was fetched or rendered is kept in a file cache.

This directory holds TLA+ modules for the parts of the service where several
goroutines, a network and a file system meet, TLC configurations that check
them on small instances, and TLAPS proofs of the most important properties for
every instance. Paths below are relative to the repository; `http.go` and
`queue.go` are those of `analysis/analysispool`.

## 1. The system

| Part | Code | State it keeps | What it does |
|---|---|---|---|
| Request handlers | `analysis.go`, `http.go` | one goroutine and one `queueData` per websocket | confirm the reCAPTCHA token, read the request, answer from the cache or join the queue, tell the place, wait for the result, save and send the page, close |
| Analysis queue and worker | `queue.go` | `queue`, `queueLock`, `queueWake`; per request `ctx`, `chanResult`, `msgLock` | one worker takes requests in order, runs the analysis, reports the result; goroutines tell the others their new place |
| Page buffers | `http.go` (`bufPool`) | pooled `bytes.Buffer`s | the analysis renders into the buffer of its request |
| File cache | `cache/cache.go`, `cache/hash.go` | a directory tree of gzip files, `savingMap`, `cleanUpLock` | save and load by 64-bit key, expire old files, drop everything when the code changed |
| Worker pool | `share/parallel/parallel.go` | a channel of worker tokens, a wait group, the last error | run the batches of one fetch on at most N goroutines |
| FFLogs client | `analysis/client.go` | the answer it decodes into | one GraphQL call with up to three tries, bound to the context only |
| Perfection analysis | `analysis/perfection` | `analysisInstance`: reports, fights, statistics | fetch the rankings, then the fights, then the events of each fight, in batches with retries and a cache; compute statistics |
| HPS analysis | `analysis/hps` | the rankings of healer pairs | the same with one fetch; a progress pump goroutine |
| Browser client | `public/static/common.js` | what the page shows, `ok` | show the place, the progress and the page |
| Options | `analysis/option.go` | none | validate and hash a request |
| Game data, templates, OAuth, start-up | `ffxiv`, `share`, `analysis/oauth`, `main.go` | tables read at start-up | |

The parts interact through shared memory under `queueLock`, through the
one-place channels `queueWake` and `chanResult`, through the context of each
request, which any failed write cancels, through the buffer that a `queueData`
points to, and through the files of the cache. The hard behaviour is in the
order of these: who tells what to a client last, whether the worker can miss a
request or wait for a handler that is gone, which request a pooled buffer
belongs to, what a load sees of a file that is being written.

What makes each part correct:

- **Handlers, queue and worker.** The worker never sleeps through a request and
  is never blocked by one. No client that is there has its request cancelled or
  is left without an outcome. A place that is shown is never better than the real
  one. The close frame is written when the worker and the queue have let go of the
  request; places and late reports that are still on their way may come beside it.
  Requests are served first come, first served, and every handler ends.
- **Page buffers.** What a browser gets, and what the cache keeps of a request, has
  the page of that request in it, although buffers are pooled. Two things may be
  with it: the start of the cache file of the same key, if a load broke off in it,
  and the page of an analysis that outlived its handler and rendered into a buffer
  another request has by then. The second takes a failed connection of the other.
- **File cache.** A load returns one save, not an old one, or nothing; only a `Load`
  that a save overtakes may return a mix of two, since it does not read the checksum;
  a writer keeps its file until it closes it; a broken file is explained by a
  crash or by an error of Close; the cleaner gets its turn.
- **Code-hash guard.** No version of the program serves files of another.
- **Worker pool and rounds.** Tokens and counts are kept; nothing outlives a
  round; scan and goroutines never meet at an entry; the result is what happened.
- **FFLogs client.** A call hands over one answer or none, is not repeated once it
  was answered, and ends when its context does.
- **Fight and event fetch.** Statistics are those of the character; the events
  of a fight are complete and unrepeated or the fight is left out; FFLogs is not
  asked without end; a fetch ends.
- **Perfection statistics.** Every use of a skill or a potion counts once; a score
  is full when, and only when, nothing was left unused; a fight that is missing does
  not end the program.
- **HPS page.** It counts a fight at most as often as it is listed, and lacks one only for
  a reason, although pairs come from a cache that all characters share.
- **Progress.** Nobody sends into a closed channel and no report blocks an
  analysis for good.

## 2. Modules

| Module | Models | Composes |
|---|---|---|
| `Dispatch` | what the queue promises: submit, take, release | |
| `AnalysisQueue` | `Do`, `queueWorker`, `Reorder`, `Start`, `Progress`, `Succ`, `Error`, the browser's message handler | implements `Dispatch` |
| `ResultPages` | `bufPool`, the page cache as a request sees it, the page each browser gets | extends `AnalysisQueue` |
| `ParallelPool` | `parallel.Pool` | |
| `GraphQLCall` | `CallGraphQL`, for any number of goroutines at a time | |
| `PoolCalls` | a pool whose tasks are calls to FFLogs | extends `ParallelPool`, an instance of `GraphQLCall` |
| `FetchRounds` | the rounds of `updateFights`, `updateEvents`, `getFightRankings` | an instance of `ParallelPool` |
| `EventPages` | how `updateEvents` gets one fight page by page, over several analyses and the cache between them | |
| `PerfectionReport` | one perfection analysis after the other: the fights that are listed, the player in each, the uses that count, the scores, and the lookup that may end the program | |
| `HpsRankings` | one hps analysis after the other: what is loaded, asked for, kept and shown | |
| `ProgressPump` | the progress channel, the pump goroutine and the end of `doStat` and of `doInner` | |
| `Storage` | `Save`, `SaveRaw`, `Load`, `LoadRaw` and the cleaner on one key | |
| `CacheVersion` | `cleanUpWithHash` and what the cache does meanwhile | |

`MC<Module>` gives a module the constants TLC needs; `<Module>Proofs` holds its
theorems. Four proof modules have names of their own: `RequestProofs` covers
`AnalysisQueue` and `ResultPages`, `AnalysisProofs` covers `ProgressPump` and
`HpsRankings`, `ReportProofs` covers `PerfectionReport`, `CacheProofs` covers
`Storage` and `CacheVersion`. Definitions marked `fault` are wrong versions of the
definition after them: they stand for a bug in the code, and `PROJECT.json` lists for each
property one that TLC finds with it. The specifications never use them.
`PROJECT.json` also gives the lines each definition stands for.

### State and steps

An action is what one goroutine does between two points at which another could
see or change what it touches: a locked section, a channel operation, a write to
the connection, an operation of the file system. The variables follow the code:

- `AnalysisQueue`: `queue`, `queueWake` and `order` are the variables of
  `queue.go` and `queueData`; `chanResult[c]` is the one-place channel; `hpc[c]`
  and `wpc`/`wq`/`res` say where handler and worker are and what the worker
  holds; `cancelled[c]` is the context; `link[c]` the connection; `reorders` the
  places that goroutines have still to tell; `stragglers[c]` progress that may
  still come after a failed hps analysis; `screen[c]` and `ok[c]` what the
  browser shows. A failed write cancels the context, as `writeMessage` does.
- `ResultPages` adds `bufOf[c]` (`qd.buf`), the pool's `free` buffers, the
  `content` of each, the cached pages `saved` and which of them are broken
  (`torn`), and `page[c]`. Each of its actions is one of `AnalysisQueue` with
  what it does to pages, or `Expire`; that every behaviour of `ResultPages` is
  one of `AnalysisQueue` is a theorem. Two history variables say what went wrong:
  `mixed` has the analyses that rendered into the buffer of another request, with
  the key of that one, `partly` the keys of which a load left a part in a buffer.
- `ParallelPool` has the tokens, the wait group, and the set of tasks at each
  point of the goroutine that `Do` starts. `FetchRounds` adds the scan (`next`,
  `query`, `qCount`), the batches, and `retries` and `open` per entry.
- `GraphQLCall` has per caller the try, the answers that were decoded, and whether
  parts of a broken one are left. Its `ctxDone` is a variable that others write; in
  `PoolCalls` it is the pool's context, and a task's `Return` its result.
- `PerfectionReport` takes the rounds and pages of the other modules for granted: a
  report is answered or null, the events of a fight are whole or null. What FFLogs
  has is `world`: the party of each fight, its log, and the rankings of each name. An
  answer whose actors are null has no fight with a player. A potion is in the log as the buff events that FFLogs would have of it. `source`,
  `summary` and `finished` are `SourceID`, `DoneSummary` and `DoneEvents`; a fight
  object is a fight and the number of its listing, since only the last stays in
  `inst.Fights`. `stat` has a cell for each job, encounter, and job in an encounter.
  `Charges` is what `setDefaultCharge` is called with, `ChargesOf` the charges that
  the comments beside these calls name; only the property uses the second.
- `HpsRankings` has the bag of pairs (`list`) and the fights whose pair is cached;
  each round asks for all open reports, and each is answered, null, left out,
  skipped or lost by itself. `unanswered` and `missed` are history variables.
- `EventPages` counts pages: `start` is the `startTime` of each part, `Key` the
  cache key made of them, an answer the set of parts that are not null in it.
- `Storage` splits a file into pieces on an inode, so that a reader and a writer
  can have the same file open, a path can lead to another file than a descriptor,
  and a crash can leave a part of a file. A load that meets pieces of two saves fails,
  or goes on and returns the mix if it is a `Load`; `seen` and `since` are histories,
  the saves there were when it found the key free and the last that was complete when
  it began.
- `CacheVersion` has the hash file, and for each key the version that wrote its
  file. `visited` is how far `os.RemoveAll` got, in any order.

## 3. What is checked

| Run | Instance | Distinct states | Shows |
|---|---|---|---|
| `queue` | 2 clients, both links may fail, one hps request | 195,338 | all of the first item above, the refinement of `Dispatch` with its fairness |
| `pages` | 2 requests, 2 keys, 2 buffers, one client may go away, one fragile file | 329,970 | pages have their own key, what else is in them is explained; buffers stay apart |
| `events` | 4 parts with 3, 2, 1 and 1 pages; faults or null parts | 214,086 | exact events, bounded calls, no second fetch, the analysis ends |
| `events_replay` | the same, one table may be null | 798 until then | **violated**: the analysis ends |
| `pool` | 3 calls with 3 tries each, 2 workers | 65,000 | tokens, one answer per call, `Wait` with and without an answer from FFLogs |
| `rounds` | 3 entries, batches of 2, one entry of two pages | 27,736 | owners, joins, results, end |
| `report` | 3 fights, 2 reports, 2 encounters, 2 characters, 3 jobs, 5 skills | 738,764 | the player that is chosen, uses, scores |
| `report_player` | one fight, every party of up to 3 | about 7,700 until then | **violated**: a player found by its job is alone with it |
| `report_crash` | the same | about 18,000 until then | **violated**: an analysis does not end the program |
| `hps` | 3 fights, 2 reports, 3 characters, 4 rounds | 1,954,677 | what the page counts and lacks |
| `cache` | 2 goroutines, 2 saves, 1 fault, 1 crash; and 3 versions, 2 keys | 276,413 | fresh loads, broken files explained, operations and cleaner end; no stale files, no needless emptying |
| `pump` | 3 goroutines, both analyses | 5,434 | closing, late reports, end |

`MCFileCache` runs the two modules of the cache one after the other, each in the
behaviours that begin with it, since they share the package and nothing else.

The three violated runs are disagreements with comments of the code:

- `events_replay`. The loop over the cached pages (`fflogs_3_event.go:298-317`)
  leaves on a missing file or a finished fight. The key of a file is made of the
  page starts. An answer with a null part does not move that part on; when it has
  no further pages of the others either, the next key is the same file, and the
  loop replays it without end, does not look at the context, and keeps the only
  worker. The comment at `:387` says that what is not completed fails.
- `report_crash`. A fight without the player is left out: "it cannot be helped"
  (`fflogs_2_fight.go:132`). An encounter has an entry in the statistics only if one
  of its fights was finished, but `fflogs_4_statistics_calc_rank.go:31` looks up
  every encounter with a ranking, through a nil pointer if it has none. Nothing
  recovers the panic, so it ends the program and every request in the queue. The
  same happens to a character with rankings as a healer only.

- `report_player`. When nobody has the name of the character, "if no job is doubled,
  the search by job is possible" (`fflogs_2_fight.go:117`), and `:122` notes where a
  second player with the job is met. It sets `sourceId` back to 0 and leaves the inner
  loop only, so a third player with the job is taken for the character, as is every
  odd one. The passing `NamedPlayerFirst` says what the code does keep to: the name
  comes before the job, whoever's analysis cached the answer, and nobody is left out
  who has the name or is alone with the job.

Five things the passing runs allow, because the code does them:

- The page of an hps analysis whose client has left may be incomplete, and is cached
  (`NothingIsLeftOut`).
- A fight that is listed twice counts twice when its pair is cached and once when it
  is not: `CountedAsListed` bounds the count from above.
- A page may have a stray page or the start of a broken file with it
  (`PagesExplained`, which says whose and when).
- A `Load` returns a mix of two saves if a save truncates the file while it reads and
  the decoder does not notice (`LoadIsFresh`). The modules of the analyses take what a
  `Load` returns as one answer.
- A skill may be counted with one charge more than it has. `setDefaultCharge` adds
  its number to what one charge allows. With 2 for the monk's "3회" (three charges) the
  maximum is right; with 2 for the skills marked "2회" it is one use more than is
  possible, and a score of 100 is out of reach
  (`fflogs_4_statistics_fight_recalc.go:73`, `:85`, `:97`, `:98`, `:106`, `:118`,
  `:119`, `:152`). `ScoreMeasuresUse` counts what is possible by itself, from
  `ChargesOf` and the moments at which a cooldown ends. That a full score is earned it
  says of every skill, that what was used to the full has one only if each of the
  skills is counted right. The instance has a skill of either kind.

### Bounds, and why they are enough

- *Clients.* Two make every race between a handler and the worker, and every
  meeting of two requests in queue, worker and buffers. What three would add,
  places told out of order over several shifts, is covered by the proofs, which
  hold for any set of clients.
- `Fragile`: clients whose link may fail. `Stragglers` is 2, which the `pump`
  run, and a theorem, show to be the most a failed hps analysis leaves behind.
- `DiskFaults`: keys whose files may break. One suffices next to one that is
  sound: pages meet in buffers, not on the disk.
- `Worlds` of `EventPages`: either files fail (twice at most) or parts of answers
  are null. With both at once a page of one part can come twice, once from a file
  that was saved with another part null and once from FFLogs; this is a second
  consequence of the replay above, listed as a hazard, and
  has no run: `EventsExact` says nothing of it.
- Surplus pages in `EventPages`: a replay may add a page again and again; `got`
  keeps one or two more than there are, which is enough to be wrong.
- `MaxSaves`, `MaxFaults`, `MaxCrashes` of `Storage`: two saves tell an old
  content from a new one and let them mix; one fault and one crash hit any step.
  Two goroutines: a save that finds another one running is dropped, and loads do
  not disturb each other, so a third adds a reader or a dropped save at most. Two
  inodes are as many as two goroutines and the path can hold when a file is created.
- *Parties* of up to 3 in `PerfectionReport`: the third player of a job is the first
  one that behaves differently. Its `Worlds` are three families, each of which
  varies one thing: the party, the listings, or the log, the last for each of three
  jobs: with a skill of three charges, with one of two, and with two skills that
  share a cooldown. They meet in no definition
  but `Tally`, where the listings vary with full and poor logs. Potions are drunk
  before the fight, at its start and at its end, and again as soon as they can be.
- `Listings` of `HpsRankings`: up to twice each, which is enough for a fight to count
  too often; the third fight, alone in its report, at most once.
- `MaxCalls`: reports of the main goroutine in `ProgressPump`; two
  fill the channel and wait behind it.
- `Answers`, `BatchSize`, `MaxTries`: two batches, one of which is not full, and
  an entry whose retries are renewed. The code's 50, 25 and 21 entries, and four
  tries of the rankings instead of three, are other values of the constants.

### Fairness

- Handlers and pings (`HandlersRun`): goroutines are scheduled and tickers fire.
- The ticker that pings is what finds out that a link is dead: `Start` and `Progress`
  (`queue.go:149-175`) set no deadline for their writes and have that of the last
  ping or message, five seconds each. A write that fails for a stale deadline is one of `LinkFails`.
- The worker is *not* assumed to go on. `CallGraphQL` has no time limit, and
  `events_replay` shows an analysis that never ends. Properties that need the
  worker say so: `WorkerRuns => ...` in `HandlersFinish` and `DispatchFair`.
  `GoneClientsReleased` holds without.
- A straggling report, a place that is still to be told, and a link that fails
  need not happen: no fairness.
- FFLogs owes nothing in `PoolCalls`: `CancelledWaitReturns` holds without it, and
  `AnsweredWaitReturns` names the assumption that it answers or fails.
- Calls to FFLogs return in `FetchRounds`, `EventPages`, `ProgressPump`: what is
  shown is that the service's own control ends when they do.
- `PerfectionReport` and `HpsRankings` have no fairness and no liveness: what could
  keep them from ending is in the modules above.
- In `Storage` a reader enters under strong fairness: Go's `RWMutex` lets readers
  that wait for a writer in before the next writer. New readers wait while the
  cleaner waits, which is what lets it in.

## 4. What is proved

TLAPS proves these for every value of the constants; TLC checked the same
formulas on the instances above first.

| Theorem | States |
|---|---|
| `RequestProofs!Invariance`, `TypeCorrect` | `TypeOK` and `QueueInv` hold |
| `NeverBlocks`, `NoNeedlessCancel`, `CloseFrameUndisturbed`, `WakeupKept`, `PlacesHonest` | the safety invariants of the `queue` run |
| `OutcomeIsTold`, `OutcomesStay` | its action properties: what a browser shows at the end, and after it |
| `Dispatches` | `AnalysisQueue` implements `Dispatch` |
| `PagesImplementPath` | `ResultPages` implements `AnalysisQueue`, so all of the above hold with pages |
| `PagesInvariance`, `PagesTypeCorrect`, `PagesAreExplained`, `BuffersStayApart` | the invariants of the `pages` run |
| `ParallelPoolProofs!PoolInvariance`, `TokensGoBack`, `WaitJoinsAll` | the safety of the pool |
| `PoolCallsProofs!CallsUseThePool` | `PoolCalls` implements `ParallelPool` |
| `CallsInvariance`, `CallsJoin`, `CallsAnswerOnce`, `WaitJoinsCalls` | the safety of calls in a pool: tokens, one answer per call, no request after `Wait` |
| `WorkEnds`, `WaitNeverSticks` | what is handed over is worked off in finitely many steps, and a `Wait` that cannot return yet has a task that can go on |
| `FetchRoundsProofs!RoundsUseThePool` | `FetchRounds` implements `ParallelPool` |
| `RoundsInvariance`, `OneOwner`, `EarnedResult`, `RoundsJoin` | the safety of the rounds |
| `FetchesAreFinite`, `FetchesNeverStick` | a fetch has finitely many steps, and somebody can always take one |
| `EventPagesProofs!EventsInvariance`, `EventsTypes`, `EventsAreExact`, `EventsAreExactInSoundWorlds`, `NeverFetchedAgain` | events are complete and unrepeated; what is cached is not fetched again |
| `CallsAreBounded` | FFLogs is asked for the same pages `MaxRetries` times at most, in any world |
| `StepsCount`, `AnalysesAreFinite` | which steps bring an analysis nearer to its end, and that all do if nothing is null |
| `AnalysisProofs!PumpInvariance`, `NoSendOnClosed`, `FewAreLate` | the safety of the pump |
| `AnalysesEnd`, `AnalysesNeverStick` | an analysis and its pump have finitely many steps, and neither holds the other up for ever |
| `HpsInvariance`, `CountsAreListed`, `NothingLeftOut` | the safety of the hps page |
| `ReportProofs!ReportInvariance`, `ChosenByName`, `UsesCountOnce`, `ScoresAreEarned` | the player that is chosen, uses, scores |
| `CacheProofs!StorageInvariance`, `SaversAreAlone`, `FilesAreWhole`, `LoadsAreFresh` | the safety of the files |
| `OperationsAreFinite`, `OperationsNeverStick` | an operation has eight steps at most, nobody sends it back, and its locks are held by somebody who can go on |
| `VersionInvariance`, `NothingStale`, `CacheIsKept` | the safety of the guard |

They rest on the named assumptions of each module (sets are apart from the
values that mean none, numbers are naturals), on the library's facts about
sequences and finite sets, and on nothing else. `EventsAreExact` is
about any worlds: in each behaviour, as long as its own world leaves no part null or
no file was lost in it so far, events are exact. `EventsAreExactInSoundWorlds`, which
follows, has the condition of the run as its hypothesis, that in every world only one
of the two goes wrong, and concludes `EventsExact` itself. `NeverFetchedAgain` needs
neither.

The assumptions on constants are conditions on what is outside the code, and the
instances meet them. What is counted is finite: the parts of an event query, of
which the code has five, the goroutines of a pool, one for each batch. Two of
`PerfectionReport` say more than types. `LogAssumption`
is what `buildReportFight` relies on when it counts potions
(`fflogs_4_statistics_fight.go:37-50`): each potion is in the log with events of
its buff while that lasts, in order, the application first if it is drunk in the
fight (any number of events otherwise, so a buff may show up twice or end with the
player's death), and no potion is drunk within the cooldown of the last one.
`ReportAssumption` has that fights and skills are finitely many, that the buff of a
potion is shorter than its cooldown (30 and 270 seconds in `ffxiv/skills.go:21` and
`:67`), that no skill is counted with fewer charges than it has, and
that the value for "all" is no job and no encounter.

The refinements `RoundsUseThePool` and `CallsUseThePool` carry over to the rounds
and the calls what is proved of the pool alone: that a token never has to wait
for a place, and that `Wait` returns when nothing is in flight.

The inductive invariants, and why they are needed:

- `QueueInv`. That the result channel is free when the worker sends does not
  survive a step by itself: one must know that a request is held once
  (`HeldOnce`), that what is held was not answered, and that a handler which went
  on without an answer was cancelled (`HeldUnanswered`), that nobody has a place
  or a result before it joined (`PlaceOnceJoined`), and that only a dead link
  cancels. `WakeupKept` and `PlacesHonest` need only types on top: the first
  because every append to an empty queue puts a token and only the sleeping
  worker takes it, the second because a shift lowers all places by one while
  what is to be told still holds the old, larger ones.
- `OutcomeInv`. A browser with a working link shows an outcome only when its
  handler winds up, after which no other step sends to it.
- `PagesInv`. Buffers are private to requests that are served (`BuffersPrivate`), and
  what is in the buffer of a request is its own page, once that was rendered, and what
  the histories explain (`ContentInv`). Where no analysis met the key the buffer is
  empty or holds the start of a broken file until the page is rendered, so that no
  page comes twice. That only requests with a failed connection leave an analysis
  behind is `OnlyFragileLeave`.
- `PoolInv`. Tokens in the channel and in the hands of goroutines add up to the
  number of workers, the wait group is the number of tasks in flight, and a task
  is in one place only.
- `CallsInv`. A call is made by a task that runs (`InsideTask`). So a new round, and
  the return of `Wait`, find no call, and no context is taken from one. A call that
  has failed made all its tries, or its context is done (`NoEarlyError`).
- `RoundsInv`. Batches are numbered in the order of the scan, each with an entry of
  its own (`Numbered`), so there are numbers enough; what is collected, asked for
  or waits to be processed is open (`AskedIsOpen`); only a batch that was answered
  and runs has entries to process (`Answered`). A scan that handed nothing over has
  passed only entries that are done or had their tries (`Fruitless`), which is what
  the result is read from.
- `EventsInv`. In a world where no part of an answer is null the parts move
  together: the k-th query asks all parts that have a k-th page (`InStep`). In a
  world where no file fails, the files lead in a line from the first page to where
  FFLogs is asked next (`InLine`). Either keeps a page from coming twice. A fight
  that was fetched whole without a fault has a line with an end (`StaysWhole`), so
  the next replay finishes it. `CallsBounded` is about the pages that came, and a
  call that fails brings none: the invariant is that each page that came has paid for
  `MaxRetries` calls and the tries since for themselves (`CallsEarned`). It holds in
  any world, since an answer that moves nothing on renews no try.
- `ReportInv`. A fight has the player that its answer shows, whichever analysis
  fetched it (`Sources`), because a cached answer lies under the fights it was
  asked for with; its events are added once, since only the last of its objects
  gets a summary and leaves what is open when they come (`FetchedOncePerFight`).
  What the counts and scores are is then a matter of loops. A lemma each says that
  a fold is such a loop, and an invariant of the loop what it returns: the first
  player with the name, one of the job if not the name (`ByNameFinds`,
  `ByJobFinds`); after each buff event, as many potions as the events so far belong
  to (`PotionsAreDrinks`); after each fight, a table in which no score is above 100
  a row, and one is that only if all its fights are full (`TallyIsSound`). That full
  means used as often as can be is arithmetic: so many multiples of the cooldown lie
  within a fight (`AskedIsEnough`).
- `HpsInv`. A fight is loaded as often as it is listed, or asked for and taken once
  with its report (`TakenOnce`); what is not asked for was loaded, and what is done
  was taken if its numbers are there (`NoneForgotten`); a report that is open was
  missing from every round that is through (`MissedEachRound`).
- `StorageInv`. The key is in the saving map exactly while one goroutine saves
  (`OneSaver`), and the file under the path has nothing of a save before the last
  one (`LastSave`), so whoever writes to a file that somebody reads is a later save
  and the reader sees nothing older than what was complete when it began
  (`FreshFile`). Until another save begins, a load has the file under the path and all
  it has read is of the last save (`LoadsApart`). A file that is not whole has a piece
  that a fault or a crash cut (`SoundFile`).
- `VersionInv`. A hash file vouches for the files beside it (`Vouches`), also in
  the middle of an emptying, which is why the hash goes with the files and is
  written last; `Cleared` says how far an emptying has come.
- `PumpInv`. No goroutine outlives the fetch, no pump an analysis that awaits it
  (`PumpJoined`), and what is late, in the channel and in the pump's hands is two
  at most (`LateCount`).

The library's induction theorems cannot be used with the provers at hand, since
they are about any predicate. `ReportProofs` has its own, for predicates that are
given as sets (`NumberInduction`, `SubsetInduction`): a set of numbers without a
least one would have finitely many lower bounds that adding one maps into
themselves, which the facts about finite sets forbid.

### What is proved of the ends

That something ends is two facts and a fairness. The first fact is a number that
every step lowers, the second that somebody can take a step until the end is
reached. Both are proved, for any tasks, entries, tries, workers and goroutines (of
the pages of a fight, which one goroutine steps through, only the first); what the
prover has no means for is to conclude the end from them.

| Ends | Number that falls | Steps that do not lower it |
|---|---|---|
| tasks in a pool (`WorkEnds`) | `StepsLeft`: the steps that each task in flight has ahead of it, counted as pairs of a task and a number, since a sum over tasks needs an induction | a task that is handed over, a new `Wait` or `Reset`; cancels |
| a fetch (`FetchesAreFinite`) | `StepsLeft`: the turns that all entries have left, each worth more than all that a round can cost, then the scan, then the goroutines | cancels |
| the pages of a fight (`StepsCount`) | `StepsLeft` of `EventPagesProofs`: twice the calls that are left, the pages that all parts lack, and where in its round the analysis is | `ReplaysInPlace` |
| an analysis with its pump (`AnalysesEnd`) | `WorkLeft`: a goroutine outweighs its report, a report the string in the channel, that one the string in the pump's hands | the client leaving |
| an operation of the cache (`OperationsAreFinite`) | `Ahead(p)`, 8 at most | those of others, which keep it, or in a death of the process end it |

`ReplaysInPlace` is a cached page that moves no part on and does not end the replay.
The run `events_replay` is a behaviour that takes it again and again, and `StepsCount`
says that nothing else can keep the analysis from its end; where nothing is null the
step does not exist (`AnalysesAreFinite`).

Who can go on is said by predicates (`TaskCan`, `CallerCan`, `GoroutineCan`,
`PumpCan`, `OperationCan` and so on) that name what a goroutine waits for: a token,
a place for it, an answer, a lock, the pump. Once the context is done
`WaitNeverSticks` finds a task that does not need FFLogs. `AnalysesNeverStick`
rests on the order of `ctxCancel` and the wait for the pump (`CancelledFirst`).
`OperationsNeverStick` needs an inode for a new file, which `StorageAssumption` has
there unless every goroutine has one open, and that who creates has none
(`Unopened`).

Only model-checked: everything about liveness, and `ENABLED`, which the prover
does not reason about. So each `...Can` stands beside its action, not derived from
it; on the instances of the runs TLC found it true exactly where the action is
enabled. That the liveness of `AnalysisQueue` has no theorem of this kind is
because clients come and tickers fire for ever. The type invariants and the
inductive invariants have no runs of their own.

## 5. What is not modelled

- The bytes of messages and pages, wording, percentages, logging, Sentry.
- The query of a call, its headers, and what the decoder makes of an answer on top
  of the parts of a broken one; `rest` says only that they are there.
- Of the statistics: deaths and debuffs, the maxima that some jobs have instead of
  the usual ones (`fflogs_4_statistics_fight_recalc.go:45-164`, but for shared
  cooldowns and charges; of the charges that are one too many there is no run of
  their own, see section 3), medians and averages, which rank is shown
  (`fflogs_4_statistics_calc_rank.go:6-26`) and the order of the page. These are
  sequential computations on one fight, within the reach of unit tests.
- The numbers of a healer pair, and its place in the table.
- Validation and hash of a request; its key is a constant. That a request is invalid
  is a way for an analysis to end.
- Game data, templates, the OAuth client that nothing uses, start-up.
- Two keys with one 64-bit hash, and two processes on one cache directory.

## 6. Plan

Done, in this order: queue, pages, pool, events, rounds, storage, version, pump;
then calls, the perfection report and the hps rankings; then the proofs of the
safety properties of all of them, and of what ends them. What would come next:

1. Of the abstract side: a `PageService` that `ResultPages` implements (each
   browser gets one outcome, its own page or an error), and a `Register` that
   `Storage` implements (a load is a save or nothing).
2. `EventPages` with the calls of `GraphQLCall` in place of its answers.
