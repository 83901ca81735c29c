# A TLA+ model of swiftpaste

swiftpaste is a snippet-sharing service: a FastAPI application over PostgreSQL
(the truth) and Redis (cache, rate limits, job queue, search index, view
counters), with worker and scheduler processes for background jobs. Nothing in
it is hard sequentially. What can go wrong is what happens between two `await`s:
two calls of one snippet, a call and a job, a crash between two Redis commands,
a clock that was read too early. That is what these modules are about.

Everything runs from this directory: `tlc -config X.cfg M` for a run,
`tlapm M.tla` for the proofs. `PROJECT.json` ties runs, properties, theorems and
definitions to source lines.

## 1. Inventory

| component (source) | state | operations | talks to | hard part |
|---|---|---|---|---|
| snippet lifecycle (`services/snippet_service.py` 68-331, `db/soft_delete.py`, models, schemas) | rows `snippets`, `snippet_versions`; row locks; one session per call | create, update, delete | jobs after the commit, the cache in update | overlapping transactions at READ COMMITTED, values loaded before a lock, errors after a commit |
| read-through cache (`get_snippet_cached`, `snippet_out_view`, `update_snippet` 249-271, `jobs/tasks.py` `remove_index`) | Redis keys `snippet:<id>:v<n>`, `:vlatest` with a time to live | fill on miss, overwrite on update, delete by job | PostgreSQL, Redis, worker | fills with old data, writes out of order, deletes that never run |
| rate limiter (`rate_limiter/`) | Redis hash `rate_limit:<user>` | sample the clock, run the script | every snippet route | the clock is read before the await; routes with different capacities share a key; expiry |
| job queue (`jobs/queue.py`, `worker.py`, `scheduler.py`, `tasks.py` `recover_stuck_jobs`) | lists `jobs`, `processing`, `failed`, sorted set `jobs:scheduled` | enqueue, pop, finish, retry, recover, dispatch, seed | API calls enqueue; handlers enqueue their successors | crash and failure between two list commands, recovery on a snapshot |
| share links and expiry (`snippet_out_url`, `cleanup_expired`) | `expires_at`, `snippets:expiry` | share, view, clean up | cache, PostgreSQL | an extension racing the cleanup, a cached page that outlives its link |
| view counter (`search_snippets`, `flush_views_to_db`) | `snippet:views:*`, `snippets.views` | incr, flush | worker, PostgreSQL | increments between read and delete, retry after the commit |
| search (`search_snippets`, `index_snippet`, `remove_index`) | `search:index:*`, `search:result:*` | search, index, remove | worker, PostgreSQL | jobs out of order, result cache shared by all callers |
| request pipeline (`main.py`, `core/middleware`, `core/exception_handlers.py`) | `request.state`, metrics | wrap, translate errors | every route | order of middleware, which answers carry the request id |
| listing, users and OAuth, health, metrics, logging, configuration | library state or none | | | no control of their own |

What makes each correct:

- *Lifecycle*: version numbers are gapless and unique, `version_counter` names
  the last, a reported version holds the caller's text, `short_id`s are unique
  for ever, only authors write, no lock outlives its transaction, jobs are only
  about durable changes.
- *Cache*: an entry shows a committed version, beside a title and a counter of
  one commit; private versions stay out; stale entries go away.
- *Rate limiter*: admissions are bounded by capacity and refill; a call is refused
  only if by its own clock no second has passed since a token was last taken.
- *Jobs*: no job is lost, each ends, each runs a bounded number of times, the
  periodic chains neither end nor multiply.
- *Expiry*: an expired page is served no longer than one `CACHE_TTL`, a link with
  time to go keeps its note in `snippets:expiry`, expired pages go for good.
  *Views*: each counted, unless it comes between a flush's GET and its DELETE,
  and counted once, unless a flush fails after its commit. *Search*: a live
  snippet can be found by the words it was created with, a deleted one leaves the
  index, and no kept answer shows a deleted or private one for long.

`PROJECT.json` "hazards" lists the places where these could break, by line.

## 2. Modules

    VersionLog  <--- SnippetStore <--- SnippetStoreProofs
                          |  (a commit is atomic, appends one version)
               +----------+----------+---------------+
          SnippetCache  ShareExpiry  SearchIndex  ViewCounter
               +----------+----------+---------------+
                          |  (a job runs late, again, or never)
    TokenBucket           JobQueue <--- JobQueueProofs ---> SequenceFacts

A line says which result a module relies on when it makes one step of several: in
the four modules in the middle a transaction is one step, as SnippetStore and
VersionLog justify, and their jobs may fail, be run again and overlap, as
JobQueue allows.

Each component has a `...Proofs` module, which EXTENDS it and holds its theorems;
`SequenceFacts` holds the lemmas about lists (LREM, LPUSH, BRPOPLPUSH, the order of
a ZRANGE) that several of them cite. The inductive invariant `IInv` of a component
stands at the end of the component's own module, so that a run checks it.

`MC*` modules hold only what TLC needs (symmetry sets, sequences for constants).
Definitions marked `Mutant:` are wrong variants of the definition that follows
them: each property has one that breaks it (`PROJECT.json` "mutants").

**VersionLog** is the promise: a snippet appears with version 1, grows by whole
immutable versions, and may be soft-deleted.

**SnippetStore** is the code under that promise. `req[r]` is the local state of
one call (its position `pc`, the body, what the ORM loaded); `row`, `versions`
are what is committed; `lock` is PostgreSQL's row lock. One action per stretch
between two awaits:

| code | actions |
|---|---|
| `create_snippet` | `StartCreate`, `InsertSnippet` (flush) or `ShortIdCollision` (IntegrityError, two draws), `CommitCreate`, `EnqueueJob` |
| `update_snippet`, `create_new_version` | `LoadForUpdate` (both SELECTs; versions never change), `LockForUpdate` (first UPDATE; `RETURNING` reads the committed counter), `CommitUpdate` or `CommitUnchanged`, `RespondUpdate`; `RejectNullTitle` |
| `delete_snippet` + soft-delete listener | `LoadForDelete`, `LockForDelete`, `CommitDelete`, `EnqueueJob` |
| error handlers, session close, process death | `DbError`, `Crash`: rollback, lock released |

Faithful details that matter: `SnippetUpdate` has no visibility, so every edited
version is public (the column default); both its fields may be null, so a null
title fails on the NOT NULL column and a null content is committed and then
fails to be shown; the ORM writes the title only if it differs from the loaded
one; an UPDATE has no soft-delete filter, so an edit may follow a delete, and the
refresh after its commit has one, so that edit is answered with a 500
(`RespondUpdate`, and `Refresh` of the cache). A failed `EnqueueJob` may have
pushed its job: then only the reply was lost.

**SnippetCache** follows one snippet. The key is `Latest` (0) or a version
number. A reader is `Get`, `CacheHit`/`CacheMiss`, `Query`, `Fill`; an update is
`LoadForUpdate`, `CommitUpdate`, `Refresh`, `Fill`; a delete is `LoadForDelete`,
`CommitDelete`, `Enqueue`, and its job `ScanKeys`, `DeleteKeys`. `Tick` is
expiry. A version is identified by its number, which stands for its content.
`titled` is history: the pairs of a title and a counter that commits have left in
the row, by which `PagesAreCommitted` judges a page whose version is older than
the row it was built from.
`rough`, chosen in `Init`, says in which of two worlds a behaviour is: in a calm
one calls come one after the other and nothing fails, in a rough one they
overlap and any Redis command, job or call may fail. So one run checks both what
must hold always and what the code promises only to calls that do not overlap
(`SequentialReadsFresh`, `DeleteCleans`). ShareExpiry and SearchIndex do the same.

**ShareExpiry** follows one public snippet through `snippet_out_url` (`Share`,
`Zadd`), the view with its expiry check and cache (`ViewHit`; `ViewMiss`,
`Select`, `Fill`), `update_snippet`'s cache write (`Update`, `Fill`) and
`cleanup_expired` (`Scan`, `Clean`). All times are timers that `Tick` counts
down, so no clock needs a bound. `age` is the time since a view read `now`, which
is before its SELECT, or since a share computed `expires_at`, which is before its
commit: in a rough behaviour the commit may take some of the link's time.
`Slack` is the tick `int()` may take off a score: it drops less than a second, and
a tick stands for a second or more;
`seen` remembers what the SELECT of a cached page found, and is for the
properties only. Members written under a UUID by an older release (which
`_resolve_legacy_short_ids` is about) are in the initial states of calm
behaviours.

**ViewCounter** has the INCR of a search hit (`View`) and one action per await of
`flush_views_to_db`: `Keys`, `Read` (GET and SELECT of one key, where the sum is
computed; what comes between the two can change the sum only when runs overlap),
`Commit` (absolute values), `Delete`. `Fail` is an exception or a crash between any
two; the job then runs again. Two workers may run it at once. `happened`, `late`,
`failed`, `recounts`, `overlap` are history.

**SearchIndex** has `Create`, `Update`, `Delete` with the jobs they enqueue (an
update enqueues none), `RunJob` for `index_snippet` and `remove_index`, and a
search as `Search` (the GET of the kept answer), `Sinter`, `Select`, `Store`. In
a rough behaviour any job of the queue may be next, stay and run again, or be
lost: what several workers, retries and recovery amount to in JobQueue. A text
is its set of words. Nothing in the repository fills the column
`search_vector` (the migrations are not part of it): it is taken to hold the
words of the content.

**TokenBucket** is one rate-limit key. `Sample` reads the clock; `Admit`/`Deny`
is the atomic script, up to `MaxDelay` later and in any order; `Fail` is Redis
not answering, whether or not the script has run and taken a token (`Spend`);
`Tick` drops the key when its EXPIRE is over. `grants` and `life`
are history for the properties. `MaxDelay` bounds how late a call may
reach Redis; the proofs hold for every value of it that `ExpiryAssumption` allows
(an idle key has refilled before it expires: 3600 s against 10 tokens).

**JobQueue** has one action per Redis command. An entry is the JSON text of the
job, so `Lrem` finds exactly the equal record: a recovered copy differs by its
timestamp (`since`), a retried one by `retries`. `Pop` (BRPOPLPUSH), `Handle`,
`FinishJob` (LREM), and for exceptions `Raise`, `Retract` (LREM), `Push` (LPUSH to
the queue or to FAILED). `recover_stuck_jobs` is `Scan`, then `Take`/`Give` per
stuck job, then `Reschedule`; the other periodic handlers are the same with
nothing to take. `Seed*` is `enqueue_initial_job` with its three awaits,
`Dispatch` the MULTI of the dispatcher. `Crash` restarts a process (compose:
`restart: unless-stopped`); that of the scheduler, which may come at any time, idle
loop or not (an exception of the dispatcher ends both through `asyncio.gather`),
seeds again. `starts`, `recovered`, `done`, `dropped`, `broken` are history;
`broken` has the chains of which, since the scheduler last started, a job was lost,
given up or left behind by a worker that died. The branch for text that is not JSON
is left out because only `json.dumps` writes the lists.

## 3. Runs

| run | instance | question |
|---|---|---|
| `store_safety` | 3 calls, 2 users, 2 snippets, 2 short ids, 2 titles, 1 content + null | all safety properties of the store, its inductive invariant, and that it implements VersionLog |
| `store_live` | 3 calls on one snippet, no symmetry | every call ends |
| `store_title` | 3 calls, 2 titles, 2 contents | finding: a title of one update beside the content of another |
| `cache` | 2 callers, 2 titles, 2 versions, 2 writes, calm or rough | cached pages are committed, numbered keys public, stale entries disappear; fresh reads and complete deletes when nothing overlaps |
| `cache_private` | the same | finding: a private page in `vlatest` |
| `bucket` | 2 calls, capacities 1 and 2, 5 seconds, key lives 3 | admission and refusal |
| `jobs_faults` | 2 loops (one in the scheduler), 2 jobs, 2 tries, 1 tick, errors and crashes | loss, duplicates, retries, and that a seeded chain goes on unless a job of it is lost, given up or left behind by a dead worker |
| `jobs_live` | 3 jobs, 3 tries, errors | every job ends; the inductive invariant of the queue |
| `jobs_double` | 2 loops, no faults, 3 ticks | finding: recovery recovers itself |
| `share` | 3 callers, 2 of them the author's sessions, 2 versions, links of 2 and 3 ticks, pages of 3 | how long expired pages are served, and what the cleanup still knows |
| `views` | 2 snippets with 2 and 1 views, 2 flushers, 1 failed run | which views are lost or counted twice; the buffer drains |
| `search` | 2 snippets sharing a word, 4 writes, 1 search at a time, answers of 2 ticks | findable, unindexed, and settled answers |

*Bounds.* In the store three calls are what it takes for a create followed by two
overlapping writers, or two writers and a deleter; two users make ownership visible,
two short ids with two snippets make every collision possible. The contents of two
versions need not differ for the number properties (null is the second value). In
the cache two callers overlap a reader with a writer, and since calls end they bring
any number of calls one after the other; two versions separate "own" from "latest".
The bucket needs two calls for reordering, two capacities for the shared key, and
more seconds than the key lives. In the queue two jobs and one tick let the recovery
find a running job, a job in retry and itself; `MaxRescue` cuts the copies recovery
makes: no stuck job is taken once that many have been requeued. For share links a
page lives longer than the shortest link, so it can outlive it, two authors' calls
can overlap each other and a guest's, and a second share can move a link either way;
`MaxOwned` = 2 calls of the author are a share and a second share, a view or an
update. `MaxDelay` is how long a call may last; below `Floor` past times are not
told apart, which is a tick past the longest time `ServedWithinGrace` speaks of. For
views the second view of a snippet is the one that arrives during a flush; the other
snippet, seen once, shows that runs do not harm what they did not read. For search
four writes are two creates, an update and a delete, or one snippet's life beside
another's; a search is one step at a time for one client because two searches share
only the kept answer, which the next search reads. `MaxMembers` bounds the searches
of logged-in callers, since each may keep a private answer for another 60 seconds.
Counters are bounded by guards on the `Max...` constants alone.

*Fairness.* `SnippetStore!FairSpec` and `SnippetCache!FairSpec`: a coroutine that
can run is run by the event loop, so each call's own steps are weakly fair; errors,
crashes and new calls are not. Redis expires keys, so `Tick` of the cache is fair;
workers there are *not* fair: convergence must not need them.
`ShareExpiry!FairSpec`: time goes on, although `Tick` waits for a call that has
lasted `MaxDelay` (so strong fairness), calls and a cleanup that has begun go on,
and no cleanup need begin. `SearchIndex!FairSpec`: expiry and the steps of a search;
no job need run. `ViewCounter!FairSpec`: the flush runs again and again, which is
the periodic chain of JobQueue. `JobQueue!FairSpec`: each loop, the dispatcher and
the seeding go on; faults are never fair. `EveryJobEnds` has no crashes, because
what a crash leaves in PROCESSING is only resumed when the recovery chain is alive
and its 300 seconds have passed; what may raise in it is every await of a handler
and of the worker's `try` (one outside it ends the process, which is a crash).

## 4. What is proved

Every invariant and every action property of section 3 is a theorem, for every value
of the constants that the module's assumptions allow. In each module the argument is
the same: the properties are not inductive, `IInv` is (`Init => IInv`, `IInv /\
[Next]_vars => IInv'`, one lemma or step per action), and a run of the component
checks `IInv` too (that of the queue is `jobs_live`, without crashes and recoveries:
on the 1.1 million states of `jobs_faults` the counting in `TriesPaid` takes as long
as the rest of the run; added to that cfg it holds there as well). What makes each
`IInv` inductive:

**SnippetStoreProofs** (NULL is no call, user, short id, title or content).
That an update's number is fresh needs that the holder of the row lock still
has the successor of the committed counter (`LockedCallsOwnNext`) and that
a lock has one holder (`LocksAreLive`); that short ids stay unique needs that
flushed inserts own theirs (`InsertsAreFresh`); that calls point at rows
that exist needs `RowsOfCallsExist`, `EditedRowsExist`; that a remove job is about
a deleted row needs `DeletesHold`; types need `DrawsLeft` and
`UnansweredUntilDone`. From it: `CounterCorrect`, `ShortIdsCorrect`, `NoLostEdit`
(a reported version holds its caller's text), `NumbersNotShared`, `NoLeakedLock`,
`JobsCorrect`; and, of steps, `AuthorsWrite` (`Spec => OnlyAuthorWrites`) and
`StoreImplementsLog` (`Spec => VL!Spec`: `CommitCreate` is `Create`, a
`CommitUpdate` that adds a version is `Edit`, `CommitDelete` is `Delete`, every
other step leaves `status` and `log` alone).

**SnippetCacheProofs** (NULL is no key and no set of keys). `OnlyCommittedPages` and
`NoPrivateNumberedPage` hold in any world, because what a caller carries to its
`Fill` was committed when it was read (`CallsInStep`), with the title and the
counter the row then had, and versions are only appended. `NoStaleRead` and
`DeletedAreGone` are about a calm world: there a page on its way to `vlatest` shows
what the database holds (`CalmCalls`), `vlatest` is current or about to be
overwritten (`CalmLatest`), and the keys of a deleted snippet are gone or awaited by
its job (`CalmRemoval`).

**ShareExpiryProofs** (there is a longest share, `le=60*60*24` in the code; NULL is
no number, page or set). `GraceBounded` rests on `AllOnTime`: a page in hand was
read while its link had time to go, `age` ticks ago, so a page in the cache is past
its link for at most `MaxDelay` and the part of `TTL` it has used up. `LinksStayTracked`
and `CleanupFindsPages` rest on `AwaitedNoted`: in a calm world each version a
cleanup must come for has a note with a right score, or its ZADD is next.

**ViewCounterProofs** (NULL is no number). While runs do not overlap, a run that
has read a key holds the sum of the table and of what it read, the buffer still
has at least that much, and without the late views nothing is missing in the sum
(`RunsAreTrue`); for `NoViewTwice`, what is in the table and not yet deleted from
the buffer counts once (`NothingTwice`).

**SearchIndexProofs.** A job says what its snippet was (`JobsMatchDocs`), so a
removal is about a deleted snippet and never takes a live one out of a set
(`FirstTextStaysFindable`); in order and once, nothing indexes a snippet after its
removal (`RemovedLast`, for `DeletedUnindexed`).

**TokenBucketProofs** (`ExpiryAssumption`: an idle key has refilled before it
expires). `AdmissionBound`: tokens taken plus tokens left never exceed capacity plus
refill between the first and the last admission, the *negative* refill of a late
call included. `BurstsAreBounded`, over any stretch of admissions and across
the expiry of the key, needs `Paced`: counted from any earlier admission the tokens
left over are within the bound too, and a key that is gone has been idle for
`KeyTTL`. `DenialDeserved` is about steps: a call is refused only if no second has
passed, by its own clock, since a token was last taken.

**JobQueueProofs** (any number of workers, jobs, retries, recoveries, any delays,
crashes and errors anywhere). `IInv` is `QueueInv /\ TriesPaid /\ ChainInv`.

- `QueueInv`: a job's starts and the retries of each copy add up to the tries it was
  given (`TriesCounted`, for `FailuresHadTries`); all copies of an id have one type
  (`TagsOK`); a job never taken for stuck waits, runs or has failed, one of the
  three, and its entry in PROCESSING is that of the worker running it (`OnePlace`,
  for `OneCopyOnly`).
- `ChainInv`, for `ChainsStayAlive`, which assumes `PlainTexts`: no payload is the
  name of a periodic job (see section 5). A chain the scheduler has seeded, or
  has just found in QUEUE, has a job that a process is going to act on: it waits,
  is due, is run (up to the enqueue of its successor) or is being put back. An
  entry of PROCESSING that no worker holds does not count, for nobody but the
  recovery, itself a chain, would requeue it. Each step that takes such a job
  away without a successor puts the chain into `broken`, and only a restart of the
  scheduler, which looks at QUEUE and `jobs:scheduled` again, empties `broken`.
- `TriesPaid`, for `RunsAreBounded`. `BoundedRuns` speaks of starts that have
  been; recoveries make copies whose retries multiply, so the invariant counts
  the starts that may still come. A *ticket* of a job is a place of one of its
  copies (an index of the queue, an entry of `jobs:scheduled`, a worker) with a
  number up to the retries there, less one where it runs. Starts and tickets
  together never pass `Retries * (1 + recovered)`: `Pop` uses up the highest
  ticket of the entry it takes, and a retry, a dispatch or an LPUSH only moves
  tickets, which the proofs show by an injection from the tickets after the step
  to those before (`PushInjection`); a new job has no tickets yet, and a
  recovery pays for those of the copy it pushes.

*Model-checked only*: the liveness properties `EveryCallEnds`, `EventuallyCurrent`,
`EveryJobEnds`, `ExpiredPagesGo`, `BufferDrains` and `KeptAnswersSettle`, which
rest on fairness; liveness under fairness is beyond this prover. The three findings are
counterexamples and have nothing to prove.

## 5. Where code and documentation differ

1. *Title* (`store_title`): README "Updates snippet title when provided"; the
   ORM's dirty check against a stale value skips the write.
2. *Private pages in the cache* (`cache_private`): README "Caches public payloads
   only"; `update_snippet` caches whatever it answers.
3. *Recovery doubles* (`jobs_double`): a rescheduled `recover_stuck_jobs` is older
   than 300 s when it runs, finds itself in PROCESSING and requeues itself beside
   its successor; tests/test_jobs.py expects one successor.

Also met, without a run of their own:

- *Nobody recovers the recovery*: when the worker that runs `recover_stuck_jobs` dies,
  its entry stays in PROCESSING, which only that job reads: nothing stuck is
  requeued until the scheduler restarts (`broken` in JobQueue). The other chains
  come back with the recovery, if it lives.
- *An update after a delete* commits its version and is answered with a 500.
- *Seeding by substring*: `enqueue_initial_job` (scheduler.py:37) looks for the
  job's name anywhere in the queued texts, so a queued snippet whose text contains
  `cleanup_expired` keeps that job from being seeded. `JobQueue` has it: with
  `Seeds = <<"cleanup_expired">>` and `"cleanup_expired"` among `Texts`,
  `ChainAlive` is violated.
- *Sharing again* replaces the expiry; a shorter `ttl_seconds` shortens the link,
  where the route says it "extends expiry each time" (routes/snippet.py:97).
- *Expired pages*: a hit is answered without a look at `expires_at`, so an expired
  link works until the page or the cleanup ends it; and the author's own view or
  title change of an expired snippet puts the page back for everybody for a whole
  `CACHE_TTL` (`seen = "owner"` in ShareExpiry, excluded from `ServedWithinGrace`
  and covered by `ExpiredPagesGo`).
- *Views*: an INCR between the GET and the DELETE of a flush is lost; a DELETE that
  fails after the commit counts its views twice; of two runs that overlap, one
  undoes the other, because the sums are absolute.
- *Search* keeps the answer a logged-in caller got, private versions included,
  for everybody for 60 seconds; it finds old versions and expired ones; words an
  update adds are never indexed, and words only an earlier text had stay in the
  index after a delete (the SELECT drops what they find). Every page number of a
  query gets the whole list.
- Two collisions of `short_id` reach the client (api_contract.md:90); two
  overlapping updates with the same content insert it twice; a null content is
  stored and then answered with 500; Redis being down fails creates (after their
  commit), deletes, shares, searches and every rate-limited call.

## 6. Plan

The safety properties are proved. What would say more:

1. Abstract specifications for the other components, as VersionLog is for the
   store: a job as an at-least-once task with a budget of tries (JobQueue), an index
   as a set that follows the documents after a delay (SearchIndex).
2. The step from atomic transactions in the four modules in the middle to
   SnippetStore as a refinement, in place of the argument of section 2.

## 7. Not modelled

- *Request pipeline*: each request passes a fixed chain of middleware once and
  shares nothing with another, so there is no interleaving to check and little
  control. What a reading shows: `MetricsMiddleware` overrides `__call__`, so its
  `dispatch` and the metrics in it never run; a 500 is made outside the request id
  middleware, so that answer lacks the header. What the handlers answer is in
  SnippetStore (`Answer`) and the `Abort` actions.
- *Listing of own snippets* is one SELECT. *Users, OAuth, JWT* are `fastapi-users`.
  *Health probes* are stateless. *Metrics and logs* are never read back.
- *NGINX* may repeat a PUT or DELETE that timed out on another address of the
  upstream; such a repetition is one more call, which SnippetStore allows at any
  time, overlapping the first.
- In search, ranking and pages; in tokens, what a word is; in share links, members
  of `snippets:expiry` that are not of the two known forms, which the cleanup only
  removes.
- *Configuration and migrations*: settings that matter are CONSTANTS; the
  migrations are not in the repository.
