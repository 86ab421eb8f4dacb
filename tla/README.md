# Verification of hypercerts-feed-service

TLA+ models of the Hypercerts Feed Service, checked with TLC and, where a
theorem is stated, proved with TLAPS. All paths below are relative to the
repository, and `feed-query.sql:140` names a line of a file.

The service answers two XRPC procedures over a read-only Postgres database that
another program, HappyView, fills: `getFeedSkeleton` (ordered URIs) and
`getFeed` (hydrated items). It keeps almost no state. What is hard is what
happens around each request: a replay cache with limits and a clock, pages
selected one by one from tables that change in between, a second statement
after the first, and a process that is told to stop while requests hold
connections.

## Inventory

| Component | Source | State | Operations | What is hard | What makes it correct |
|---|---|---|---|---|---|
| Service auth and replay protection | `src/auth/service-auth.ts` | two-level map issuer → jti → expiry, a counter, the latest observed time | verify, check endpoint and jti, consume | concurrent verifications, a clock set back, two limits, purging only when full, restart | a token is accepted once; maps, counter and limits agree; a refusal tells the truth |
| Feed paging and cursors | `src/feed/sql-feed.ts`, `src/feed/cursor.ts`, tails of both SQL files, `src/hydration/service.ts` | none; the client holds the cursor | select limit + 1, cut the page, encode and decode the cursor, drop unsound rows | records written, moved and deleted between pages, retries, instants at the ends of the calendar | pages do not overlap, nothing steady is skipped, the traversal ends, a cursor returned is a cursor accepted |
| Hypercerts selection | `src/feed/feed-query.sql`, `src/feed/query.ts` | none | scope, endorsements, labels, pairing, classification | versions of records that refer to each other, answers in any order, labels that expire | the newest answer decides; a paired activity is represented exactly once; strangers change nothing; the policy filters organizations only |
| MaEarth selection | `src/feed/maearth-query.sql`, `src/feed/maearth.ts` | none | members, targets, kinds, time range | rows that are both author-driven and target-driven, mediated follows, instants outside the calendar or in the future | each visible record is found by exactly one scan; mediated follows and strangers change nothing of others; time only reveals |
| Process lifecycle and pool | `src/server.ts`, `src/metrics-server.ts`, `src/database.ts` | listeners, pool, shutdown promise, exit code | bind, clean up, first check, signals, drain, stop metrics, end pool | partial startup, signals at any time, deadlines, few connections | no leak after a failed start, work is drained, the exit code is honest, a shutdown ends, no hold-and-wait |
| Hydration | `src/hydration/*.ts`, `src/feed/query.ts` | none | join rows with their records, validate, load identities, build views | two statements, two snapshots; four invariant errors; wrappers checked in one file and shown in another | an item per sound row, in order, each with the record of the first moment and faces of the second; no invariant error is ever raised; only checked blobs are shown |
| HTTP pipeline | `src/app.ts`, `src/api/*.ts`, `src/auth/input.ts` | none per request | route, bound the body, parse, authenticate, bind the viewer, map errors | two requests with one token, a body of unknown length, order of the checks | a page is its caller's, tokens are spent last, refusals cost no statement, an error is counted once |
| Readiness | `src/app.ts:290`, `src/database.ts:58`, `src/metrics.ts:115` | the readiness gauge | check, set the gauge | overlapping checks that end in any order, a database replaced meanwhile | reasons are true, no answer is undone by an older reading, the gauge settles |
| Feed registry and request validation | `src/feed/registry.ts`, `src/feed/validation.ts`, `src/feed/cursor.ts`, `src/hydration/router.ts` | the table of feeds, constant after start | look up, validate, normalise, route | a dozen refusals in six files, one at a time; requests carried from one feed to another | what reaches a statement has passed the checks of its own feed; the advice of refusals leads to a request that is served |
| Configuration, metrics | `src/config.ts`, `src/metrics.ts` | constant after start; counters | parse, count | nothing concurrent | – |

Interaction: an HTTP request runs the pipeline, awaits the token's
verification, and calls `consume` synchronously. The procedure awaits one
pooled statement for its page; `getFeed` of the Hypercerts feed awaits a second
one for the identities. Every statement takes a connection from the shared pool
and gives it back. The indexer writes at any time. A signal closes the HTTP
listener, waits for requests, stops the metrics listener and ends the pool.

## Modules

| Module | Models |
|---|---|
| `TokenUse` | what callers are promised about tokens, with no cache in sight |
| `ReplayProtector` | `service-auth.ts`; shown to implement `TokenUse` |
| `ReplayProtectorProofs` | theorems about `ReplayProtector` for all constants |
| `Traversal` | what paging promises a reader, with no pages in sight |
| `FeedPaging` | one client's traversal while records change; shown to implement `Traversal` |
| `FeedPagingProofs` | theorems about `FeedPaging` for all constants |
| `FeedSelection` | `feed-query.sql` before paging, over changing tables |
| `FeedSelectionProofs` | theorems about `FeedSelection` for all constants |
| `MaearthSelection` | `maearth-query.sql` before paging, over changing tables |
| `MaearthSelectionProofs` | theorems about `MaearthSelection` for all constants |
| `Hydration` | one hydrated page after the other, while records and profiles change |
| `HydrationProofs` | theorems about `Hydration` for all constants |
| `FeedRequest` | a client that mends its request as each refusal tells it to; shown to answer as `HttpPipeline` does |
| `FeedRequestProofs` | theorems about `FeedRequest` for all constants |
| `Readiness` | overlapping readiness checks and the gauge |
| `HttpPipeline` | concurrent requests through `app.ts` and `feed-procedure.ts` |
| `HttpPipelineProofs` | theorems about `HttpPipeline` for all constants |
| `ServerLifecycle` | the process from start to end, its listeners and pool |
| `ProcessProofs` | theorems about `ServerLifecycle` and `Readiness` for all constants |
| `MC*` | instances for TLC: catalogs of tokens, records, labels |

In each module an operator whose comment begins with "Slip" is not part of the
model: it is a plausible mistake in the definition that follows it, kept to
show that the properties notice it.

### ReplayProtector

`cache.entries` is the set of triples of the inner maps, `cache.issuers` the
keys of the outer map (an inner map that is not reachable through it is not
visible, as in the code), `cache.count` is `replayEntryCount`, kept by hand as
in the code. `wall` is `Date.now()`: it moves to any instant, backwards too.
`Present` begins a verification, which the library may refuse (`VerifyFails`)
or finish at any later time; the checks of lines 228–231 are `RejectClaims`, and
each outcome of `consume` is one action, because `consume` has no await.
`Restart` loses cache and requests. `used` is history: the tokens accepted
since the start.

### Traversal

The reader has a front: the start, a position, or the end. An answer moves it
down and accounts for exactly the rows that stood between the old front and the
new one at one moment; it shows the sound rows among them, and may show more. A
page may be looked up first (`Look`), and then be delivered or lost. The
collection, `world`, changes as it likes. There are no limits, cursors or
statements here; `FeedPaging` maps its cursor to the front, its batch to the page
that is held, and has to show that limit-plus-one, the keyset condition and the
cursor's text add up to this.

### FeedPaging

An event is a record the selection admits. `Change` is the indexer's: it may
write, move or delete any record at any time. The client asks for a page with
any limit; `Selects` is the statement of one page, with its extra row, and
`Finishes` is `finishPage`; `SkeletonPage` answers with it, `SelectFeedPage`
keeps it while the identity query runs, `HydrateFeedPage` answers,
`HydrationFails` loses it (the client then repeats its cursor), `EmptyFeedPage`
answers without a second statement, and `RefuseCursor` is the decoder's refusal.
A cursor is the position it carries; base64url, JSON, version and feed id are
left out. `SortValue` models `to_char`: the era is lost, so an instant of 1 BC
reads as one of year 0001. `feed` is chosen at the start: MaEarth bounds the
instants it shows, drops no row and has no second statement.

### FeedSelection

Each named query of `feed-query.sql` is an operator over `db`, `labels` and
`now`: `ValidEndorsementAwards`, `RequestedScope`, `ActiveQualities`,
`ResolvedScope`, `ProjectPairs`, `EligibleRecords`, `Kind`. A record's text is
abstracted to what the query reads: whether it parses, its instants (or `None`
where the query's guards reject them), and the fields of its collection. The
actions are the indexer's: a record is written under its URI (replacing its
version), or deleted; a label comes or goes; the clock ticks. The `kinds`
filter, which only drops events at the end, is left out, and paging is
`FeedPaging`'s. A behaviour has one of the catalogs of `Catalogs`: what the network
may publish in it.

### MaearthSelection

As in `FeedSelection`, each named query is an operator: `ViewerGraph`,
`FollowedAccounts`, `FollowedProjects`, `ProjectSubjectUris`, `Members`, the
scans `AuthorRows` and `TargetRows`, `Admitted` for the conditions both share,
and `Event` for the projection. `Events(actor, kinds)` is the answer to a
request with that actor and those kinds; a kind is named by its collection.
`EffectiveAt` prefers `createdAt` to `indexed_at` where it lies in the calendar
(`Floor`), and `Visible` hides what lies beyond the clock by more than five
minutes (`Skew`). Actions are the indexer's writes and deletes and the clock.
URIs that do not match the pattern a query asks for are those outside
`ProjectUris`, `ActivityUris` and `PostUris`; those the patterns admit and the
strict parsers of the lexicon reject are `Misshapen`. `HasOwnTarget` is
`rowTarget`, and `PageFails` what an offending row does to its page.

### Hydration

`LoadPage` is the first statement with the record of each row, and
`collectValidatedFeedRows`; `Hydrate` is the identity query, `getByDids` with its
checks, the summaries and the cards. Between them the indexer may write, rewrite
and delete anything. `ValidRecord` has the checks of `validation.ts` that the
generated validators do not make (`valid` is their verdict): kind against
collection, and the blob of a slot if its wrapper is the one expected there.
`ImageReference` and what follows are `views.ts`: a slot is shown by its wrapper.
`phase = "broken"` is an invariant error. A page that is answered here may yet fail
the check of its output (`api/get-feed.ts:27-29`), which is `FeedFails` of `HttpPipeline`. `InFeedOrder` gives a page its order; that
the sound rows keep it is `collectValidatedFeedRows`, which drops rows and moves none.
`TypedBody` is what the generated validators ensure of a body they accept. Titles, dates, counts and targets that a
card copies from its record are left out.

### FeedRequest

`Check` is a sequence of refusals, empty or of one: its code, its status and the
fields its message names. `Refusals` joins them in the order of the code: the
lexicon's (external), the viewer's, the registry's, the feed's own, the cursor's.
So it is everything that is wrong at once, and `Refuse` answers with its head. `Mend` is a client that changes one field that was named to a value
the message allows (`Advice`), and nothing else; `Turn` is one that was served
and goes on with another feed, keeping its cursor, kinds and parameters. `Serve`
records the normalized request and the reader `HydratedFeedRouter` picks from the
table `server.ts` builds, with MaEarth enabled or not. The lexicon limits the
lengths of lists and the page size more widely than a feed does (`MaxItems`,
`MaxPage`), so both refusals can be met in turn. The message of MaEarth's own
parser, which names all three parameters, is taken to name the one at fault;
callers whose DID the lexicon would refuse for its length are left out.

`Wrong` counts what is wrong with a request, come to light or not, field by field:
a change of the feed may make its kinds unknown, so while the feed is none, all its
kinds count as unknown. `AdviceUndoesNothing` says that each change a message
advises makes it less, and `NoDeadEnd`, which is proved and not run, that there always
is one; with a client who does not give up that is why `AdviceConverges`.

`P` maps the client to a request of `HttpPipeline`, which keeps of each check only
its verdict and of the client nothing between two requests: `Verdicts` are those it
would be given, `Answered` and `SelectedFor` what it should make of them.
`AnswersAsPiped` says that each answer is one of its steps, so that what
`HttpPipeline` proves of viewers and refusals is about the checks modelled here.

### Readiness

A check queries, is read by the database at one moment, and is answered at a
later one, when it sets the gauge. `Verdict` is `checkCompatibility`, in its
order: an error comes before the version is looked at, and SQLSTATE 42883 is
taken for a missing validation function. `Replace` starts a new epoch of the
database (an upgrade, an outage, a change of role). `reported` and `known` are
history: the newest epoch reported so far, and that when a check began.

### HttpPipeline

A request is where `pc` says; between two actions the code awaits (a chunk of
the body, the token's verification, a statement, the body of its own answer) or
is inside the router, which is external and may validate the input before or
after it authenticates. What lies between two awaits is one action:
`LoadPage` stands for everything from the handler's first line to the page
statement, `RefuseFeedRequest` for its refusals, whose order `Refusal` gives.
A message is a record of the verdicts these checks reach. `read` is the
buffered length of `readBoundedRequest`. `spent` abstracts the replay
protector to what the pipeline needs: a token is free or was used by one
request; `RefuseFull` is either limit (`ReplayProtector` has the detail).
`queried` and `message` are history for the properties. `BodyFails` is the
client who leaves: the handler throws, the request is counted in the `finally`
and nobody is answered.

### ServerLifecycle

`main` is the place of the top-level statements of `server.ts`, `shutdown` that
of the shutdown function. A job is a feed request, or the first compatibility
check; it queues for a connection, runs a statement, and if it is a hydrated
request queues again for the second. The HTTP server, the pool and the metrics
listener are external and behave as the code relies on: `terminate()` waits for
open sockets up to its deadline, then destroys them while their
handlers run on; a client that hangs up after its body was read (`ClientLeaves`)
stops nothing (`app.ts:157-160`), but the drain no longer sees its handler; `end()` lets nobody else connect and settles when every
connection is back; a second `end()` rejects. Handlers are installed by
`process.once`, so a signal without a handler has its default effect.

## Runs

| Run | Instance | Shows |
|---|---|---|
| `replay` | 2 requests, 7 tokens of 2 issuers, limits 2 and 3, seconds of 2 ms, clock at 0, 2, 4 | the cache's invariants, one use per token, refinement of `TokenUse` |
| `paging` | both feeds, 3 records, instants from 1 BC to year 10000 in MaEarth, ordinary ones or also one of year 10000 in Hypercerts, limits 1 and 2 | nothing skipped, refinement of `Traversal`, the traversal ends |
| `selection` | two catalogs: 14 record versions of an award, its badge, answers and a follow; 15 around a project, 3 labels, a clock | who decides on an endorsement, pairing, whose writes and labels count |
| `maearth` | 21 record versions of follows, a project, posts and reposts by viewer, friend and stranger, with misshapen targets, every actor, every kind alone and all | what the two scans find, that no row breaks a page, whose writes matter, what time changes |
| `hydration` | 4 catalogs: an activity, a collection, an update and an award, each in sound and unsound versions, with profiles of two accounts | both moments of a page, its invariants, the blobs shown |
| `feed_request` | 6912 requests that are wrong in any combination of fields, anonymous or of either caller, MaEarth on or off | order and advice of the refusals, that advice never fails nor undoes other advice, routing, the answers of `HttpPipeline` |
| `readiness` | 2 checks, 5 databases, 3 epochs | verdicts, overlapping checks, the gauge |
| `pipeline` | 2 interchangeable requests, 24 messages, a limit of 2 units, a token shared by 6 messages | order of the checks, viewer, tokens, counters |
| `lifecycle` | 3 requests (2 hydrated), 2 connections, both signals, clients that hang up, all failures | shutdown and pool |
| `paging_year_one`, `paging_year_ten_thousand`, `signal_at_startup` | Hypercerts with instants of 1 BC and year 10000; one request | the divergences below |

The bounds are small but reach every case: both limits of the cache are met
with live and with expired entries; pages are shorter than, as long as and
longer than what is left, with ties of instants; the pool has fewer connections
than requests; a token's last second has two instants; an activity and a
project are closer than, at and beyond the window; a MaEarth record is dated
before the floor, now, and beyond the skew; a body is shorter than, as long as
and longer than the limit, with and without a declared length; two requests
suffice to race for a token, because a step touches only its own request and
the token (the proofs drop the bound altogether). A hydrated page has rows that
are kept and rows that are dropped, and profiles that appear, change and go
between its statements; two readiness checks suffice to end in the other order,
and three epochs to have one change before, between and after them; every
refusal of `FeedRequest` is the first to fail for some request, and every two
fields are wrong together in one.

The paging runs, `selection`, `maearth`, `pipeline` and the lifecycle runs do
not check for deadlock: a finished traversal, a quiet indexer, requests that are
all answered and an ended process are states in which nothing more need happen.

### Fairness

`FeedPaging`: the client goes on asking, and an identity query does not fail
for ever (strong fairness of its success; each attempt is bounded by the
statement timeout of `database.ts:38`). Nothing is assumed of the indexer; the
traversal ends nevertheless because pages descend and the instants of an
instance are finite. `ServerLifecycle`: statements end (statement timeout),
waiting for a connection ends (connection timeout), both shutdown deadlines are
timers, and the main program goes on. Clients, scrapers and signals owe nothing.
`Readiness`: the deployment keeps probing, the same two timeouts end every check,
and the database is left alone some day. `FeedRequest`: a request is answered, and
the client does not give up; which named field it mends, and to which of the
allowed values, is its choice each time.

### Divergences found

- `signal_at_startup`: the service accepts requests before it has signal
  handlers (`server.ts:90` and `:167`, with an awaited database check between),
  so a `SIGTERM` then kills work that `README.md:354` says is finished.
- `paging_year_one`: a `createdAt` of 1 BC in UTC on a page boundary gives a
  Hypercerts cursor that lies before rows already checked (`README.md:107`), so
  a page repeats. MaEarth's floor excludes it.
- `paging_year_ten_thousand`: a `createdAt` of year 10000 in UTC gives a cursor
  the decoder refuses (`README.md:62`).

A fourth has no run of its own. A client that hangs up after its body was read
cancels no feed work by `README.md:346`. But `terminate()` (`server.ts:139`) waits
for sockets, so the drain may end while the handler of such a client is between its
two statements, and `database.close()` (`server.ts:153`) then refuses it the second,
before any deadline. `DrainProtectsWork` therefore excepts the clients that have
`left`; without that exception `lifecycle` finds the trace.

## Proofs

`ReplayProtectorProofs` proves, for any sets of issuers, tokens and requests,
any limits and any clock, under the named assumptions of `ReplayProtector`:

- `TypeCorrect`, `CacheIsKept`, `CacheMirrors`: the invariants of the run;
- `OneUse`: no token is accepted twice while the process lives;
- `Refinement`: every step is a step, or a stutter, of `TokenUse`.

The inductive invariant `IInv` adds to the checked invariants that the entries
are finite, which the counter's exactness needs, and joins them because none is
inductive alone: the counter is exact only if a stored pair is replaced by
exactly one entry, which needs one entry per pair; the limits hold because the
counter is exact; that a live token finds its entry needs every visible entry
to be reachable. The helpers only ever remove expired entries, so each lemma
about them has the form "the result is a trimming of the cache"; trimmings
compose, and `Accept` is a trimming and a store. `OneUse` then follows since a
token in use has its entry, and the observed time does not run back. In the
refinement the abstract limits count tokens in use: the cache, once purged,
holds exactly one entry for each.

`FeedPagingProofs` proves, for any records, feeds, instants and limits, under
`PagingAssumption`:

- `PagingTypes`: the state keeps its type;
- `PagingSkipsNothing`: an event that stays as it is is never skipped, whatever
  the instants;
- `PagingImplementsTraversal`: where no record of a feed without a floor is dated
  before year 1 (`NoEarlyEvents`, the one divergence that repeats rows), every
  step is a step or a stutter of `Traversal`.

`NothingSkipped` is not inductive while a page awaits its identities:
`PageCovers` says that the page in flight covers every steady event down to its
end, and `SkipInv` joins the two. The core is `PageCoversCandidates`: of what the
keyset condition admits, everything is on the page or behind its cursor, because
the page is the first `limit` of the first `limit + 1`. The simulation needs that
the cursor's text reads as the instant it was made from, which `NoEarlyEvents`
gives, and that the page in flight was an interval from the front (`InFlight`).

`HttpPipelineProofs` proves every invariant of `HttpPipeline`, for any finite
set of concurrent requests, any messages and any limit, under two assumptions:
`None` is none of the other values (`NoneAssumption`), and lengths are natural
numbers and both registered feeds belong to a viewer (`MessagesAssumption`):

- `TypeCorrect`, `BodyLimit`: no request buffers more than the limit, and a body
  is refused as too large exactly when it is;
- `CallersPages`, `TokensLast`: pages are the callers', a refused request has cost
  no statement, a token serves one request and is spent after the checks;
- `CountersHonest`: the counters are the cardinalities they should be.

The inductive invariant is `Shape /\ AllOrderly /\ Billed`. `Orderly(r)` says, for
every place a request can be in, what it has passed on its way there; that its
token is spent on it (`Paid`) is what the checked properties lack to be
inductive. A step touches its own cells of each function and takes at most one
token that was free, so it keeps every other request orderly
(`OthersUntouched`, `OthersOrderly`) and leaves only its own to be looked at,
action by action (`OwnOrderly`). `Billed` ties the counters to the sets of
finished requests; only `Observe` finishes one, and a request that is done takes
no more steps, so the sets grow by one element just when the counters do.

`FeedSelectionProofs` proves, for whatever the network publishes (catalogs of any
size), any accounts and any policy, that records are finitely many and instants are
numbers or absent (`CatalogsAssumption`), as are the window and the clock
(`TimeAssumption`):

- `TypeCorrect`: kinds, instants and actors of events;
- `ActivitiesRepresentedOnce`: a paired activity stands behind a project, an unpaired
  one is an event of its own;
- `NewestDecides`: the newest answers decide on an award;
- `OutsidersChangeNothing`: whose writes and labels have no say, and that what refers
  to an earlier version of an award or badge has none either.

The state is only the tables, so the inductive invariant is their type (`Tables`); it
is the operators over it that need arguments. `NewestDecides` has to show that the
`ORDER BY` of the answers has a first row at all: `AnswersLater` is total and
transitive on the answers of an award (absent instants and ties of them included),
and a finite set that is so ordered has a greatest element (`FiniteHasGreatest`).
`OutsidersChangeNothing` follows the query from its inside out: the answers to the
awards of those who are consulted, and the badges these refer to, stay (`SameAward`), hence the scope (`SameScope`),
the qualities (`SameQuality`), the pairs, the eligible records and the events; that
`Consulted` must be taken before and after the step is what makes each of these a
comparison of two equal sets.

`MaearthSelectionProofs` proves every property of the run, for any catalog whose
instants are numbers or absent and in which no record's own URI is one the strict
parsers reject (`CatalogAssumption`, HappyView makes those URIs), with integers for
floor, skew and clock (`ClockAssumption`):

- `TypeCorrect`, `EveryRecordFoundOnce`, `FeedUnbroken`;
- `MediatedFollowsChangeNothing`, `StrangersHaveTheirOwn`, `TimeOnlyReveals`.

Again the tables' type is the whole invariant. `FoundOnce` and
`NobodyBreaksTheFeed` hold of every typed state by cases over the kinds; each of the
three action properties compares the events before and after a step, through the
members first, then the rows of the two scans, then their projection (`EventOfRow`).

`HydrationProofs` proves every property of the run, for pages of any length, any
records, profiles and image limits, under `CatalogsAssumption` (finitely many
records, whose URIs are ordered, and what the generated validators ensure of a body
they accept) and `NoneAssumption` (an absent DID is none):

- `TypeCorrect`, `EveryPageAnswered`, `UncheckedNeverShown`, `TwoMoments`.

`PageAnswered` is not inductive: whether the second statement finds every account
depends on what the first one asked for. `Batched` says of a page that awaits its
identities that its rows are the sound records of the first statement, in order
(`OfPage`), and that exactly their accounts were asked for. `FeedOrder` shows that
the order of the feed exists for any finite set of records and lists each once.
What `validation.ts` checks and what `views.ts` shows meet in `CardShown` and
`FaceShown`: for every slot, the wrapper under which it is shown is the one under
which it was checked.

`ProcessProofs` proves of `ServerLifecycle`, for any requests, scrapes and size of the
pool, under `LifecycleAssumption`:

- `TypeCorrect`, `NobodyHoldsAndWaits`;
- `DrainIsSafe`: the pool is closed over no request whose client waits on an open
  socket unless `terminate()` failed, and a request loses it between its statements
  only if the drain's deadline gave it up, `terminate()` failed, or its client had left;
- `EndsAreHonest`: however the process ends of itself, it leaves nothing open that
  its exit code does not tell of.

The inductive invariant has a part for each thread of the process.
`StartsInOrder` says, for every place of `main`, which listeners and which pool
stand, and that no job runs before the listener is bound; `StopsInOrder` says, for
every place of the shutdown, what it has closed and that, unless the drain failed,
no request in flight has an open socket; `ClosesInOrder` that each listener it has passed
is closed or counted as a failure; `Connections` ties the pool's clients to the
statements that run; `CodeKept` ties the exit code to the failures so far.
`LoserIsGone` adds what became of those who lost the pool. `DrainProtectsWork` needs
`StopsInOrder` twice: for the pool that is closed after the drain only, and at the
step of a second statement that is refused.

Of `Readiness`, which shares no name with `ServerLifecycle` so that one module can
extend both, it proves, for any databases and any number of checks, under
`ReadinessAssumption`, `ReadinessTypes`, which says that every reason given is true, and
`NoAnswerRelapses`. The property is not inductive: a check that has read its result,
and waits to report it, must be known to have read at least the epoch that had been
reported when it began (`Current`).

`FeedRequestProofs` proves, for any requests that have their fields and finite lists
(`RequestsAssumption`), any callers, kinds, qualities and limits, where a feed's
limits lie within the lexicon's and `None` is none of the other values
(`LimitsAssumption`):

- `TypeCorrect`: what reaches a statement has passed the checks of its own feed;
- `AdviceThere`: whatever a refusal names, its message has something to try;
- `NoAdviceUndone`: whichever named field is mended, to whichever advised value, less
  is wrong than before;
- `AnswersThePipeline`: the answers are those of `HttpPipeline`.

The inductive invariant adds to `TypeOK` that requests stay well formed and that a
refused client holds the refusal of the request it sent. `RefusalOrder` reads the
joined sequence from its head: which check is the first to fail decides. The feeds'
own lists of checks go through `Faithful`, "empty without a fault, and headed by a
refusal for one of its faults", which two lists joined have if each has it. From both,
`NamesFaults`: a field that a refusal names has something wrong with it. Hence the
measure: mending makes the field's own count less (`AdviceHelps`; for kinds, one
unknown kind goes and at most one known kind comes) and no other count greater
(`OtherwiseAsGood`; only the feed is felt in other fields, and then it was none
before). `RefusalsAgree` compares the head of the joined sequence with the nested
conditions of `HttpPipeline`.

Only model-checked: liveness (`TraversalEnds`, `AdviceConverges`, `GaugeSettles`,
`ShutdownEnds`), which is out of the prover's reach, and the divergences above. Of
`AdviceConverges` the argument's two safety halves are proved: there is always advice,
and taking it lessens a natural number.

## Not modelled

The library's token verification beyond its verdict; the text forms of cursors and
timestamps beyond what makes an instant or a cursor acceptable; the generated
validators beyond their verdict; what a card copies from its record; the parsing
of the configuration, which happens once, before anything runs; histograms,
headers and CORS; lexicon sources, lint and build configuration, release tooling
and `scripts/maearth-spike/validate.mjs`, a check run by hand against a test
database. `PROJECT.json` lists each with its reason.

## Plan

1. `ReplayProtector`, `TokenUse`, `HttpPipeline` and their proofs – done.
2. `FeedPaging`, `FeedSelection`, `MaearthSelection`, `ServerLifecycle` – done.
3. `Traversal`, the refinement and the proofs about `FeedPaging` – done.
4. `Hydration`, `FeedRequest`, `Readiness` – done.
5. Proofs about `FeedSelection`, `MaearthSelection`, `Hydration`, `Readiness` and
   `ServerLifecycle` – done.
6. `FeedRequest` with its refusals as one sequence, the proofs about it and its
   mapping to `HttpPipeline` – done.
