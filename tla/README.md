# A verification of schedulehub

schedulehub asks sea carriers for schedules and streams what they answer, in one
format, to its client. This directory holds TLA+ models of it, written from the Go
sources, the TLC configurations that check them, and proofs for TLAPS. `PROJECT.json`
lists, for every definition, the lines it models; for every property, the hazard it is
for; and for every property of a passing run, a plausible bug that breaks it.

## The system

| component | sources | state | operations | model |
|---|---|---|---|---|
| point-to-point pipeline | `p2p_schedule_handler/stream_service.go`, `p2p_schedules.go` | goroutines, unbuffered channels, a WaitGroup, the response | fan out, fetch, filter, validate, fan in, stream | `SchedulePipeline`, contract in `StreamedResponse` |
| post filters | `post_filters.go` | none | direct only, transshipment port, vessel, service | `PostFilters`, in `CarrierFetch`; a set, in `SchedulePipeline` |
| HTTP client | `internal/http` | attempt, contexts, page goroutines, buffer | `Fetch`, `fetchPartialContent` | `HttpFetch` |
| response cache | `internal/database/redis.go` | a channel of 50, a mutex, Redis | `AddToChannel`, `Set`, `Get` | `ResponseCache`, in `ServerLife`; promises in `SharedCache` |
| carrier fetch | `external/interfaces`, `carriers_factory.go` | none beyond the call | token, locations, schedules | `CarrierFetch` |
| point-to-point adapters | `external/carrier_p2p_schedule` | none | `GenerateSchedule` per carrier, the validator | `CarrierAdapters` |
| vessel voyage pipeline | `mvs_handler/mvs_stream.go`, `master_vessel_schedules.go` | goroutines, channels, response; two package variables of the Maersk adapter | as above, with API or database per carrier | `VesselSchedules` |
| vessel call assembly | `mvs_stream.go`, `oracle.go`, the SQL | none | rows to port calls | `VesselCalls` |
| vessel adapters | `external/carrier_vessel_schedule` | `scac`, `imo` of Maersk | `GenerateSchedule`, `GenerateVesselCalls` per carrier | `VesselAdapters`, in `VesselCalls`; the variables in `VesselSchedules` |
| configuration | `configs`, `middleware/app_config.go`, `routers/app_config_router.go` | two maps under locks | `Watch`, `Reload`, `Get` | `ServiceConfig` |
| query validation | `middleware/query_validator.go` | none | which carriers a request may have | `ServiceConfig` |
| start-up and shutdown | `cmd/api`, `internal/dependencies` | four servers, singletons | serve, stop, `Shutdown` in turn, crash, restart | partly, in `ServerLife` |
| error tracker, secrets, logging, CORS, headers, routers | `internal/exceptions`, `internal/secret`, `internal/middleware`, `internal/routers` | a counter per error message | | not modelled, see below |

How they interact. A router's middleware puts the configuration and the validated
query into the request's context (`ServiceConfig`). The handler starts a chain of
goroutines per carrier (`SchedulePipeline`, `VesselSchedules`); the first of each chain
runs `FetchSchedule` (`CarrierFetch`), whose calls are each a `Fetch` (`HttpFetch`),
which looks into Redis and hands what it fetched to the cache's channel
(`ResponseCache`); the adapter turns the document into schedules (`CarrierAdapters`),
which are filtered as the request asks (`PostFilters`), or into port calls
(`VesselAdapters`); for the database, rows become port calls (`VesselCalls`). Requests
come to the servers of a process that stops, crashes and starts again (`ServerLife`).
The modules compose through what they assume of each other: the pipeline takes a carrier's answer to be any
batch, or none, which is what `CarrierFetch` can return; `CarrierFetch` and the
pipelines take a `Fetch` to end, which is the property `Returns` of `HttpFetch`;
`ResponseCache` reduces a `Fetch` to its cache steps and takes the order of these steps,
a hand-over at most once and only of an answer that is returned, from
`CachesWhatItReturns`; `ServerLife` extends `ResponseCache`, and `CarrierFetch` the
adapters and the filters.

What is hard here: rendezvous over unbuffered channels under cancellation; a WaitGroup
that must count exactly; a document written by two goroutines; retries that race with
deadlines and disconnects; a channel drained by whichever request ends; variables shared
by all requests; a configuration replaced under way; a process that stops or dies with
answers on their way to Redis; answers with gaps, in eleven formats.
`PROJECT.json` lists these hazards line by line. What makes each component correct is
stated as its properties, below.

## Modules, state and actions

Properties are at the end of each module. A definition under a comment
`\* mutant of X: ...` is no part of the model: it is X with the bug that the comment
names, to show which property would find it.

**SchedulePipeline.** One request. Per carrier code of the request the goroutines
`consolidate`, `filter` (if the query names a filter), `validate` and `transfer`; then
`fannedIn`, `writer` and `handler`. A goroutine is a record of where it is and the batch
it holds. A send over an unbuffered channel is one step with its receive; every send is
in a select with `ctx.Done()`, so each has an `...End` or `Abort...` alternative that is
enabled once `cancelled`. What a goroutine computes between its receive and its next
select touches only its batch and is part of the receive; `writer` has a step per
schedule, since the writes are visible. A batch is a function from places in the
carrier's answer to schedules, so filtering keeps the places, and the order in which
`body` lists them can be compared with the answer. A carrier stands for a place in the
request's scac list (the code does not remove duplicates). `crashed` is a panic in a
goroutine that no recovery covers; nothing happens afterwards. A fetch that begins under
a done context yields nothing; one under way may still yield an answer.

**StreamedResponse.** What a reader may rely on: batches whole and one after the other,
each in order; a footer at the end that says whether there was anything. Both pipelines
implement it: `SchedulePipeline` under the mapping `offered = Passed(answer)`, and
`VesselSchedules` for each request, with the batch of at most one valid schedule.
`Offer` lets a batch become known, or another one before anything of it was written: in
the pipeline it becomes known when the fetch ends. `offered'` on the right of its own
equation is deliberate: any new value is allowed for that one carrier.

**HttpFetch.** One call of `Fetch`. `pc` follows the loop; `expired` is the deadline of
the attempt's context, reset when the next attempt makes its own. The answer is any of
200 (read whole or not), 206 (with a usable Content-Range and up to `MaxPages` further
pages, or not) or another status, or there is none. Pages run concurrently and fail or
merge a body of any content, since their status is not looked at.

**ResponseCache.** Requests that share keys. A `Fetch` is its start, lookup, answer and
hand-over; `Set` is lock, drain one by one, unlock, and transactions. Different answers
of a carrier are different numbers; some of them (`Unusable`) are documents that the
reader of the fetch asserts or indexes something in that is not there. `got` is the
answer between its arrival and its hand-over, and stays what it is after it if it is
unusable and still to be read. `Conflict` is `TxFailedErr`, `Fail` any other error,
after which the commands may or may not have taken effect. An abandoned request's
handler may return before its fetches do, which is what lets late answers into the
channel.

**ServerLife, SharedCache.** The process around `ResponseCache`: `Stop` is the signal,
`Shutdown` closes the listeners of the next server and waits until the one before is
idle or the `Deadline` they share has passed, `Panic` is a goroutine that reads an
unusable document, `Gone` what either end does to the memory of the process (the channel,
the batches and every goroutine are lost, Redis is not), `StartUp` the next process.
`SharedCache` is what users of Redis may rely on, whatever happens to the processes:
what is there was given by a carrier and is not overwritten. `ServerLife` implements it
under the mapping `offered = InFlight`, the answers that some goroutine or the channel
holds.

**CarrierFetch, CarrierAdapters, PostFilters.** `CarrierFetch` is `FetchSchedule`,
followed by the filters for its batch; adapters and filters are operators on routes and
schedules. A route is the content that the carriers' documents share; the
seven adapters read it as their code does, with their own defaults for missing dates,
modes, vessel numbers and services. A date is what the clocks of its place show, in hours,
and the form it is written in: without an offset, in UTC, or with an offset. An adapter
converts from one form (`Layout`) and takes a date without an offset as it is; in another
form it is dropped (`ConvertDateFormat`), and so is every offset that was parsed, so that
from then on dates of two time zones are compared by their clocks. MSC and Maersk pass
dates on, MSC the cut-offs too. `Panics` collects what the adapters index or dereference
unchecked.
`getLocationCode` of CMA falls through from an origin without any code to the code of
the destination, but `GenerateLegPoints` panics on the same leg, so nothing of it gets
out. Hapag-Lloyd and ONE answer with the same DCSA document and their adapters take the
same steps. The validator is `ValidSchedule`.

**VesselSchedules.** Requests to the vessel handler, as `SchedulePipeline` without the
filter. The steps of the Maersk adapter between writing and reading the package
variables `scac` and `imo` are separate actions; they race, and since the strings of a
kind all have the same length, a racing read yields a value that was written. The ONE
adapter reads `imo` too, which Maersk's writes, for the keys of its calls.

**VesselCalls.** The rows the SQL may select for a vessel's current and next voyage, as
`QueryContext` returns them, and the five functions that make port calls of them; or an
answer of a carrier's API and the adapter that makes port calls of it, from
`VesselAdapters`. The query has no DISTINCT and joins the names of the vessel, and a time
may be NULL, so what it selects of a voyage is a sequence of stops in which one may come
twice. Any of the rows may be lost, when `rows.Next` ends with an error. Each row that
fails to scan is kept with the columns before the failing one, whatever the others do
(`Cut`). The rows are in any order that the comparison of the sort allows (`Sorted`).

**Subsequences.** `ElementsAt` is the loop that appends some elements of a slice to
another, which the filters, the adapters and the assembly of port calls all are, and
`FirstOccurrences` the one that appends what it has not seen.

**ServiceConfig.** The file, the two copies of it with their watchers, and a request
that reads the middleware's copy and is admitted or refused. The file may hold maps,
things other than maps, nothing, or no YAML.

The modules `MC...` give the constants for TLC.

## Runs

| run | shows | bounds |
|---|---|---|
| `p2p_pipeline` | type correctness; no send on a closed channel; what is written is what passed, once, in order, nothing lost; nothing after the footer; the handler returns and no goroutine leaks; the contract | 2 carriers; 5 answers of 1 or 2 schedules of 4 kinds, or none |
| `p2p_unvalidated` | *violation*: a batch whose first schedule is valid is streamed unvalidated | as above |
| `http_fetch` | the cache gets what the caller gets; each page once; no page goroutine outlives its attempt; a cancelled call winds down; the call ends | 3 attempts, 2 further pages |
| `http_partial` | *violation*: "all or nothing" | as above |
| `response_cache` | an answer is in one place; a completed request leaves none behind, and none that is unusable; a batch is bounded by the channel; Redis is a cache that is never overwritten; every Set ends; an exit in time cuts no request off | 3 requests to 2 servers, of which 2 come, one shared key; channel of 1; 2 transactions; 2 answers, one unusable |
| `response_cache_all` | *violation*: "all responses are cached" | 2 requests, 2 keys, one shared; channel of 2 |
| `vessel_schedules` | every valid schedule is in the response; it ends; no leak; the contract | 1 request, 3 carriers (Maersk, ONE, database) |
| `vessel_shared` | *violation*: two requests at once mix up their vessels | 2 requests |
| `vessel_calls` | from the database each stop once, under the voyages that make it (and under both of the result, if its rows came twice); from an API no stop lost and no two calls mixed up; numbered in order | voyages of up to 2 stops, the same one twice or without a time among them; any rows lost, every row cut anywhere or whole; answers of up to 2 calls with up to 2 events |
| `service_config` | a request is admitted by one version of the file; changes arrive | 1 request, 3 codes, both copies |
| `carrier_fetch` | a carrier is asked only with what it requires; a complete route becomes a valid schedule; legs stay joined; what a search by vessel or by transshipment port finds | one route per answer, up to 3 legs; dates missing, in each of three forms, or an hour back; one parameter of the search at a time |
| `post_filter_service` | *violation*: "service code or service name" | as above |

Why the bounds are enough. In the pipelines a carrier's chain meets the others only in
the counter and the merged channel, so two carriers show every conflict of two, and the
theorems below hold for any number. Batches of two show first against later schedule,
which is all the validator and the order of writing tell apart. Three attempts are
first, middle and last. A channel of one is full and empty as often as possible; two
requests with a shared key have every race of two Sets and of a Set with a Fetch. With
two legs the adapters' special cases (first, last, index 1) are all met; the third leg
is there for what an adapter leaves out between two others. Filters are conjoined, so
one parameter at a time shows each. Two servers are one that is shut down and one that
still serves. An overlap needs two voyages with a stop each; a second stop of each is
there before the overlap, after it, or is the same again. Two calls are enough for a
duplicate and its original in either order. Dates are hours: an arrival an hour before
the departure is all the validator looks for, and the transit times are whole days.

`MaxPages`, `MaxAnswer`, `MaxRoutes` and `MaxBegun` are bounds of the models,
and so are the sets `Routes`, `Queries`, `Documents`, `StopLists` and `Voyages` of what the
environment may say; `MaxRetries`, `MaxTries`, `Capacity` and `Servers` are parameters
of the code.

Deadlock is checked in `service_config`, whose watchers never stop. Everywhere else the
system serves a fixed set of requests and stops when they are done (or when it crashed),
so `CHECK_DEADLOCK FALSE`; that it does not stop before is what the liveness properties
say. `carrier_fetch` and `vessel_calls` are short computations without any.

Fairness. Go's scheduler runs every goroutine that can run: weak fairness of each
goroutine's steps. In `ServerLife` each fetch and each request, with its handler and its
Set, gets strong fairness for its steps together, since a Go mutex is handed to a waiter
that has waited long. Signals, crashes and restarts have none. A deadline expires (the
runtime's timer) and whatever waits on a done context returns; that a carrier ever
answers is assumed nowhere. A database query ends by its time-out. Watchers wake up.
Nothing obliges clients to disconnect, operators to edit, or transactions to succeed.

## Where code and text differ

Five runs find that the code does not do what a text of the repository says; each is a
`findings` entry with the line quoted: schedules behind the first of a batch are not
validated (`stream_service.go:135`); a partial answer is not all or nothing
(`http_client.go:66`); not all responses are cached (`README.md:113`); two simultaneous
Maersk requests, or one to Maersk and one to ONE, may be answered with each other's
vessel (`README.md:105`); a search by "service code or service name"
(`request_schema.go:67`) looks at the code only.

## Proofs

`SchedulePipelineProofs` proves of `SchedulePipeline!Spec`, for any finite set of
carriers, any schedules and any answers (the named assumptions of `SchedulePipeline`, no
others): `TypeCorrect`, `ClosedAfterTransfers`, `StreamedFaithfully`, `StreamedOnce` and
`Complete`, which state `TypeOK`, `NoSendOnClosedChannel`, `StreamedIsPassed`,
`StreamedOnceInOrder` and `NothingLost`.

None of these is inductive by itself: that a schedule written now is one that passed
depends on what the chain holds, and that nothing is lost when the handler completes
depends on every goroutine having ended in turn. `Invariance` proves `[]IInv`, with

- `Counted`: the counter of the WaitGroup is the number of transfers not yet ended, and
  `fannedIn` is closed only when it is zero;
- `OneBatch`: a carrier's batch is in at most one of its goroutines and the writer, and
  those before it have nothing more to send;
- `Carried`: what a goroutine holds is the answer, its filtered part, or what passed, by
  how far it has come;
- `Streamed`: what the writer still holds of a batch is what passed, at places behind
  all that is written of that carrier;
- `EndsInOrder`: a goroutine of a chain ends only after the one before it, unless the
  context is done;
- `Settled`: while the context is not done, every batch is under way or written; a
  response completed for a client that is still there has them all.

Each part has a lemma that a step keeps it, with a step of the proof per action. `Settled`,
with `Counted` and the writer having ended only on a closed channel, gives `Complete`.

The last part of the module adds that a document is completed only after the writer has
ended (`Completion`) and that the writer leaves a batch only when it is written whole
(`LastWhole`), which gives `BodyFinalOnceCompleted` and `ImplementsContract`.

`HttpFetchProofs`, for any number of retries and pages: `TypeOK`, `CachesWhatItReturns`,
`PagesOnce`, `NoStragglers` and `WindsDownOnceCancelled`. The strengthening says that
before its return a Fetch has handed on nothing (`Unreturned`), has sent one request per
attempt (`SentPerAttempt`), has pages only while it waits for them (`PagesIdle`), and
that the buffer is the first page and one piece per merged page (`Merging`).

`ServerLifeProofs`, for any requests, keys, servers and sizes: `LifeTypeOK`, `InOnePlace`,
`LeavesNothingBehind`, `BatchBounded`, `CompletedLeavesUsable`, `ActiveRequestsComplete`
and `ImplementsCache`. A step of the process is a step of `ResponseCache`, the loss of
its memory, or changes nothing of the cache (`StepsOfCache`), so most lemmas do not
mention the process. The invariant: a Set starts after its handler (`Waiting`); the
mutex is held exactly by the Set that drains, and its batch and the channel together fit
the channel (`Locked`); a queued answer is in the channel or in a batch, not both, and no
two places hold the same one (`Located`); an unusable answer that was handed over is
still to be read (`Marked`), and a completed request has none to read (`Served`); and
while there is time, a server that was shut down before the last one has no requests
(`Closing`). For the refinement, answers in flight only get fewer, but for a carrier's
answer (`OffersShrink`), and a transaction stores answers of its batch where there was
none (`StoredFromBatch`).

`VesselSchedulesProofs`, for any requests and carriers: `TypeOK`, `EveryCarrierAnswered`
and `ImplementsContract` of each request. The invariant follows a schedule as in the
pipeline, but with a batch of at most one it is enough to say where each is (`Carried`,
`Settled`, `OnePlace`); what the package variables hold does not matter for it.

`ServiceConfigProofs` proves `AdmittedByOneVersion` for any files, codes and requests:
every copy, and what is read for it, is one version as a whole (`WholeVersions`), and so
is what a request has of it (`OneVersion`).

`SequenceLemmas` has the facts on which the proofs about data rest: what `ElementsAt`
(`ElementsAtSelects`), `FirstOccurrences` and `FlattenSeq` return for a sequence of any
length, and that every element of a finite set has a place in each arrangement of it
(`Arrangement`), which is what a sort returns. The provers cannot instantiate the
induction theorems of the library, which have an operator for a parameter. Here an
induction is over the set of the numbers for which something holds (`UpTo`), which
follows from every set of numbers having a least one (`LeastElement`), and a recursive
function is made of a step that is itself a function (`RecursiveFunction`).

`CarrierFetchProofs`, for any queries and for routes of any number and length:
`AskedWithWhatItRequires`, from what must have been asked before each point (`Prepared`);
and `StaysJoined`, `CompleteIsValid`, `VesselSearch` and `TransshipmentSearch`. None of
these can be seen from a step alone: what the schedules were made of and what was kept of
them depends on where the fetch is (`Adapted`, the second invariant). What is left
is about the adapters. A schedule shows the legs at some indexes of its route, in their
order, at least those that lead somewhere (`LegsShown`), each as the adapter makes it
(`LegBy`). Legs that were left out do not lead anywhere, so those around them still
meet; and what a filter looks for in a leg is compared with that leg of the route.

`CompleteIsValid` supposes a route that the carrier describes (`Described`), dates in a
form its adapter reads (`Dated`) and puts in order (`Chronological`), but dates of legs
may be missing where the adapter makes up for them. A date that is there is shown as its
clock says (`DateShown`). IQAX works a missing one out from the other, the duration of
the leg, and the dates of the route, so that the two are in order (`IqaxInOrder`). CMA takes the present for both dates of a leg that has none, and
what it shows of the whole schedule is then read off the legs (`CmaEndsInOrder`), as MSC
does it too (`MscEndsInOrder`). So every leg and every schedule is in order (`LegInOrder`).
The property does not say that the offsets are respected. They are not: a leg that ends
in a zone further west, at an earlier hour than it began, is not `Chronological`, is
turned down, and takes the batch with it. This is listed as a hazard that no
property covers, since nothing in the repository says which dates are meant.

`VesselCallsProofs`, for any stops, any voyages and any answers: `OneCallPerStop`,
`NumberedInOrder`, `CallsNameTheirVoyages`, `EveryStopListed` and `CallsAsStated`. The
invariant (`IInv`) says that the rows are different ones of those selected, each cut
somewhere or whole, in an order that the comparison allows (`Fetched`), and what a result
was made of. A cut row lacks its event, which the validator refuses, or its time alone
(`CutRow`); two rows of one stop make the same call, which is why leaving out equal calls
leaves one per stop (`FinalCalls`). Rows of one voyage with the same event, port and time
are counted as an overlap, and the code lists their call under both voyages:
`CallsNameTheirVoyages` says that a call names every voyage that makes it, and names no
other one unless two equal rows came for it. Of an answer, each adapter lists every
event that is dated once, and nothing that is not stated (`Lists`); sorting and leaving
out duplicates loses none, since the first of those at a port and time is kept
(`DuplicatesRemoved`).

The assumptions are the named ones of each module (`...Assumption`), which TLC evaluates
on every run.

Every safety invariant and every action property that a run checks is so proved, and all
refinements. Only model-checked are the liveness properties, and with them the use of
fairness, which are out of the prover's reach: `HandlerReturns` and `NoGoroutineLeak` of
both pipelines, `Returns`, `EverySetEnds` and `ChangesArrive`.

## Not modelled

- Text: names, terminals, header parameters, JSON and URL building; the numbers of
  voyages in the point-to-point adapters, beyond whether there is one. The offsets of
  dates, which the code reads past; minutes and seconds.
- `one.go` of the point-to-point adapters: no factory entry refers to it.
- The error tracker: it counts messages and would end the process at the sixth critical
  one, but the only source of critical errors, `ValidationErrorHandler`, is called by
  nothing, so that no step of the program depends on it.
- Start-up beyond its being over before anything is served: `dependencies.go` makes each
  singleton once, reads secrets and opens connections, or the process does not start. A
  server that fails to listen is a hazard without a property.
- Routing, recovery, CORS, headers and logging keep no state of requests. Recovery is
  modelled by what it does not cover: a panic in a goroutine of a request.
- The checks of the query's parameters other than its carriers: a refusal at any of them
  is one step.
- `HttpFetch` does not say what a page contains. What follows when a document of a 200
  answer is cached and cannot be used is in `ServerLife`.

## Plan

All items of the first plan are done, but for the error tracker, which turned out to
have no effect. What is left is worth less than it costs, in this order:

1. A refinement of `HttpFetch` by which `ServerLife` may take its `Fetch` as one step:
   now the two are tied by the property `CachesWhatItReturns` and by hand.
2. Two requests at a time in `service_config`, and both pipelines in one process.
