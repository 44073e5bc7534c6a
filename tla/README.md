# TLA+ models of citop's cache, refresh, tree projection, log export and Pusher client

This directory holds TLA+ specifications of the core of citop: the build cache,
the multi-provider refresh, status aggregation and the tree projection with its
window and search queries. It also holds the TLC configurations that check
them. Every definition is translated from the Go source. `PROJECT.json` maps
each definition to the lines it models, and it lists the runs, mutants,
findings and hazards.

## The system

| Part | Source | State | Operations |
|---|---|---|---|
| Status aggregation | `src/unnamed/part_000` 24-72 | none (pure) | `AggregateStatuses` |
| Cache store | `src/unnamed/part_000` 99-247, 309-370 | `builds map[buildKey]*Build` under `mutex` | `Save`, `SaveJob`, `Builds`, `fetchBuild`, `fetchJob`, `WriteLog` |
| Refresh | `src/unnamed/part_000` 249-307 | goroutines, channels `buildc`/`errc`, `subCtx`, WaitGroup | `UpdateFromProviders` |
| Projection | `src/cache/repository_builds.go` | `rows`, `treeIndex`, `dfsTraversal`, `dfsIndex`, `dfsUpToDate` | `FetchRows`, `SetTraversable`, `prefixAndIndex`, `Select`, `SelectFirst`, `SelectLast`, `NextMatch` |
| Log export | `repository_builds.go` 402-459 | temp files | `WriteToDirectory` |
| Pusher client | `src/unnamed/part_001` 1-274 | websocket `conn`, `connected`, `channels`, `socketID` | `NextEvent`, `Expect`, `Subscribe`, `Unsubscribe`, `Close`, `Authenticate` |
| utils | not in the tree | none | `DepthFirstTraversal`, `Bounded`, `Modulo` |

The parts interact as follows:

- `UpdateFromProviders` runs two goroutines per provider:
  - a producer that streams builds on `buildc`;
  - a consumer that `Save`s each build and starts a notifier goroutine that sends on `updates`.
- The UI goroutine reacts to `updates`. It calls `FetchRows`, which snapshots the cache with `Builds()`, and it queries the projection.
- `WriteLog` may run at the same time as a refresh. It reads a job, calls the provider outside the lock and writes the job back with `SaveJob`.
- `WriteToDirectory` walks a row's subtree, fetches its jobs from the cache and writes their logs into temp files.
- The Pusher client is the push channel of one provider: the caller reads events with `NextEvent`, subscribes to channels, and closes the client.

## Modules

| Module | Models | Checked by |
|---|---|---|
| `Status` | `AggregateStatuses`; the state is the input slice | `MCStatus.cfg`, `MCStatusExcused.cfg` |
| `Refresh`, `MCRefresh` | `UpdateFromProviders` | `MCRefresh.cfg` |
| `Cache`, `MCCache` | `Save`, `SaveJob`, `Builds`, `fetchBuild`/`fetchJob`, `WriteLog` for one build key | `MCCache*.cfg` |
| `RepositoryBuilds`, `MCRepositoryBuilds` | the projection, the queries, and the UI and the `Save`s that drive them | `MCRepositoryBuilds*.cfg` |
| `RefreshSpec` | what `UpdateFromProviders` promises, without goroutines | `MCRefresh.cfg`, through `Refresh` |
| `Export`, `MCExport` | `WriteToDirectory` | `MCExportLeak.cfg` |
| `Pusher`, `MCPusher` | `NextEvent`, `Expect`, `Subscribe`, `Unsubscribe`, `Close` against a Pusher server and a network that may drop the connection | `MCPusher.cfg` |

### `Status`

The variable `ss` is a slice of `[status, allow]` children. Every slice of up to `MaxChildren` children is an initial state. `Step` is the loop body and `AggregateStatuses` is `FoldLeft` started from `ss[1].status`, as in the code. `HighestOf(CountedStatuses(ss))` is the reference.

### `Refresh`

Each goroutine has a program counter:

- `prod[p]` for the producer: fetching, sending, reporting, done;
- `cons[p]` for the consumer: receiving, saving, reporting, done, failed;
- `notifiers` counts the live notifier goroutines;
- `main` is the caller, which drains `errc` and then returns.

Unbuffered sends are rendezvous:

- `Handover` is a send on `buildc` that meets the consumer's receive.
- `ProducerReport` and `ConsumerReport` are sends on `errc` that meet the drain loop (`Receive`, lines 290-304).

A producer blocked in a select can leave through `ProducerAbort` once the context is done. `Return` is the supervisor's `wg.Wait(); close(errc)` followed by the deferred `cancel()`. The provider's behaviour is nondeterministic, with two limits:

- it returns `ErrRepositoryNotFound` only before streaming anything;
- it returns the context error only after cancellation.

A build is its key and whether `Save` accepts it.

### `Cache`

Go maps are reference values, so the maps that the n-th `Save` allocated are `heap[<<n, loc>>]`, where loc is 0 for `build.Jobs` and a stage ID otherwise. A `Build` value, the cached one or a snapshot, is `[save, stages]`. It reaches the shared maps through `MapsOf`. `WriteLog` is split into one action per lock acquisition or provider call:

1. `WriteLogStart` runs `fetchBuild`.
2. `FetchJob` runs `fetchJob`.
3. `CallLog` runs `provider.Log`, outside the lock.
4. `SaveJob` writes the job back.

`remote` is the CI service's view of each job. A log is complete once the service's job has passed.

### `RepositoryBuilds`

A row is its `buildRowKey` `<<build, stage, job>>`. Every build has a fixed shape (`Shape`), and `cache` holds the `UpdatedAt` of each cached build. The variables correspond to the code as follows:

- `rows`, `trav`, `dfs` and `upToDate` are `s.rows`, the traversable flags of `s.treeIndex`, `s.dfsTraversal` and `s.dfsUpToDate`.
- `win` and `cur` are the rows the UI shows and its active row.
- `panicked` records that a runtime panic has ended the program; no step follows it.

The queries are modelled this way:

- `SelectIn` is `Select`'s body on a view.
- `FreshView` and `Refresh` are the lazy `prefixAndIndex`.
- `NextMatch` scans `dfs` as it is, exactly as the code does, and ends in `Select`. Its branches are the code's, in order:
  - a key that fails the type assertions (lines 273-284) returns an error; the UI can pass such a value only when it shows no row;
  - on an empty `dfs`, `utils.Modulo(_, len(s.dfsTraversal))` (lines 289, 293) is a modulo by zero, and the program panics;
  - no other matching row gives `ErrNoMatchFound`;
  - a match ends in `Select` on the window computed at lines 304-312.
- With no row shown, the UI passes the zero `buildRowKey` (`NoKey`) as top, bottom and active.
- Column text is abstracted to membership in `Matching`, and prefix strings are omitted.
- `Pos` gives Go's 0-based index, with 0 for a missing key, as a Go map read gives.

`SortedRows` allows every order of builds with equal times, because `sort.Slice` is not stable. Every property is checked under every such order; spec.md leaves the order unspecified, so none asserts a stable one.

### `RefreshSpec` and the refinement

`RefreshSpec` has three variables:

- `cache` is the set of saved build keys;
- `done` says whether the call has returned;
- `result` is the returned error.

`Save(k)` adds a key while the call runs. `Finish(e)` returns once, and returns not-found only if nothing was saved. Weak fairness on `Finish` says the call returns. `Refresh` defines `Abstract == INSTANCE RefreshSpec WITH done <- Returned, result <- ...`. The refinement mapping keeps `cache`, maps `done` to the caller having returned, and maps `result` to the returned error once it is returned. The run checks `RefinesSpec == Abstract!Spec` as a temporal property of the goroutine-level model.

### `Export`

The state is the export's control point `pc`, plus these sets:

- `todo`: jobs still without a file;
- `open`: jobs whose file is open;
- `paths`: the paths collected so far.

It also holds `result`, whether a `Streamer` was returned, the rows' traversable flags and each job's state.

- `Start(k)` is the key lookup and the subtree walk (`Below`, the `DepthFirstTraversal` of `utils`, with `all = TRUE`).
- `CreateFile(j)` is one iteration of the loop. `TempFile` may fail, and the error return leaves the files already created open.
- `WriteLogs` closes the finished jobs' files or fails. On success the `Streamer` takes the active ones.

`FetchJobs`, `WriteLogs` and `StreamLogs` are not in the source tree. They are modelled from spec.md 4.5.

### `Pusher`

The websocket is two FIFO queues, `c2s` and `s2c`. `conn` is `"open"`, `"closed"` (by `Close`) or `"dropped"` (by the network). `channels[ch]` is `"none"` when the key is absent, `"pending"` for `false` and `"subscribed"` for `true`. `socketID` is `""` until `connection_established` has been read. `channels` is kept because the code writes it, but nothing in the package reads `p.channels`, so no property is stated about it. `failed` records that a call has returned an error. The client's actions are the code's methods:

- `Read(t)` is one read:
  - On an open connection it pops one event and runs `Handle`, the `switch` of lines 111-139. It fails on `pusher:subscription_error`, which falls to the `default` branch as an unknown `pusher:` event.
  - On a dropped connection `readJSON` fails.
  - `NextEvent` is `Read(AnyEvent)`. `Expect(t)` is `Read(t)`, and it also fails when the event is not of type `t`.
- `Subscribe` sends a subscribe and sets the channel to pending:
  - For a private channel, `Authenticate` runs first. It may fail; otherwise the auth is signed for the current `socketID`.
  - `send` fails on a dropped connection.
- `Unsubscribe` sends an unsubscribe and deletes the channel. `send` may fail.
- `Close` closes the connection only if `connected`.

The server and the network are the environment and have four actions:

- `ServerEstablish` sends `connection_established` with the socket ID.
- `ServerReceive` answers a subscribe:
  - with either success event name;
  - with `pusher:subscription_error` when a private channel's auth was not signed for the socket (`Authorised`).
  It also drops a channel on unsubscribe and counts pongs.
- `ServerPing` sends pings.
- `NetworkDrop` drops the connection once, losing what is in flight and the server's subscriptions.

The caller is the package's test, generalised to subscribe and unsubscribe at any time, including before `connection_established`. It reads in a loop. On the first error from any call it gives up (`t.Fatal`), which runs the deferred `Close`.

## Runs

| Run | Result | Shows |
|---|---|---|
| `refresh` | pass, 384,724 states | The result is right (`ResultReflectsProviders`, `RootCauseReported`, `NilMeansComplete`: nil only after every streamed build was saved). The call always returns and no notifier leaks. The model implements `RefreshSpec` (`RefinesSpec`). |
| `status` | pass, 4,369 states | A counted child never outranks the aggregate. The fold equals the reference when the first child counts. |
| `status_excused` | violation | `<<allowed Canceled, Failed>>` aggregates to Canceled (see Findings). |
| `cache` | pass, 3,392,656 states | Concurrent `WriteLog`s, `Save`s and `Builds()` keep the cache's maps well formed (`TypeOK`); the run exercises every `Cache` action for the two violation runs below. |
| `cache_stale_job` | violation | `WriteLog` brings back a job state, or a job, that a later `Save` replaced. |
| `cache_snapshot` | violation | A snapshot from `Builds()` changes after a later `SaveJob`. |
| `repository_builds` | pass, 33,312 states | The view is current whenever it is marked current (`ViewIsCurrent`). Every window query, a `NextMatch` hit included, fills the window instead of shrinking it at the ends of the view (`WindowIsFull`). |
| `search_stale` | violation | After an expand, `NextMatch` skips a match that the UI now shows (`SearchFindsShownMatch`). |
| `search_empty` | violation | `NextMatch` on an empty flattened view panics with a modulo by zero instead of reporting no match (`NoPanic`). |
| `export_leak` | violation | A `TempFile` or `WriteLogs` failure returns while files are still open. |
| `pusher` | pass, 68,302 states | Every ping the server sends is answered with a pong that reaches it, unless the client is closed, whatever subscribes, unsubscribes and network drops happen (`PingAnswered`). |

Each property of a passing run has a mutant in `PROJECT.json`: a plausible bug in the mapped code, written as an operator beside it. TLC finds each mutant violating its property.

## Findings

1. **Aggregation starts from an excused child** (`part_000:62`). The fold starts from `ss[0].Status()` even when that child is allowed to fail. The spec's own example, an allowed Canceled child among Passed children, yields Canceled whenever that child comes first.
2. **Stale write-back in `WriteLog`** (`part_000:357`). The job copied before `provider.Log` is stored into the build cached now. A `Save` in between is partly undone.
3. **`Builds()` is not a snapshot** (`part_000:243`). The copies share the `Jobs` and `Stages` maps with the cache. `SaveJob` changes them after the lock is released, which is also a data race with the reader.
4. **`NextMatch` does not refresh the view** (`repository_builds.go:284`). It reads `dfsIndex` and `dfsTraversal` while they are stale. The spec says the view is rebuilt before any query.
5. **`NextMatch` panics on an empty view** (`repository_builds.go:289`, `293`). `utils.Modulo(s.dfsIndex[activeKey]±1, len(s.dfsTraversal))` runs before the loop and without refreshing the view. Before the first query, and after `SelectFirst` or `SelectLast` on an empty tree, `len(s.dfsTraversal)` is 0, so a search divides by zero. The spec says a search that finds nothing returns the no-match condition. The counterexample calls `NextMatch` with the zero key before any query; after `SelectFirst` on an empty tree it is one step longer.
6. **Export leaks files on error** (`repository_builds.go:434`, `447`). A `TempFile` failure returns without closing the files created before it. A `WriteLogs` error returns without closing the active jobs' files, and no `Streamer` will ever own them.

## Bounds and why they are enough

- `refresh`:
  - There are two providers with two builds each, and `Limit` is 2.
  - Every pairing of not-found, fatal, cancelled and nil results across two providers occurs.
  - So do a blocked producer behind a failed consumer, and cancellation racing sends.
- `status`: every slice of up to 3 children over all 8 states and both flags is checked. The aggregation only compares pairs.
- `cache`:
  - The build has two jobs, one outside any stage and one in a stage.
  - There are two writers and two saves.
  - Two saves are the least that shows a write-back crossing a `Save`. Two writers let a write-back race another writer.
- `repository_builds`:
  - There are two builds: one with a stage holding a job plus a job outside any stage, and one with a job outside any stage.
  - There are two times, so equal times occur and can be reordered.
  - The window height is 3, which is less than the longest view (6 rows), so clamping at both ends and shifting happen.
  - The UI passes the keys of the rows it shows, and every query asks for `Height` rows.
  - The initial state has an empty view, and `SelectFirst` on the empty tree keeps it empty, so the empty-view search occurs; every branch of `NextMatch` is taken in the passing run.
- `export_leak`:
  - The build has a job outside any stage and a stage with two jobs.
  - Every combination of traversable flags and job states is an initial state, so a collapsed stage holding a job occurs.
  - Every key is tried, and so is a key with no row.
- `pusher`:
  - There are two channels, one public and one private.
  - The caller makes at most 3 `Subscribe`/`Unsubscribe` calls (`MaxCalls`), and the server sends at most 2 pings (`MaxPings`).
  - Three calls are enough for a subscribe, an unsubscribe and a re-subscribe while pings are in flight.
  - The network drops at most once, because the code never reconnects. The drop can happen at any point, so subscribes, acknowledgements and pongs in flight are all lost in some run.

## Fairness

`Refresh` assumes weak fairness of every goroutine step:

- the producers' return, send, abort and report;
- the consumers' save, report and exit;
- the notifiers' context case;
- the supervisor.

The Go scheduler eventually runs a runnable goroutine. A provider's call ends because it is bounded by `limit` and the HTTP client. Two things get no fairness: the UI reading `updates`, and the caller cancelling its context. The code does not control either. The liveness properties hold without them. 
`Pusher` assumes weak fairness of `NextEvent`, because the caller reads events in a loop until it closes. It also assumes weak fairness of `Close` once a call has failed, because `t.Fatal` runs the deferred `Close`. The server is assumed to establish the connection and to process what it receives. `Subscribe`, `Unsubscribe`, `Expect`, `Close` otherwise, and the network drop are the caller's or the network's choice and get no fairness. The model stops once the bounds are used up and the caller is blocked reading, or once the caller has closed, so `MCPusher.cfg` does not check deadlock. `RefreshSpec` assumes weak fairness of `Finish`, which `Refresh`'s goroutine fairness implies. The other modules check only safety. `MCRepositoryBuilds*.cfg` do not check deadlock, because a panic in `NextMatch` stops the program: no step follows it.

## Not modelled

- **Pusher details** (`part_001`):
  - `Authenticate`'s HTTP request is modelled as a call that may fail. Its signature is modelled as the socket ID it signs.
  - `PusherUrl`, `UnmarshalPayload` and the activity timeout are not modelled. Neither are the `member_added`, `member_removed` and `pusher:error` events. The server never sends those events, because the caller does not use presence channels.
  - A write that fails on a connection that is still open (a context deadline) is not modelled. It ends the session the same way a dropped connection does.
- **`Close` on an unconnected client** (`part_001:188`). `Close` closes the websocket only if `connected`, so a client closed before `connection_established` leaks its connection. The `Close` action keeps this behaviour, but this one-step leak is listed as a hazard and not checked by a run.
- **Export file contents**: the bytes written and the `Streamer`'s later behaviour are not modelled.
- **Export maps keyed by `Job` value** (`repository_builds.go:429-430`). Two jobs with equal field values would share one map entry, and one file would be neither written nor closed. That needs the same job ID in two stages of one build, which the model's jobs (distinct model values) never have. `FetchJobs`, which would decide what such keys return, is not in the source tree.
- **What is left**: `Status`, `Cache`, `Refresh` and `RepositoryBuilds` model every operation of their code. The parts still marked `partly` stop where the code calls what is not in the source tree: `FetchJobs`, `WriteLogs` and `StreamLogs` for the export, the HTTP side of `Authenticate` for the Pusher client, and the `utils` helpers other than `DepthFirstTraversal`, `Bounded` and `Modulo`. Anything more would be modelled from guesses.
- **Not modelled at all:**
  - the providers' HTTP clients, log post-processing and terminal rendering, which are I/O;
  - invalid timestamps in the `FetchRows` comparator. The comparator would not be a strict order if an `updatedAt` were invalid, but `buildRowFromBuild` always sets `Valid: true` (`repository_builds.go:139`), so this cannot happen.
