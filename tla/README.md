# A TLA+ model of typst-mcp

typst-mcp is a server that renders Typst documents to PDF. Clients upload
templates and assets, ask for a render over REST or MCP, and download what was
rendered through signed links. Every compile runs in a worker process with a
deadline, everything stored is charged to a tenant and expires, and requests
are authenticated with API keys or with tokens of an OpenID provider.

This directory holds TLA+ modules translated from the Rust source, the TLC
configurations that check them, and proofs that TLAPS checks. Paths such as
`store.rs:388` are relative to `src/src/`.

## 1. Inventory

| component | source | state it keeps | operations | modelled in |
|---|---|---|---|---|
| object store, reaper | `store.rs`, `server.rs:144` | index and counters behind a mutex; directories on disk | put, put_with_id, get, entry, list, delete, reap, open | `Store`, `ObjectStore` |
| OIDC signing-key cache | `oidc.rs:141-411` | cached keys, unknown ids, last failure; refresh mutex | key, fetch_keys | `KeyCache` |
| compile service | `spawn.rs`, `metrics.rs:246`, `render.rs:209` | semaphore, child processes, temporary directories, gauge | compile, acquire, drop | `CompileService` |
| worker and its pipes | `worker.rs`, `protocol.rs`, `job_io.rs`, `spawn.rs:83` | three pipes, frames, exit status, staged files | stage, execute, read_outputs | `Worker` |
| document compilation | `compile.rs`, `world.rs`, `diagnostics.rs` | none | files seen, diagnostics, pages, previews, pixel budget | `Compile` |
| render pipeline | `render.rs` | none of its own: the store, the compile service | compile, assemble, load_assets, store_result, upload and delete templates | `RenderPipeline` |
| REST handlers, MCP tools | `api.rs`, `mcp.rs`, `error.rs` | none | one per route and tool | `Requests` |
| bundles and paths | `bundle.rs` | none | normalise_path, Bundle::new | `Bundle` |
| templates, archives | `templates.rs`, `typst_value.rs:154` | baked templates, fixed at start | load, archives, validate, assemble, source map | `Templates` |
| OIDC claims, tenants, API keys | `oidc.rs:180`, `principal.rs`, `auth.rs` | configured keys | validate, authenticate, derive | `Credentials` |
| download links | `signing.rs`, `api.rs:727-864` | signing key | sign, verify, download | `Credentials`, `Access` |
| OAuth relay | `oauth_proxy.rs`, `oauth_redirect.rs`, `oauth_metadata.rs:165` | none: state and code are sealed messages | authorize, callback, token, register | `OAuthRelay` |
| MCP sessions | `session.rs` | live sessions, cap, creation mutex | create, restore, close | `Access` |
| configuration | `config.rs` | fixed at start | from_source | `Config` |
| server, shutdown | `server.rs`, `main.rs` | none | build, serve | start, stop and reaper only |
| metrics text | `metrics.rs` | counters | observe, encode | gauge only |
| fonts, telemetry, audit, literals | - | none | formatting, logging | not modelled |
| templates, scripts, CI, examples | `src/` outside `src/src/` | - | - | not program logic |

**How they interact.** A REST or MCP handler is authenticated (`auth`, which
calls the key cache for tokens), assembles a document from the store's templates
and assets (`render`), compiles it in a worker (`CompileService`), stores the PDF
and then its previews (`Store::put`, `put_with_id`), and answers with signed
links (`signing`). The reaper task shares the store with all handlers. All state
is in memory except the store's directories, from which `Store::open` rebuilds
the index when the process starts, and the messages of the OAuth relay, which
travel through the client and the provider.

**What is hard.**

* *Store*: `get`, `delete` and `reap` look at the index under the mutex and touch
  the disk without it, so handlers, the reaper and each other's half-done file
  operations interleave; I/O fails between two of them; the process dies anywhere.
  Correct means that counters never drift, quotas and ceilings hold, what is
  indexed survives a crash, what was removed stays away, expired objects go.
* *Key cache*: state is read, the mutex let go, the refresh queued for, the state
  read again, the provider asked over an await, and the answer written after it;
  the provider rotates its keys meanwhile, and the client may hang up at each
  await. Correct means that refreshes are shared, new keys are noticed and
  withdrawn ones expire within known bounds, and an outage spares known keys.
* *Compile service*: the queue timeout races with a released permit, the deadline
  with the worker's answer, the client's hang-up with everything. Correct means
  that no slot is lost, workers are bounded, the gauge does not drift and every
  request ends.
* *Worker pipes*: parent and child can block each other when a pipe is full; the
  child dies with the job half read, or answers more than a frame may hold.
  Correct means that every job ends, a broken document is told from a broken
  worker, and what explains a failure reaches the caller.
* *Render pipeline*: an asset is listed and then read after it may have expired;
  storing the result fails after the PDF; a preview revives a job that the reaper
  has just removed; a template is accepted under one budget and used under
  another. Correct means that what is compiled is well formed and within budget,
  and that both a refusal and a success mean what they say.
* *Access*: sealed OAuth messages come late, twice or to the wrong client, the
  server restarts with another key in between; a link's expiry and the object's
  TTL are looked at in two moments; two callers share an MCP session. Correct
  means that a login ends with who began it, a caller is served its own tenant,
  and a download has a reason.

`PROJECT.json` lists each hazard at its line with the properties that cover it.

## 2. How the modules fit together

```
       StoreRefinement
Store ----refines----> ObjectStore <--INSTANCE-- RenderPipeline
                                                      |  EXTENDS
                     Bundle <- Templates <----- Requests
                       ^
                       +--- Compile <- Worker

Config <- Credentials <- OAuthRelay <- Access
KeyCache            CompileService
```

`Bundle`, `Templates`, `Requests`, `Compile`, `Config`, `Credentials` and `OAuthRelay`
hold pure definitions: each check of the code is an operator that returns
the reason it refuses for, or `"ok"`, in the code's order. `RenderPipeline`, `Worker`
and `Access` are the state machines that call them. No module has a RECURSIVE
operator, so any of them may be proved about.

The theorems about a state machine are in a module named after it that EXTENDS it:
`StoreProofs`, `KeyCacheProofs`, `CompileServiceProofs`, `WorkerProofs`,
`AccessProofs`, `RenderPipelineProofs`; `StoreRefinementProofs` extends
`StoreRefinement` and `StoreProofs`, and `SumLemmas` holds what several of them
need about sums. Every safety and action property of the passing runs is a
theorem; what is left to TLC is liveness, the five runs that show a disagreement, and
that the assumptions on the constants can be met.

## 3. The modules and the code

**`Store`.** A key stands for a (tenant, kind, id) triple. `index`, `perTenant`,
`perTenantEntries` and `total` are the fields of `Index`; `lock` is the mutex;
`disk` maps each existing directory to its files, each with a size or with the
`Entry` that `write_meta` put there; `strays` counts bytes left under `root/tmp`;
`leftovers` are the directories that outlived a removal, or were left out by an
`open`, because of an I/O error (it is read by no guard: it records what the
errors the code drops have left).

`put_with_id` holds the mutex through `BeginPut`, `Stage`, `Rename`, `WriteMeta`, the
turns of the eviction and `EvictDone`; `Get`/`Read`, `Delete`/`Unlink`*/`RemoveDir`/`Unindex`
and `ReapScan`/`ReapNext` follow the code in letting go of the mutex before they touch
files. `remove_dir_all` is the same for all who call it: it lists the directory
(`StartRemoval`), unlinks what it saw one file at a time (`Unlink`) and removes the directory
if nothing new has appeared (`RemoveDir`). A turn of `evict_locked` is `BeginEvict`, those
steps with the mutex held, and `Evicted`. `Restart` may happen between any two
steps, so also in the middle of an eviction; `RebuildDir`, `DropDir` and `SkipDirs` are the
turns of `rebuild_index`. `entry` and `list` read the index only (`Live`).

Each action that changes the disk has its failure, at most `MaxIoErrors` of them in a
behaviour: `StageFails`; `RenameFails` and `WriteMetaFails`, whose clean-up may fail as
well; `RemoveFails`, before or after any unlink, after which the entry is unindexed all
the same, since `store.rs:490` and `:508` drop the error; in `open`, metadata or a directory that
cannot be read, and a removal that takes some of the files only (`DropDir`), and a
`read_dir` that fails and leaves out what lies below it (`SkipDirs`). Reads
that fail in `get` change nothing. `create_dir` failing is a put that is refused.

What a failed removal means: the caller is told that the object is gone, its files are
under no quota and no ceiling until the next start, and then, if its metadata are
among them, `open` indexes it again with its old expiry.

Sizes are small numbers, contents are not modelled, and only two preview names exist. A refused upload changes nothing and is not an action,
except that it ends the request of a client that was storing previews.

**`KeyCache`.** `cache`, `unknown` and `failure` are the fields of `KeyState`,
`owner` and `waiting` the refresh mutex with its fair queue. `Inspect` and
`Recheck` are the two calls of `inspect_key_state`, whose order of checks is
`Verdict`; `StartFetch`, `Serve` and `StoreKeys`/`FetchFails` are `fetch_keys` cut
where it awaits; `Cancel` drops a request at an await. An `Instant` is the time
elapsed since it, counted up to the value beyond which the code no longer
distinguishes. `published` and `changed` are the provider's; `ended` and
`sinceStart` record history for the properties and are read by no action.

**`CompileService`.** `permits` and `queue` are tokio's semaphore; `child` the
process of each request; `workspaces` the temporary directories; `inFlight` the
gauge. `Start` to `Stage` is `RenderService::compile` and `compile_bundle`,
`Acquire`/`QueueTimeout`/`Granted` is `acquire`, `Spawn` to `Reap` is the rest of
`CompileService::compile`. `Cancel` drops the future wherever it awaits: the permit,
the observation and the directory are released by their destructors, the child
gets a SIGKILL and becomes an orphan. The deadline does *not* release the permit
before the killed worker has been waited for. What goes through the three pipes
is one step here and the subject of `Worker`.

**`ObjectStore`.** The store without its mutex, its directories and its counters:
`objects` maps a key to its entry, `doomed` holds the keys that `delete` or `reap`
has picked, `minted` the ids given out. What faults of the storage may do to users is part
of the promise: `faults` counts them, `leftovers` holds the keys whose files
stayed (`LeaveBehind`, only of what was due to go or to be evicted), and between a `Crash`
and `Opened` (`opening`) a fault may `Lose` objects nobody removed. A crash brings back nothing
but leftovers, what was in the middle of being removed, and documents. `StoreRefinement`
maps `Store` to it: an entry is visible as long as the index has it or, while the server is
being restarted, as long as `open` would index it again; what the reaper or a `delete` has
in hand is doomed; a fault is an I/O error. `RenderPipeline` is built on this module
and reuses its actions, in an instance where no removal fails and nothing restarts.

**`Bundle`, `Templates`, `Requests`, `RenderPipeline`.** A file is a record of its
path (a sequence of names), its size, whether it is UTF-8, and what its content
means to the program: a manifest, a schema, data, a body, a generated file, or
nothing. Names are members of small sets with the attribute the code looks for
(too long, not normal, reserved, a dot name). `PathFault` and `BundleFault`
are `bundle.rs`; loading, archives, validation, assembly and the source map are
`templates.rs`. `Requests` turns each route of `api.rs` and each tool of `mcp.rs` into
a call, with the checks it makes before it reaches the store. `RenderPipeline` carries
calls out and classifies errors: `Begin` takes one, and each look at the store is a
step of its own (`Preflight`, `Fetch`, `Assemble`, `Store`, `Preview`, `List`,
`Reading`...), so that the reaper, evictions, the clock and the other handler get
in between; reads and writes of files may fail. A compile is one step with every outcome that `CompileService` and
`Worker` can give. `blob` is what `get` would read, `watch` which of the ids alive when
a call began have been alive ever since; no action but the one that maintains it reads
`watch`.

**`Compile`, `Worker`.** `Compile` is what the child computes: the files a
document may see, what becomes of its diagnostics, the pages it may have, the
scale of each preview. The typst compiler's outcome is part of the job.
`Worker` is one job's two processes over three pipes of `PipeUnits`: `parent`
stages the files, writes the job and reads both outputs at the same time;
`worker` reads the frame, executes, writes the reply and exits with its code. `faults`
names what went wrong by itself: a failed write of a file, a worker that died, a
deadline.

**`Config`, `Credentials`, `OAuthRelay`, `Access`.** An environment is a record of
settings in the form the code distinguishes them; `ConfigFault` and `ConfigOf` are
`Config::from_source`. URIs are records of their parts, secrets a name and a length, scopes
a base and a name. A sealed message is its domain, its key and its body, an HMAC its
key and what it covers, so that different ones are different. `Access` is the
server as its callers see it: `Start` with any environment and `Stop`, a clock that
may also step back, the four steps of a relayed login with every message ever
sealed available for replay, the two doors, creation of a session in the two steps between
which the code holds its mutex over an await, links, and a download in the two moments at
which a link and then the object are looked at.

Each module holds, next to some actions, a *variant*: the action with a
plausible mistake. No specification uses them; they serve to see that each property fails when
the code is wrong in that way.

## 4. The runs

| run | instance | question | result |
|---|---|---|---|
| `store_safety` | 2 clients, a document and a template of one tenant, 1 restart, 2 I/O errors | quotas, ceilings, crash safety, what comes back, refinement of `ObjectStore` | holds |
| `store_liveness` | 1 client, a document and a template of 2 tenants, time to 2, 1 restart, 1 I/O error | exact counters; expired objects go; the mutex comes free | holds |
| `key_cache` | 2 requests, 1 provider key and 1 that never exists, 2 rotations, fetches fail | sharing, bounds, outages, answers | holds |
| `compile_service` | 3 requests, 2 slots, 1 orphan | permits, workers, gauge, answers | holds |
| `worker_job` | 17 jobs, pipes of 1 unit, frames of at most 3 | answers, pipes, diagnostics, deadlock | holds |
| `render_pipeline` | 2 handlers, 3 ids (one per kind), 28 calls of 2 tenants | budgets, consistency under expiry, answers | holds |
| `access` | 15 environments, 2 users and a service, 2 sessions, time to 2 | logins, identity, sessions, downloads | holds |
| `store_reaps_live` | 1 client, 1 document | does the reaper take only what has expired? | violated |
| `store_disk` | 1 client, 1 I/O error | is the disk bounded? | violated |
| `store_meta_name` | 1 client, an asset named meta.json | does get return what put stored? | violated |
| `key_cache_window` | as `key_cache`, no failures | at most one refresh per window? | violated |
| `template_first_use` | as `render_pipeline` | does an accepted template fit in a bundle? | violated |

What the properties say:

* `Store`: `StoreBounded` (ceilings hold whenever the mutex is free),
  `GrowthWithinQuota` (no step takes a tenant past its quotas, however uploads
  interleave), `EntriesExact` and `BytesExact` (counters equal the index, double
  removals and restarts included), `Recoverable` (a crash at this very moment
  would lose nothing that is indexed), `GoneForGood` (an asset or template that has left
  the index would be indexed again by `open` only if an I/O error kept its files, in
  a `remove_dir_all` or in an earlier `open`; the code does not promise more. Documents are
  excepted because a late preview does revive a removed job), `ExpiredReaped`,
  `MutexReleased`, and `ImplementsObjectStore` (to those who use it the store is `ObjectStore`:
  an object disappears only when its removal was due or the store was above a
  ceiling and nothing was older; a crash loses nothing but what was being removed or
  evicted, and brings back nothing but what a failed removal left, what was being removed,
  and documents; only an I/O error in `open` loses anything else).
* `KeyCache`: `RefreshShared`, `NewKeyNoticed` (no key is called unknown once
  published for `FETCH_TIMEOUT + JWKS_REFRESH_INTERVAL + UNKNOWN_KID_TTL`),
  `WithdrawnKeyExpires` (no key is accepted once withdrawn for `JWKS_TTL +
  FETCH_TIMEOUT`), `OutageSparesKnownKeys`, `EveryRequestAnswered`. The second
  bound is tight (one less is violated); the first is the supremum of delays in
  real time, which ticks of one unit do not quite reach.
* `CompileService`: `PermitsConserved`, `WorkersBounded`, `GaugeExact`,
  `EveryRequestAnswered` (even when workers never end by themselves).
* `Worker`: `JobEnds` (no order of reads and writes makes the two processes wait for each
  other), `CompleteResult` (a success has all previews asked for within their
  pixel budget), `StderrKept` (a worker that failed is reported with all it said),
  `BrokenDocumentNotBrokenWorker` (unless something went wrong by itself, the kind of
  the answer tells which of the two is broken), `DiagnosticsKept`.
* `RenderPipeline`: `BundlesWellFormed` (against a definition of a bundle that does
  not use the code's checks), `LoadedWithinBudget`, `AcceptedTemplatesReadBack`
  (an accepted archive is never refused later), `DiagnosticsInCallersTerms`,
  `RefusalsJustified` (no 404, 410 or gap in a listing for an object that was
  there all along), `SuccessIsComplete`, `UsesStoreAsPromised`.
* `Access`: `SessionsWithinCap`, `RelaysExactly` (both directions: a code works for
  the flow it belongs to and no other, and for that flow it always works),
  `ServedAsThemselves` (both directions as well, stated without the code's order of
  checks), `DownloadsJustified`.

**Bounds.** Two clients give every interleaving of two critical sections, the
reaper a third party; quotas of two files are reached, exceeded and freed. A document and a
template suffice because kinds differ in their TTL, in having previews and in being deleted by
clients, and an asset has neither of the last two. In `store_safety` both objects are one tenant's, so that
two uploads compete for its quota, and a second object is over the ceiling, so that every
second upload evicts; in `store_liveness` two tenants' objects live side by side until a preview
takes the store over its bytes. One restart meets every intermediate state of the disk; two errors are
a removal that fails and then an `open` that fails on what it left, or a put whose
clean-up fails next to either. Both runs have some hundred thousand states; three keys
and two clients over a restart no longer end within minutes. What the two do not combine is covered
by the proofs, which have no bounds. In
`KeyCache` the times are the least that keep the order of the code's constants
(backoff <= refresh interval < TTL) with each window more than one tick wide;
two rotations let a key appear and vanish during one fetch; `UnknownCap = 1` puts the memory of absent ids at its cap.
Three requests for two slots are the fewest with a queue while two
workers run; `MaxOrphans` only bounds how many killed processes are pending.
In `Worker` a pipe of one unit blocks on every frame but the least, and the
jobs come with frames at, below and above the limit and with one failure of every kind
the compiler has. In `RenderPipeline` the two handlers' calls meet at every step; three
ids, one of each kind, and ceilings of two let every object expire or be evicted under a
call that uses it, and the budget of 8 is met by bundles just below and just above it. In
`Access` there are eleven environments that must not start, for as many reasons, and
four that run, which differ in signing key, key holders, doors and redirects; two openers for one session
reach the cap in every interleaving; three links or sealed messages may be outstanding.
Bounds of the models only: `MaxTime`, `MaxRestarts`, `MaxIoErrors`, `MaxRotations`,
`MaxOrphans`, `MaxPages`, `MaxLines`, `MaxOutstanding`. Clients are symmetric in
the safety run, session ids in `access` (they differ by nothing else); no symmetry is
used with liveness. `render_pipeline` and `access` have a VIEW that hides `answer`,
the last answer given: no action reads it, no invariant mentions it, and the action
properties read only its next value, which TLC evaluates on every step it generates. That of
`access` also hides the configuration of a server that is down, which `Start` replaces.

Deadlock is checked in all holding runs but those of `Store`. There ids never come
back and time is bounded, so a behaviour in which all ids have been used and
removed really ends: `CHECK_DEADLOCK FALSE`.

**Fairness.** Weak fairness for each handler's own steps once it has begun (tokio
polls every ready task), for the reaper's timer (`spawn_reaper` loops for the
life of the process), and for the kernel ending a killed process. A fetch
ends because reqwest has a timeout, a compile because of the deadline. Nothing is
assumed of clients, of the provider, or of a worker ending by itself. In `Worker`
both processes' steps are weakly fair, and the deadline only for a document that
runs for ever: for all others the properties hold without it.

**Disagreements found.**

1. `reap` decides under the mutex and removes after letting go of it: a document
   whose expiry a preview has moved in between is removed all the same
   (`store.rs:388`).
2. A failed or interrupted `write_atomic` leaves its file in `root/tmp`, which is
   under no ceiling and never cleaned, though the module says the disk cannot grow
   without bound (`store.rs:471`).
3. An asset named `meta.json` shares its path with the store's metadata
   (`store.rs:486`).
4. A request dropped during its fetch leaves no trace, so refreshes can follow one
   another within the window the comment promises to allow one in (`oidc.rs:304`).
5. A template with `MAX_FILES` files, or nearly as many, is accepted when it has no fixture and
   refused at every use, because the generated files no longer fit
   (`templates.rs:713`, against the comment at `templates.rs:329`).

Noticed while reading, and not the subject of a run:

* The gauge described as "Compile slots currently occupied." also counts requests in
  line and those still being assembled (`metrics.rs:131`).
* Errors in the generated `__main.typ` are not mapped back (`templates.rs:104`);
  `DiagnosticsInCallersTerms` speaks of the body only.
* `docs/security.md:25` promises 403 where `api.rs:833` answers 404.
* A listing of templates fails as a whole (`Reading` in `RenderPipeline`) when one of them expires between being listed and
  being read.
* A preview stored after its job was removed revives the id without a document, and
  the caller is answered with success; `SuccessIsComplete` speaks of ids that
  still have their document.
* A page asked for twice in `preview_pages` is a server error, found after the compile
  (`job_io.rs:125`).
* A list of diagnostics longer than a frame ends the worker, and a broken document
  is reported as a broken worker: the exception in `BrokenDocumentNotBrokenWorker`.
* A `resource` the relay does not recognise makes it drop its own as well
  (`oauth_proxy.rs:316`).
* A removal that fails is a success to its caller, and the object is back after the next
  start (`store.rs:490`, `:508`, `:541`): nothing in the repository says otherwise in so many words.
  Its bytes are the second way to disagreement 2.
* An object whose `meta.json` cannot be read at a start is deleted, for whatever reason it cannot
  (`store.rs:541`, `:551`), and a `read_dir` that fails leaves a kind, a tenant or everything out
  without an error (`store.rs:520`, `:534`), though the comment above says "so a restart does
  not lose track of what is on disk". `Lose` in `ObjectStore` is this.

## 5. Proofs

A theorem holds for every value of the constants that satisfies the modules' named
assumptions, and TLC evaluates each of those on a run, so that they can be met.
They say three kinds of things. *Shapes*: finite sets, natural limits, lists that are
lists, processes that differ (`ProcsAssumption`, `CallsAssumption`, `JobsAssumption`,
`EnvironmentsAssumption`...). *Facts of the code's own constants*: the refresh interval is
no longer than the TTL and no shorter than the backoff (`TimesAssumption`), the
overhead an archive is allowed covers what a tar archive adds for `MAX_FILES` files
(`OverheadAssumption`; `CodeOverheadAssumption` evaluates it for the numbers in the
source). *Facts of the surroundings*: no API key is also a token, two secrets of
one name are one secret, the directory of baked templates loads without a fault.

Two theorems about the store have one hypothesis more, `PlainNames`: no payload is
called `meta.json`. It is necessary: disagreement 3 is a run in which such a payload
overwrites the metadata, and with them the entry a restart would read. `store_safety`
satisfies it.

### The store

**`StoreProofs`.** `TypeCorrect` and `QuotasHold` share the inductive invariant `IInv`:
`TypeOK`, which program points each process visits (`Roles`), that the mutex is held
exactly between `BeginPut` and `EvictDone`, the steps of an eviction included (`Exclusion`), that `rebuild_index` runs alone
(`Rebuilding`), and that a put on its way to its commit still has room (`Reserved`).
`Reserved` is what the quota argument needs: the check is several steps before
the commit, and only exclusion keeps anybody else from using the room.

* `EntriesCounted`, `BytesCounted` (`EntriesExact`, `BytesExact`): inductive next to `IInv`.
  The double-removal guard of `remove_from_index` and the subtraction of a rewritten
  preview's old size are where they would break. The laws of sums they cite are
  proved in `SumLemmas`: the sum is a fold in an order nobody knows, a law that
  failed would have a smallest set on which it fails, and taking one element from that set
  leads to a contradiction. That replaces induction, whose theorems the prover
  cannot instantiate.
* `CeilingsHold` (`StoreBounded`): above a ceiling somebody is evicting or the index is being
  rebuilt (`Bounded`), and eviction cannot end early because a store with no
  entries is below both ceilings (`EvictionEnds`, which needs the counters exact).
* `NothingComesBack` (`GoneForGood`): what is not indexed, not being removed and not left
  over by an error has no readable metadata (`MetaGone`), and a removal that found metadata in its listing
  has unlinked them or failed before it touches the index (`MetaListed`): the directory
  is then among the leftovers. A key leaves `leftovers` only with its directory, and `open` indexes or
  drops all it lists. The theorem is therefore as strong as what the code does with
  errors, and says of a behaviour without errors that nothing comes back. It needs that a put of an
  asset or template uses an id for the first time (`FreshUploads`); documents are
  excepted, because previews are put under an old id.
* `CrashesLoseNothing` (`Recoverable`): what is indexed and not being removed is on
  disk with the entry's times and at least its bytes (`Saved`), in the middle of a put too:
  `Staged` says how far each point of `put_with_id` has got, which covers the old
  entry while a preview is being added to it.

**`StoreRefinementProofs`.** `StoreImplementsObjectStore`: initial states map to initial
states, and each step of `Store` is a step of `ObjectStore` or leaves its variables alone.
A commit is the abstract put (with the room it reserved), the step that picks a key for
removal dooms it, the removal from the index drops it. An eviction is several steps here and one
there: it is mapped at the step that drops the entry, and the invariant `Evicting` carries to that
step what was seen at the first, that the store is above a ceiling and nothing indexed is older
(the mutex is held, so nobody else commits or unindexes meanwhile). A failed removal is `LeaveBehind` of a doomed key or of a
victim, a failed put changes nothing. In a crash what `open` will index again is what was
indexed, by `Saved`, unless a removal or an eviction was at work on it, and what else it
finds readable is, by `MetaGone` and `MetaListed`, left over, in the middle of a removal, or a document;
`rebuild_index` then turns it back into index entries one at a time, or loses it to an
error, and what it finds expired or in excess is reaped or evicted.

### The key cache

**`KeyCacheProofs`.** `TypeCorrect`, `WithdrawnKeysExpire`, `NewKeysNoticed`,
`OutagesSpareKnownKeys`, `RefreshesShared`. The two bounds are about what the provider did and what
the cache says of it, with several clocks between, so the invariant says how long the
two may differ *now*: the key set on its way differs on a key only if the key changed
since the provider was asked (`ArrivingLag`), a trusted cache only if it changed
no longer before the cache was filled than a fetch lasts (`CacheLag`), the memory of an absent id
only if it was published no longer ago than that entry's age, an interval and a fetch
(`UnknownLag`). These are inductive only with the mutex (`Line`, one fetcher at a time),
`Owed` (who fetches did not find its key, and nobody has filled the cache meanwhile) and
`LastRefresh` (what the state tells of the refresh that ended last).

### The compile service and its worker

**`CompileServiceProofs`.** `TypeCorrect`, `PermitsNeverLost` (`PermitsConserved`),
`WorkersWithinSlots` (`WorkersBounded`), `GaugeNeverDrifts` (`GaugeExact`). The
invariant adds two facts: the line holds each waiting request exactly once
(`LineOK`), without which passing on a permit could hand it to somebody who
already holds one, and a worker's request holds a permit (`ChildrenOK`), from which
the bound on workers follows by counting.

**`WorkerProofs`.** `ClampFits` is about arithmetic alone: after `clamp_scale` both edges
of any finite page have between 1 and `max_px` pixels, rounding included. `Outcomes` says
what `Compiled` can be, from the definitions of `Compile`. `ResultsComplete`,
`StderrNeverLost`, `DocumentsToldFromWorkers` and `FailuresExplained` then follow from an
invariant of the two processes: what is still to be sent, in the pipe and read adds up to the
job (`Phases`); the worker replies only to a job it has read whole, and exits with a status only
after that (`Progress`); and if nothing went wrong by itself, the reply is what the document
compiles to, its previews are on disk, and a worker that exited cleanly has sent all of it
(`Undisturbed`).
`Answered` is the conjunction of the four properties with what the kinds of answers mean; it
is kept by the one step that answers.

### Access

**`AccessProofs`.** The invariant says what the server's secrets vouch for: the configuration
is what some good environment says (`ConfigRead`); every sealed state was allowed by an
environment with that key when it was sealed (`StatesSealed`); every code belongs to a
state with its key, redirect and challenge that was alive when the code was made (`CodesSealed`);
every link names its document's own tenant (`LinksSigned`). Restarts change the configuration
and leave all of that true, which is why messages are related to environments and not to the
one that runs. `CapHeld` is the session cap: of the openers only the holder of the creation mutex has
counted, so what it counted is still so when it creates.

* `CapNeverExceeded` (`SessionsWithinCap`), from `CapHeld`.
* `CallersServedAsThemselves` (`ServedAsThemselves`), from what `from_source` guarantees
  (`ConfigsGood`: no two keys share a secret) and from tenants being told apart
  (`TenantsApart`).
* `DownloadsHaveReason` (`DownloadsJustified`): both directions, by the order of the
  handler's decisions.
* `LoginsRelayed` (`RelaysExactly`): a code is exchanged exactly for the flow it came from.
  The operator may take a redirect off the list while a flow is pending; the callback then
  still goes where the flow began, since `callback` does not look at the list again
  (`oauth_proxy.rs`), and the exchange is refused. The property says so, and the environment
  `Narrowed` of the run has that restart.

### The render pipeline

**`RenderPipelineProofs`.** Three invariants, each on top of the one before:

1. `IInv`: a handler is at a place of the operation it runs (`AllHandled`), removers hold
   doomed templates (`Removals`), what a listing has found, read or still has to read
   covers all that was live since it began (`Listings`), and the document a render is adding
   previews to has exactly those stored so far, if it is still there (`Documents`).
   `TypeCorrect` and `SuccessesComplete` follow.
2. `Contents`: what is stored is what was accepted when it was stored (`Blobs`), and what a
   handler has loaded is sound for where it is (`Holds`). The budget is the delicate part: the
   preflight adds up sizes, the reads come later, and between them the store
   changes. `Foreseen` states what survives: there *is* a list of sizes, within the budget,
   that every asset still stored under those ids has. Ids are never used again
   (`minted`), so an asset is as it was or gone. `LoadsStayWithinBudget`,
   `BundlesCompiledAreSound`, `DiagnosticsAreTheCallers` and `RefusalsAreJustified` follow.
3. `Sized`: every object has a natural size. `StoreUsedAsPromised` follows under the hypothesis that
   the abstract store knows all sizes a tenant has room for (`0..MaxTenantBytes \subseteq
   Sizes`): the size of an archive is computed, not chosen.

`TemplatesReadBack` is about the archive format: each of at most `MAX_FILES` members costs at most
three blocks of headers and a block less a byte of padding, so an accepted source always
fits in the budget with its overhead, at every prefix of the archive; and loading
it again gives the same files in their places.

### What the proofs corrected

Proving found statements that the runs were too small to refute: that a callback goes only to a
redirect that is allowed *now* (it goes to one allowed when the flow began); that in a
bundle with a generated body every diagnostic in a `body.typ` is about it (a template
may have a file of that name); that no id that is live is ever answered with 404 (it is,
rightly, when it is used as an id of another kind, a template as an asset say). The three
properties were made to say what the code does; each still has its mutant. One definition
was wrong: `HasBody` looked for the generated file among the files instead of at the
kind of the template, as `SourceMap` is built. The assumptions that were true of the instances
only by accident are now named: paths are not empty, lists have no gaps, sizes are numbers. Chains of
checks are written IF ... ELSE IF, since CASE does not promise an order when two guards hold.

### Model-checked only

Liveness (`ExpiredReaped`, `MutexReleased`, `JobEnds`, and `EveryRequestAnswered` of `KeyCache`
and of `CompileService`): the prover handles neither liveness under fairness nor ENABLED. The
five runs that expect a violation are counterexamples. The theorems speak of `Spec` and its
safety part only, and of the modules as written: that a module says what the Rust code does is argued by
`PROJECT.json`'s map, line by line, and not proved.

## 6. Not modelled, and why

Formatting, logging, routing and the text of metrics have no behaviour a property
could be about; nor do fonts, which are read once, and the health and metadata
routes, which answer constants. The Typst compiler, tokio, reqwest, the kernel and the identity
provider are outside the repository: the models contain what the code relies on
(a fair semaphore and mutex, a timeout that ends a fetch, a SIGKILL that takes
effect, a rename that is atomic). The filesystem keeps what was written: loss of
data not yet synced at a power failure is not modelled, only death of the
process. The kill of a worker whose request is gone is asynchronous in the code,
and how long the kernel takes is not bounded: such orphans are outside
`WorkersBounded`.

What the modules leave out of the code they model:

* `RenderPipeline`: its instance of the store neither restarts nor fails to remove anything. After a
  removal that failed half way, a late preview may revive an id whose document is still
  on disk, and `get` reads it again; here a revived id never has its document.
* `Store`: how many I/O errors there are is bounded in the runs, not in the proofs. `open` treats an
  entry that names another id or kind as it treats unreadable metadata; nothing in the
  program writes one.
* `Compile`: the rounding of f32 sizes (sizes are whole points), fonts, dates.
* `Templates`: gzip, the text of generated files (they carry the identifiers and
  the data that go into them), and all of a schema but the fields it requires. An
  empty object sent as data counts as none sent.
* `Requests`: the layout of answers, and the order of listings beyond "the newest up
  to the limit"; entries written by an older version without a role.
* `Config`: one duration and one number stand for all settings that are parsed alike;
  paths, addresses and the limits of other parts are CONSTANTS of their modules.
* `Access`: the streams of an MCP session and its messages belong to the rmcp library, and so
  does the session store without which `restore_session` is never called; its cap is checked
  by the same action. The provider's signature check is an attribute of the token, and what
  `KeyCache` answers is an input.
