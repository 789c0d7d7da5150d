# TLA+ models of the AIStore sources in `src/`

This directory holds the model-checking project for the Go sources under
`src/`: the TLA+ modules, the TLC configurations that check them, and
`PROJECT.json`, which lists every component, run, mutant, mapped definition,
finding and hazard in machine-readable form. The written specification of the
system is `spec.md`; a module follows the source wherever the source is at
hand and the specification where it is not (those definitions are marked
`spec_modelled` in the map).

## 1. The system

| Part | Source | State | Operations |
|---|---|---|---|
| dSort proxy handlers | `src/dsort/handler.go` 41-332 | none of their own; the slots of the broadcast in flight | start (init broadcast, barrier, start broadcast, rollback), abort, remove (metrics pre-check, remove broadcast), metrics, list, routing |
| dSort target handlers | `src/dsort/handler.go` 339-682 | the `Manager` of a job in `Managers` | init, start, records, shards, abort, remove, list, metrics, finished-ack |
| sort goroutine | `src/dsort/handler.go` 430-456 | the phase the sort is in | `Manager.start`, `errHandler` with its abort broadcast, finished-ack broadcast |
| `broadcast` | `src/dsort/handler.go` 684-750 | a slice of `len(nodes)` response slots | one goroutine per node not ignored, `wg.Wait` |
| `Manager`, `ManagerGroup` | not in `src/` | job state, flags, acks, archive | `Add`, `Get`, `Remove`, `init`, `abort`, `updateFinishedAck`, final cleanup |
| target interface | `src/ais/tgtifimpl.go` | object lock, pooled descriptors, work files | `GetCold`, `Promote`, `PutObject`, `FinalizeObj`, `CopyObject`, `EvictObject`, `Backend` |
| AuthN server | `src/cmd/authn/server.go` | users, roles, clusters, revoked tokens (in the user manager) | user, role, cluster, token and config handlers behind `checkAuthorization` |
| application config | `src/cmn/jsp/app.go` | one JSON file | load, save |
| API utilities | `src/api/utils.go` | none | request building |
| disk discovery | `src/ios/dutils_linux.go` | none; reads the block-device file | `fs2disks`, `findDevDisks`, `childMatches` |

How the dSort parts interact. A client talks to the proxy. The proxy holds no
job state: for each request it broadcasts to every target and decides from
the answers. A job is created on every target by the init broadcast and is
started by a second broadcast, which the proxy sends only after every call of
the first has returned. From then on the targets talk to each other: records
go to the target that gathers them, that target signals shard creation, and a
target that is done tells its peers with finished-ack. A target that fails
broadcasts abort. A target archives its Manager when the sort is over, and a
job can be removed only after that. Everything races with everything: a
client's abort or remove with the proxy's two broadcasts, a target's abort
with a peer's records, an answer with the state it reports.

What makes this hard to test, and what the models look at: the order of the
two broadcasts of a start; one target of several failing; aborts and removes
that overtake the init; answers that are stale when used; calls that fail
before or after the target served them; and whether every sort that starts
also ends. `PROJECT.json` lists each hazard at the line where it bites.

## 2. Modules

| Module | Models | Checked through |
|---|---|---|
| `DSortTarget` | the targets: `SortHandler` and the nine handlers, the sort goroutine, the targets' own broadcasts | `MCDSortTarget` |
| `DSort` | `DSortTarget` extended by the proxy: routing, the five proxy handlers, `broadcast` with its response slots | `MCDSort` |
| `ColdGet` | `target.GetCold` in every ownership mode, over the object's lock, with the callers around it; `target.Backend` | `MCColdGet` |
| `ColdCache` | the abstract promise of a cold GET, which `ColdGet` implements | as a property of `ColdGet` |
| `Promote` | `target.Promote` on every branch, with `PutObject`, `FinalizeObj` and `EvictObject` of other callers around it | `MCPromote` |
| `AuthN` | the AuthN server: the five path handlers, the handlers behind them, `checkAuthorization`, over the tables of the user manager | `MCAuthN` |
| `Disks` | `fs2disks`, `findDevDisks` and `childMatches` on the forest `lsblk` prints, beside the graph of block devices it is printed from | `MCDisks` |

`DSort` extends `DSortTarget`, so the composition is the real one: a call of a
proxy broadcast is a step of the target's `SortHandler`, evaluated on the
target's state at the moment the call is served.

### `DSortTarget`

State per target: `mgr[t]`, the Manager of the one job the model follows
(`state` is `absent`, `initialising`, `live` or `persisted`; `inProgress`,
`aborted`, the set `acks`, the number of record batches `received`, and
`token`, the single slot of `startShardCreation`); `task[t]`, the program
counter of `startDSort`; `out[t]`, the broadcast or send the goroutine has in
flight. `final` is the target that gathers the records; `faults` counts the
failures injected so far, by kind: a step of a node that fails, a call
between two nodes that fails, and, each counted apart, a call that fails
while it carries an abort and one that fails while it carries a
finished-ack.

Every handler is a relation `handler(t, req, status)` between a request, the
status the handler answers with, and the primed variables: the method check,
the path check, the lookup in `Managers` and every early return of the Go
function appear as disjuncts, in the order of the source. `SortHandler` picks
the handler from the last element of the path as the Go `switch` does.
`Deliver(t, p)` is one call of a target's broadcast being served by peer `p`;
`NetFail` is a call that fails before it is served.

`errHandler` is modelled from lines 431-446: a target that fails while
already aborted stops silently; one that is not aborted aborts itself and
broadcasts abort. After a sort that returns without error the goroutine
broadcasts finished-ack.

Modelled from the specification, because the code is not in `src/`:
`Managers.Add` refuses a UUID it has; `Managers.Remove` succeeds only on an
archived job and drops the Manager, not the goroutine; `task` follows one
`startDSort` goroutine per target, launched by a start whenever none is
running (a start that arrives while one runs launches none); the three
phases of `Manager.start`, reduced to what the protocol needs (each target
that is not the gatherer sends one batch of records; the gatherer waits for
one batch per peer, creates its shards and signals every target; a target
waits for that signal); final cleanup, which archives a Manager on
which no sort runs and which either is aborted or has in `acks` its own
completion and the finished-ack of every peer. `startShardCreation` is
made outside `src/` and is taken to hold one token: a `shardsHandler`
blocked in its send is a request that stays unanswered. Record and shard contents, byte counters and metrics values are left
out: no handler's control depends on them.

### `DSort`

State: `ppc[h]`, the program counter of the proxy handler `h` (one request
per handler at a time); `bc[h]`, the broadcast it has in flight, with the
request, the targets still to call and the slots `resp`; `reply[h]`, the
status and body the client gets.

`broadcast(req, ignore)` creates a slot for every target and a call for every
target not ignored, so a slot of an ignored target stays zero as it does in
the Go slice. `ProxyCall(h, t)` serves one call on `t` with `SortHandler`;
`ProxyCallFails` is a call that fails in transport (`err` set, status 500);
with `LossyReplies` a call may also be served and its answer lost. `Joined`
is `wg.Wait`. Each proxy handler is a chain of actions around its broadcasts:
`ProxyStart`, `ProxyInitJoined` (where `checkResponses` decides between the
start broadcast and the rollback), `ProxyStartJoined`, `ProxyRollbackJoined`;
`ProxyRemove`, `ProxyRemoveChecked` (the loop over the metrics answers), 
`ProxyRemoveJoined`; and so on. The response slice is filled in map order, so
where the code stops at the first slot that fails a test, the model takes
any such slot.

`ClientRequests` is the set of requests clients may send; a request that
names the job can be sent only once the job's UUID is known, which is when
the start request has been answered, unless `EarlyClients` is set: a list
request shows the UUID of a job as soon as one target has it, so a second
client can name a job that is still being set up.

### `ColdGet` and `ColdCache`

State: `lock`, the lock of the one object (readers, writer, the caller that
has claimed the upgrade, the callers asleep in `UpgradeLock`); per caller
`pc`, `mode` (the `cmn.OWT` it calls `GetCold` with) and `res` (what
`GetCold` returned); `bck`, the bucket of the object; `present` (whether
`lom.Load` finds the object); `coldCount` (`stats.GetColdCount`); `faults`
and `misreads`, the backend calls and the loads of an object that is there
that were made to fail.

The three steps of `GetCold` are actions named after the code: step 1 is
`GetColdPrefetchLock`, `GetColdTryLock`, `GetColdLock`, `GetColdUpgrade`
with `UpgradeWon` and `UpgradeDoneByOther` (the body of the `for
lom.UpgradeLock()` loop), and `GetColdDefault`; step 2 is `BackendGets` and
`BackendFails`; step 3 is `PostUnlock` and `PostGet`. `Return(t, r)` leaves
the caller in `returned` when the contract says it still holds a lock (a
successful `OwtGet`, any `OwtGetPrefetchLock`) and in `done` otherwise; the
caller then releases what the contract says, whatever the lock's state is.

`Backend(b)` is `target.Backend` (lines 36-52), branch by branch: for a
bucket of another cluster and for an HTTP bucket the entry of the provider
map, which is nil when the target has no such backend (`Entry`); otherwise
the provider of the bucket, or of the remote bucket its properties name, and
the dummy backend when the target does not have that provider. `BackendGets`
needs a provider; the dummy fails every `GetObj` (`GetObjFails`), a provider
fails when a fault is injected. A bucket is a record of what `Backend` looks
at: `Provider`, `RemoteNs` and `Props`.

Modelled from the specification: the lock (4.1: an upgrade is claimed by one
caller, who becomes the writer when the other readers are gone; the others
sleep and come back as readers, told that the work was done, when the writer
downgrades or unlocks; a pending upgrade goes before new readers) and the
callers (a GET holds the shared lock while it looks for the object and calls
`GetCold`; a caller using `OwtGetLock` or `OwtGetTryLock` looks without a
lock; one using `OwtGetPrefetchLock` brings its own).

`ColdCache` has three variables, `present`, `fetchers` and `coldCount`, and
four steps: a fetch begins only while the object is missing and nobody is
fetching; the object arrives; the fetch is counted; the fetcher lets go.
`ColdGet` instantiates it with `fetchers` as the callers between step 1 and
the end of step 3, and `FetchedOnce` states that every step of `ColdGet` is
a step of `ColdCache` or leaves its variables alone, in the behaviours in
which every caller is a GET and for as long as no load of an object that is
there has failed. The modes are fixed when the callers arrive, so the first
condition selects whole behaviours; the second ends the promise at the
first such failure, after which a GET whose load failed fetches again.

### `Promote`

State: `file` (the content of each source file, or `NoFile`); `work` (each
caller's work file); `obj` (the destination object: content and stored
checksum, or `NoObject`); `promoted` (the sources whose content has been
installed or sent); per caller `call` (where it is in `Promote`, with its
parameters and what it has prepared); `faults`.

`Promote` is not one step, because it holds no lock while it runs: the
actions are the stretches between two accesses to shared files.
`PromoteBegin` is the entry up to the branch on `lom.Load` (lines 188-234):
an error of `Init` or `HrwTarget`, the remote branch, the early `return nil,
nil` when the object exists and `OverwriteDst` is off, or on to the copy.
`PutRemote` sends the file to the owning target and removes the source only
`if err == nil && params.DeleteSrc`. `CopyToWork` and `UseSource` are the
two sides of `extraCopy`: a copy to a work file with the checksum computed
on the way, or the source used in place with the caller's checksum taken as
it comes ("already computed somewhere else, use it") or computed. Both end
in `Prepared`, which compares the caller's checksum with the computed one
and returns on a mismatch. `Finalize` is `FinalizeObj` and what follows it:
the object is installed, and the source is removed when `DeleteSrc` asks
for it or when the source itself was renamed into place.

`PutObject`, `FinalizeObj` and `EvictObject` are the other ways into the
same object, each one step: they are what a promote of several steps races
with. A checksum is modelled by what it does: `CksumOf(x)` is a value
determined by the content `x`, and two checksums are compared for equality.

Modelled from the specification: the file operations themselves (`Remove`,
`finalize`), the shape of the parameters, and the object record.

### `Disks`

State: `devices`, the block devices of the machine, as a graph with an edge
from each device to the devices it holds and a sector size per device, fixed
for a behaviour; `file`, `fs` and `disks`, what the last call of `fs2disks`
read, was asked and returned.

`Lsblk(table)` is the file as `lsblk -Jt` writes it: a tree per device that
nothing holds, each device with its children nested, so that a volume on two
disks is printed under both. A file is a record of whether it reads as JSON
and of the forest it decodes to; it can also be absent, empty of devices, or
not JSON. `fs2disks`, `findDevDisks` and `childMatches` are operators on the
forest, shaped as the Go functions are: the early return for `overlay`, the
return when `Unmarshal` fails (which is also what an absent file comes to:
the error of `os.Open` is logged and the nil file read), the two prefixes
tried in the order of the source, the loop over the top-level devices as a
fold, the recursion over children. A path is the sequence of its parts
between slashes, so `HasPrefix` and `TrimPrefix` do what the string
functions do with a prefix that ends in a slash. `addDisk` stores the sector
size `Int64` returns, a zero that lsblk prints included, or 512 when
`Int64` fails.

`DeviceOf`, `DisksUnder` and `SectorOf` say the same without the forest: the
device a path names, the devices nothing holds from which a chain of holders
leads to it (`Roots` and `Ancestors` of the community module `Graphs`), and
the sector size with its fallback.

Modelled from the specification and the comment in the source: the shape of
`lsblk -Jt` output and the caller, which adds a mountpath.

### `AuthN`

State: `users`, `roles`, `clusters` (what the user manager has under each
name, or `Missing`); `revoked` (the tokens `revokeToken` was called with);
`secret` (`Conf.Secret()`); `now` (the clock); `issued` (every token a login
has returned, which is what clients hold); `writer` (the `Authorization`
header of the last request that was not refused, kept for the property).

A token is a record of what it decrypts to (`user`, `admin`, `expires`) and
the key it was signed with: `DecryptToken` succeeds when the key is the
secret in force. A request is a record of what the handlers tell requests
apart by: path, method, the number of path items and the first of them,
the token of the header, whether the body decodes, and the fields of the
body. Clients present a token from `issued`, a forged admin token signed
with a key that is not a secret, or nothing.

Every handler is an operator named after its Go function, written with
`Handle(refused, change)`: the conditions on which the function returns
early, in the order of the source, and the one call to the manager that
changes a table. `userHandler`, `tokenHandler`, `clusterHandler`,
`roleHandler` and `configHandler` are the `switch` on the method, `Mux` is
`registerPublicHandlers`. `httpUserPost` is a login when there is a path
item and `userAdd` when there is none; `httpSrvDelete` asks for
authorization before it looks at the path; `httpRevokeToken` asks for none.
A request is served in one step: a handler reads the secret
and the clock once, in `checkAuthorization`, and calls the manager at most
once. A request that is refused, or that only reads, changes nothing, so
status codes and bodies are left out. `Tick` moves the clock.

Modelled from the calls and comments in `server.go`, because the user
manager and the token package are not in `src/`: `add` refuses a name that
exists, `update` and `delete` one that does not; the admin account "is
created at deployment time and cannot be modified via API"; `issueToken`
wants the user's password and signs with the secret of the moment.

## 3. Runs

The dSort runs use one job. Targets are model values, symmetric in the runs
that check invariants and action properties only (`target_open`, `twophase`,
`observe`) and not in `lifecycle`, which checks liveness; `MaxFaults` bounds the injected failures (a
phase of the sort that fails, an init that fails, a call that fails).

| Run | Targets | Faults | Requests | Checks | Result |
|---|---|---|---|---|---|
| `target_open` | 2 | 1, lossy | init, start, abort, remove, shards and refused requests from outside, at any moment | `TargetTypeOK`, `SortRunsUnderLiveManager`, `ManagerMovesForward` | holds |
| `twophase` | 2 | 1, lossy, answers may be lost | start, abort, bad starts, a PUT that no handler serves | `InitBeforeSort` | holds |
| `observe` | 2 | 1, lossy | start, metrics, list, list with a bad regex | `TypeOK`, `ArchivedAsDoneMeansAllDone`, `ListAnswersDecode` | holds |
| `lifecycle` | 2 | 1, lossy, fair scheduling | start, abort, remove, unknown paths | `RemoveSuccessMeansGone`, `RemoveOnlyAfterCleanup`, `JobEnds` | holds |
| `init_failure` | 3 | 1 | start | `NoStartAfterFailedInit` | violated |
| `abort_race` | 2 | 0 | start, early abort | `JobEnds` | violated |
| `remove_early` | 2 | 1 | start, early remove | `RemoveOnlyAfterCleanup` | violated |
| `coldget_locks` | 3 callers, any mode, 5 kinds of bucket | 3, backend or load; the dummy backend always | | `ColdTypeOK`, `SuccessMeansLoadedAndShared`, `NoLockLeftBehind`, `EveryCallReturns`, `FetchedOnce` (refinement of `ColdCache`), `RefetchOnlyAfterUnlockedMiss` | holds |
| `promote` | 3 callers, 2 sources | 3 | every combination of `DeleteSrc`, `OverwriteDst` and checksum | `PromoteTypeOK`, `SourceGoneMeansPromoted`, `WorkFileLeftOnlyByMismatch`, `SourceKeptUnlessAsked` | holds |
| `promote_overwrite` | 2 callers, 2 sources | 0 | `OverwriteDst` off, no checksum | `NoOverwriteUnlessAsked` | violated |
| `authn_admin` | 1 name beside the admin, 2 passwords, 2 secrets | | 75 request shapes, each with any token a client holds, a forged one or none | `AuthNTypeOK`, `ChangesNeedAdmin` | holds |
| `disks` | 873 machines of up to 4 block devices | a file that is absent, empty or not JSON | 12 filesystem paths | `DisksTypeOK`, `DisksAreTheOnesBelow` | holds |

Why the bounds are enough. Two targets give every asymmetry the protocol has:
the gatherer and a sender, a target the request has reached and one it has
not, one that failed and one that did not. Three are used in `init_failure`, where
one target fails and two go on. One fault suffices for every hazard that is
about a single failure. `MaxReceived` caps the
record batches a gatherer counts at the number of targets. Deadlock checking
is off in the runs of dSort, the cold GET and `Promote`: a system whose job
is archived or removed, or whose callers have all returned, has nothing left
to do. It is on for `authn_admin` and `disks`, where a request can always
be made. For the cold GET,
three callers are a writer, a caller asleep behind it and one more that
arrives at any point in between; with three GETs, two sleepers compete for
the next upgrade after a failed fetch. The buckets are one of each kind
`Backend` tells apart: a cloud bucket of a provider the target has, one of
a provider it has not (the dummy backend), a bucket of this cluster backed
by a cloud bucket, a bucket of another cluster and an HTTP bucket; the
target has the AIS, the HTTP and one cloud backend. Three injected failures
are enough for every caller to fail at the backend, or at a load; the dummy
backend fails all three callers without counting. For `Promote`, the two sources are one on the destination's
mountpath (`near`, used in place when `DeleteSrc` is set) and one elsewhere
(`far`, always copied), with different contents, so that a checksum given
for one does not match the other; three callers are two promotes in flight
and a put, finalize or evict between their steps; with three faults every
call may fail. Callers are symmetric;
sources and contents are not. For AuthN, one name beside the admin gives a
user who can log in and has no rights, and a role and a cluster that exist
or do not; two passwords are the right one and a wrong one; two secrets let
the admin rotate the secret and set the old one again. A token lives one
tick (`ExpiresIn`) and the clock runs to 2 (`MaxTime`), so a token is used
when fresh, at the instant it expires and after it. `MaxTokens` caps the
tokens in clients' hands at two: an admin's and a user's, or the admin's
under either secret. `MCAuthN` lists the request shapes: GET, POST, PUT and
DELETE of users, roles and clusters with no path item and with one, a GET
with two, a method no handler has on every path, DELETE and GET of tokens,
GET and PUT of the configuration; each request with a body also with a body
that does not decode; each request that changes a user for either account
with either password, and a login without one; a PUT of the configuration
with either secret. For the disks, four device names in a fixed order, any
subset of them present, and any set of edges from an earlier name to a later
one: that is every forest and every acyclic graph of at most four devices
(873 machines with their sector sizes), among them a volume three levels
below its disk, a volume on two disks and on a disk and a partition, and a
partition with two volumes. A sector size is 4096, and on at most one
device of a machine it is zero or no number. The paths are `/dev/<name>` and
`/dev/mapper/<name>` for each name, a bare name, `overlay`, `tmpfs` and
`/dev/disk/sda1`. `fs2disks` has no state, so the run is two levels deep and
wide: every machine with every file and every path.

What the passing runs show:

* `InitBeforeSort`: whatever a client aborts and whichever call or answer is
  lost, while any target has not been reached by the init broadcast no target
  is sorting. This is the purpose of the two phases (comment at lines
  127-136), and it holds because `broadcast` returns only after `wg.Wait`.
* `ArchivedAsDoneMeansAllDone`: a target archives a job as completed only if
  no target failed it; it depends on the `return` after `errHandler` (line
  450), without which a failed target would broadcast finished-ack. It is
  checked without client aborts: an abort that reaches one target after its
  sort has succeeded marks the job aborted there while its peer archives it
  as completed, which is harmless and which TLC shows when aborts are added.
* `RemoveSuccessMeansGone`, `RemoveOnlyAfterCleanup`: for a client that
  learnt the UUID from the answer to its start request, remove does what it
  says.
* `ManagerMovesForward`, `SortRunsUnderLiveManager`: no sequence of requests,
  well-formed or not, revives a finished job or removes a Manager under a
  running sort.
* `JobEnds`: a job that starts is archived or removed on every target, also
  when an init or a phase fails, when a client aborts or removes it, and
  when an init, start or remove call is lost between two nodes: the rollback
  of the proxy's start and the abort of `errHandler` reach the targets the
  lost call left behind. The property excuses only the behaviours in which
  an abort or a finished-ack itself is lost (`faults["abort"]` or
  `faults["finished-ack"]` above zero): `broadcast` sends these once and
  their senders discard the answers, so the code promises nothing for them.
  That goes for every abort that is sent, by `errHandler`, by a client
  through the proxy and by the proxy's rollback: counted as ordinary calls,
  the proxy's lost aborts make `JobEnds` fail (the target the abort reached
  stops without a word and its peer waits).
* `ListAnswersDecode`: `proxyListSortHandler` decodes every answer that came
  without a transport error under `cmn.AssertNoErr` and does not look at
  the status (lines 186-193), so one refusal among the answers stops the
  handler in the assertion. The only refusal a target has for a list
  request is a regex that does not compile, and the proxy forwards the
  client's query as it is: the assertion holds because the proxy compiles
  the regex first (lines 174-179), also for the empty regex the targets
  skip. A call that is lost is skipped, not decoded.
* `FetchedOnce`: concurrent GETs of a missing object fetch it once. What
  makes it hold is the loop around `UpgradeLock`: a caller that lost the
  upgrade loads the object instead of fetching it, and asks for the upgrade
  again only if there is nothing to load. It is checked in the run of all
  modes, for the behaviours in which every caller is a GET, backend
  failures included.
* `SuccessMeansLoadedAndShared`, `NoLockLeftBehind`: on each of its seven
  exits `GetCold` leaves the lock in the state its caller will release:
  nothing after a skip or an error, the shared lock after a successful GET,
  the caller's own lock in prefetch mode.
* `SourceKeptUnlessAsked`: no step removes a source file unless the promote
  that takes the step was called with `DeleteSrc`. It rests on `extraCopy`
  (lines 239-251): the source is renamed into place only when the caller
  gave it up.
* `SourceGoneMeansPromoted`: a source file that is gone was installed as the
  object or sent to its target, on every interleaving of promotes of the
  same source and with a failure at any step. The one exception the
  property states is a finalize that fails on the in-place path: a failed
  finalize removes its work file (written specification 4.3, step 6;
  `finalize` is not in `src/`), which on this path is the source, although
  nothing was installed. It is listed as a hazard.
* `PromoteTypeOK`: besides the types, the object installed always carries a
  checksum, on either side of `extraCopy`.
* `EveryCallReturns`: no caller is left asleep in `UpgradeLock` or waiting
  for the lock, also when the writer fails at the backend or at the load,
  and when the bucket's provider is one the target does not have, so that
  each caller wins the upgrade in turn and fails.
* `RefetchOnlyAfterUnlockedMiss`: as long as no load has failed, an object
  that is there is fetched again only by a caller in mode `OwtGetLock` or
  `OwtGetTryLock`, whose miss is older than its lock. A GET never does, and
  neither does a prefetch, which has looked under its own lock.
* `WorkFileLeftOnlyByMismatch`: a call that has returned leaves a work file
  behind in one case only, the return on a checksum mismatch (line 283);
  every other exit after the copy goes through `finalize`.
* `DisksAreTheOnesBelow`: on what lsblk prints, `fs2disks` reports exactly
  the top-level devices from which the filesystem's device can be reached,
  each with its sector size, and none for a path that names no device. It
  needs the recursion of `childMatches` and `/dev/mapper/` tried before
  `/dev/`.
* `DisksTypeOK`: besides the types, a disk is reported with a sector size
  of zero only where lsblk printed a zero: the fallback to 512 covers the
  zero `Int64` returns with its error, and nothing else. A zero that parses
  is stored as it is.
* `ChangesNeedAdmin`: no sequence of requests changes a user, a role, a
  cluster or the secret except by a request that carries a token issued to
  the admin, signed with the secret in force and not expired. It covers the
  ten handlers that change something, the POST of `/v1/users` that is a
  login or a new user by its path alone, tokens that outlive the secret
  they were signed with, and tokens at and after their expiry.
* `AuthNTypeOK`: besides the types, only tokens the server signed get into
  the revoked list, although revoking asks for no authorization:
  `httpRevokeToken` decrypts what it is given first.

What the violated runs show (the findings of `PROJECT.json`):

* `init_failure`: `checkResponses` looks at `resp.err` only, which
  `broadcast` sets for transport failures. A target that answers init with
  400 is not noticed and the job starts on the others.
* `abort_race`: an abort that overtakes the init broadcast aborts one target
  and gets 404 from the other; the aborted target later stops without a
  broadcast and its peer waits for ever. The wait is part of `Manager.start`
  and therefore follows the specification, not the source.
* `remove_early`: the remove pre-check skips 404 answers, which are stale by
  the time the remove broadcast goes out.
* `promote_overwrite`: `Promote` looks for the destination with
  `lom.Load(true, false /*locked*/)` and holds no lock afterwards. An object
  put by another caller between that look and `FinalizeObj` is replaced by a
  promote that was called with `OverwriteDst` off.

Further disagreements are modelled and recorded as hazards, not as runs.
In `Promote`, with a single caller: after a checksum mismatch the work file
stays (line 283 returns without removing it, where the specification says a
failure after the work file was created removes it); on the in-place path a
checksum given by the caller is stored without being compared with the
file; and a finalize that fails in place loses the source. Each was
confirmed with TLC on a property of its own before it was written down, and
each is the exception that a property of run `promote` names.
In `Backend`, a bucket of another cluster or an HTTP bucket on a target
without that backend gets the nil entry of the map where the specification
promises the dummy; with `Registered` lacking the AIS provider,
`EveryCallReturns` is violated, because the caller stops at `GetObj` with
the exclusive lock. The runs give the target both backends.
In AuthN, `checkAuthorization` never looks at the revoked list: "no change
is made under a revoked token" fails in three steps (the admin logs in,
revokes the token, adds a user with it). The list is kept for the clusters
that tokens are presented to, and nothing in the sources says AuthN's own
handlers honour it.
In dSort and the cold GET:
`ProxyHandlersAnswer` (no proxy handler ends in a panic) is violated in one
step by a PUT of `/v1/sort`: the default branch of `ProxySortHandler`
formats `apiItems[0]` of an empty `apiItems`. Run `twophase` has that
request among its own, so the panic is part of what it explores.
With `ProxyNode` set to a target, `ProxyHandlersAnswer` is violated after a
remove: `broadcast` leaves the slot of the ignored node zero and
`proxyRemoveSortHandler` reads it as a failed target with a nil node; proxies
are not in the target map as deployed. With a caller in mode `OwtGetLock`
beside a GET (`Modes = {OwtGet, OwtGetLock}`), `FetchedOnce` is violated in
nine steps: `OwtGetLock` and `OwtGetTryLock` take the lock and fetch without
looking at the object again, so a caller whose miss is older than its lock
fetches an object that is already there. That is why `FetchedOnce` is stated
for GETs alone.

Every property of a passing run has a mutant in `PROJECT.json`: a change to
one mapped definition, of the kind a slip in the code would make, under which
TLC finds the property violated.

## 4. Fairness

`FairSpec` adds weak fairness on each step a sort goroutine takes when
nothing fails (`TaskProgress`), on final cleanup, on each call of a
broadcast being served, and on the proxy's joins. A phase that fails
(`PhaseFails`) and a call that is lost (`NetFail`, `ProxyCallFails`) are in
no fair action.
The Go runtime schedules every runnable goroutine, and `broadcast` starts
every call before it waits, so an enabled step is eventually taken. There is
no fairness on failures or on client requests: nothing has to fail and no
client has to ask. The assumption that a call is eventually served or fails
is stronger than the code: `broadcast` uses `http.DefaultClient`, which has
no timeout (listed as a hazard).

`ColdFairSpec` adds weak fairness on the steps of each caller and of each
call of `GetCold`: goroutines are scheduled, and a backend call returns,
with the object or with an error. No request has to arrive.

`Promote`, `AuthN` and `Disks` are checked for safety only. Nothing in
AuthN waits for anything: a request is answered in one step, and `fs2disks`
is a function of the file and the path.

## 5. Not modelled

* The contents of records and shards, byte counts, metrics values and log
  output: no control decision depends on them.
* More than one job at a time: Managers of different UUIDs share nothing.
* `recordsHandler` as several steps (it reads the body between its check and
  its update); it is one step here.
* Eviction and deletion of the object while cold GETs are running.
* `CopyObject`, `DisableMpath`, `RebalanceNamespace` and the pooled
  descriptors of `src/ais/tgtifimpl.go`: `CopyObject` delegates to a copier
  that is not in `src/` and for which the specification gives no steps, the
  other two are one call each into code that is not in `src/` either. The
  pools are not in `src/`: what it costs when a descriptor is not returned
  (the LOM on most error exits of `Promote`, the copy descriptor of a
  `CopyObject` with a transformation) is decided there.
* A backend that is nil (see above) and the providers behind `GetObj`.
* `PutObject`, `FinalizeObj` and `EvictObject` as more than one step each:
  they are the environment of `Promote`, not its subject. What
  `cos.CopyFile` leaves behind when it fails: `Promote` returns on its
  error without a look at the work path, and the copy is taken to leave no
  file.
* What `Conf.ApplyUpdate` refuses: `httpConfigPut` may fail there for any
  update, and a refused update is taken to change nothing.
* AuthN requests that overlap. Handlers run concurrently and the secret is
  process-wide, so a request can be checked under one secret and applied
  under the next; in the model a request is one step, taken at the moment
  of its check. Status codes and bodies of the answers, and `Server.Run`.
* What AuthN's roles and users may do on which cluster and bucket, and the
  persistence of the user manager: not in `src/`.
* In `fs2disks`: the log lines, a file that describes other devices than
  the machine has, and device graphs with more than four devices.
* `src/cmn/jsp/app.go`: joins a directory and a file name and calls `Stat`,
  `Load` or `Save` of packages that are not in `src/`; one read or write of
  a file, no state between calls. `src/api/utils.go`: builds one HTTP
  request, sends it, returns the body or the error; nothing outlives a
  call and nothing runs beside it. The written specification sets both
  aside as glue.

## 6. Plan

The project keeps to a dozen runs, each a question of its own, and the dozen
is in use. Merging runs to make room was tried and is not the way: `observe`
with the requests of `twophase` passes five million states without ending,
`lifecycle` with metrics and list requests does not finish its liveness
check in the time a run has, and the cold GET with four callers in every
mode takes three minutes alone. The refinement of `ColdCache` moved into the
run of all modes, as a property of the behaviours of GETs, which made room
for `disks`. What comes next goes into the runs there are, or takes the
place of one.

| Order | Module | Content | Properties |
|---|---|---|---|
| 1 (done) | `DSortTarget`, `DSort` | as above | as above |
| 2 (done) | `ColdGet`, `ColdCache` | as above | as above |
| 3 (done) | `Promote` | as above | as above |
| 4 (done) | `AuthN` | as above | as above |
| 5 (done) | `Disks`; `Backend` in `ColdGet` | as above | as above |
| 6 (done) | `DSort`, `DSortTarget` | lost calls told apart by what they carry; the assertion of the list handler | `JobEnds` with its excuse narrowed to lost notices, `ListAnswersDecode` |

Three steps that were planned are not taken, because what they would show
is decided in code that is not in `src/`. `recordsHandler` split at the read
of its body: what a batch that arrives after the abort does to the Manager
is a matter of the Manager's record store and its cleanup. An AuthN request
as two steps, the check and the call to the manager: whether a change
checked under one secret and applied under the next does harm is a matter
of the user manager. The fan-out of `broadcast` as a module of its own: the
index of a slot is counted in the loop that starts the calls, not in the
calls, so each call has a slot of its own by construction, and what
`broadcast` promises its callers, that it returns after the last call, is
what `InitBeforeSort` and `JobEnds` already rest on.
