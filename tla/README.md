# workbuddy2api in TLA+

workbuddy2api is a gateway: clients speak the OpenAI chat and Responses
protocols to it, and it forwards each request to an upstream service with one of
a pool of accounts. It rotates over the accounts when one is limited, keeps
sessions on the account they started with, refreshes the accounts' tokens, runs
daily tasks for them, and replaces itself by a new version without closing its
listener. Most of what can go wrong in it is concurrency: every request is a
goroutine that reads the pool, gives up the lock, talks to upstream, and applies
the answer to a pool other requests have changed.

This directory holds TLA+ models of that code, TLC configurations that check
them, and TLAPS proofs about them. `tlc -config X.cfg M` checks a model,
`tlapm M.tla` a proof module.

## Inventory

| Component (source) | State | Operations | Works with | Hard behaviour | Correct when |
|---|---|---|---|---|---|
| Pool, account state machine (`internal/pool/{entry,cooldown,transition,state}.go`) | per account: cooldown deadline and kind, soft streak, per-model marks with hit counts, breaker, failure counters, disabled | `Cooldown…`, `BlockModelBackoff/Clear`, `NoteError/Success/SessionDead`, `ReenableIfCredits`, `Disable` | handler, scheduler | answers of overlapping calls arrive in any order on one entry; back-offs at their cap | a late answer undoes nothing it should not; a cooldown ends |
| Pool, selection and leases (`pick.go`, `pool.go`) | in-flight counter per account | `Pick…`, `Acquire`, `Release` | handler | choice under the lock, lease taken after it | limit kept, leases balanced, only servable accounts handed out |
| Pool persistence (`persist.go`, `persist_merge.go`) | base, intents, dirty flag, `state.json`, snapshot in Redis | flush, merge, restore | two processes during an update | merge of two writers, failed saves, epochs of deleted accounts | counters added once, deletions stay, newest field wins |
| Chat handler (`internal/server/handler.go`) | per request: tried, sticky account, held lease | resolve, select, acquire, refresh, call, error policy, rebind | all of the above | `continue` and deferred release, cancellation, panics | no account twice, one lease at a time, every request ends |
| Session router (`internal/session`) | key → account with TTL | `ResolveForModel`, `Bind`, `Unbind`, GC | pool, Redis mirror | re-checks across lock changes; mirror written after unlock | a session stays on a servable account |
| Redis mirror (`internal/redisstore`) | per-key chains of pending writes, 8 slots | `SaveBind`, `DelBind`, `Close` | router, pool | ordering per key, slots, drain with a limit | mirror = last write of each key |
| Credentials (`internal/auth`) | credentials in memory and file, refresh under way, save lock | `RefreshOnce`, `SaveAtomic`, `NeedsRefresh` | handler, scheduler | shared refresh, panic of the leader, save after refresh fails or the process dies | credentials upstream has replaced are not sent again, file never goes back |
| Scheduler (`internal/scheduler`) | busy flag per task, run lock, wake-up time | timer, manual trigger, check-in, keepalive | pool, credentials | trigger races timer and stop; long batches | at most one task of a kind, none missed |
| Usage ledger (`internal/usage`) | buckets in memory, what was written, file | `Record`, `Flush`, `Reset` | two processes | deltas merged under a file lock, failed flush | each record counted once |
| API keys (`internal/apikeys`) | keys in memory, file information, file | `Resolve`, create, revoke | two processes | cached list against a file changed elsewhere | a revoked key is refused everywhere |
| Hot update (`internal/hotupdate`, `docker-entrypoint.sh`, `cmd/server`) | manager state, candidate process, commit pointer, listener, drain | check, download, hand over, drain, supervise | every component | candidate dies or is late; order of the drain | the committed binary or a later one serves, nothing accepted is lost |
| Upstream client and streams (`internal/upstream`) | one stream each: texts, calls, finish, loop guard, idle monitor | classify, `Stream`, `Aggregate` | handler, writers | deltas mixed with whole messages, truncated or silent streams, clients that stop reading | the client gets what was said, once |
| Responses adapter and chat contract (`internal/server/{responses,chat_output_contract,request_validation}.go`) | items and calls opened, what is held back, terminal event | writers of one answer | handler, streams | late names and ids, errors after the first byte, demands of the request | one terminal event, tools only when whole |
| Model list cache, logging, payload rewriting, command line tools, panel | – | – | – | – | not concurrent or not stateful; see the end |

`PROJECT.json` lists the same components with the hazards of each at their line.

## Modules and plan

| Module | Models | Checked by | Proved in |
|---|---|---|---|
| `AccountEntry` | the record of an account and its transitions (operators) | through the two below | lemmas in `ChatRotation_proofs`, `TokenRefresh_proofs` |
| `ChatRotation` | requests that rotate over one pool, scheduler, clock | `rotation`, `faults`, `live`, `escalation` | `ChatRotation_proofs` |
| `TokenRefresh` | credentials of one account, memory and file | `token`, `onefailure` | `TokenRefresh_proofs` |
| `MirrorQueue` | abstract: what the mirror promises, a queue per key | implemented by `RedisMirror` | |
| `RedisMirror` | goroutines, chains and slots of the mirror's writes | `mirror` | `RedisMirror_proofs` |
| `StickySession` | the router, over `MirrorQueue` | `session` | `StickySession_proofs` |
| `Totals` | the sum of a function, for the two below | through them | |
| `PoolPersist` | `state.json`, its merge, the snapshot | `stores` | `SharedFiles_proofs` |
| `UsageLedger` | `usage.json`, its merge, flush and reset | `stores` | `SharedFiles_proofs` |
| `ApiKeyStore` | `api_keys.json`, cache and file lock | `stores` | `SharedFiles_proofs` |
| `HotUpdate` | supervisor, handover, drain | `hotupdate` | `HotUpdate_proofs` |
| `SchedulerTasks` | timer, triggers, stop, the tasks themselves | `tasks` | `SchedulerTasks_proofs` |
| `UpstreamStream` | operators: what `Stream` and `Aggregate` make of the frames | `stream` | lemmas in `ChatStream_proofs` |
| `ResponsesStream` | operators: the writer of the Responses API and what a client sees | `stream` | lemmas in `ChatStream_proofs` |
| `ChatStream` | one answer from the upstream's first byte to the client's last | `stream` | `ChatStream_proofs` |

Each `MC…` module extends one of these, except `MCSharedFiles`, which holds the
three stores that processes share as files. In every module a definition named
`Faulty…` precedes the one it is a mistake in; nothing refers to it, the mutation
runs of `PROJECT.json` put it in place to see that the property notices.

Modules to be proved about take their sizes as CONSTANTS with named assumptions
and use no RECURSIVE operator; so do all modules here.

What the plan has left:

1. The rewriting of requests: translation of a Responses request
   (`responses.go` 157–840), `tool_pairing.go`, as operators checked against
   reference definitions.
2. The two attempts inside `ChatStreamContext`, and the model list cache.

## AccountEntry: the record and its transitions

No variables: a record `Entry` with the fields of `entry` (`entry.go`) that
decide whether an account may be used, and one operator per method of the pool
that changes it, named after the method. Deadlines are the number of ticks left,
because the code only compares them with now and with each other; 0 is past.
`breakerUntil` also has `Unset`, since `modelExempt` tells the zero time from a
past one. The counters that only feed a back-off stop at `CountBound`, where the
delay is at its cap. Balances, the success average and the cost ledger are not
kept: they order the candidates of a selection, which `ChatRotation` leaves
free. `ReviveDisabled` is left out because nothing in production calls it.

## ChatRotation: requests over one pool

`pc[r]` is where handler `r` of `chatCompletions` stands; an action is one
critical section of the code, so other requests, the scheduler and the clock
interleave exactly where a lock is given up or upstream is called:

| Actions | Code |
|---|---|
| `Arrive`, `Resolve`, `Lookup`, `Touch`, `Assign` | `Router.ResolveForModel`: available set first, lookup under the read lock, then `touch`, or the re-check and assignment under the write lock |
| `PickSticky`, `PickAccount`, `GiveUp`, `Cancel` | top of the rotation loop, `PickByUIDForModel`, `PickExcludingForRealm` with the pruning of marks and the fallback |
| `Acquire` | the compare-and-swap of `Pool.Acquire` |
| `Refresh` | the outcome of a token refresh inside the request |
| `Answer` | the upstream call and `applyErrorPolicy`; outcomes are the kinds `Classify` tells apart |
| `ClearBlock`, `Rebind` | the two further steps of the success path |
| `Release`, `Unbind`, `Exit` | `fail()`, `unbindSticky`, the deferred release |
| `Tick`, `Checkin`, `Keepalive`, `ExpireBinding` | the clock, `checkinAll`, `runKeepalive`, `gcOnce` |

Where the model allows more than the code: after a failed sticky selection the
code selects in the same iteration, the model passes the top of the loop again
(it may be cancelled there); check-in and keepalive may act on an account at any
time, not only in their daily run over a list read before; a binding expires at
any time. All are supersets of the code's behaviours.

Runs (`MCChatRotation`):

* `rotation` – two requests of one session over two accounts, one lease each,
  two rounds, bindings that expire; 1.0 million states. The smallest instance in
  which both requests can choose the same account, lose the race for its lease,
  be thrown back, unbind and rebind. `LeaseConservation`, `LeaseWithinLimit`,
  `NoLeaseBetweenRounds`, `RotationIsFresh`, `SelectionContract`.
* `faults` – two requests of two models on one account with every kind of
  answer, refresh failures, check-in and keepalive; 2.4 million states. One
  account suffices because the properties are about what two late answers do to
  one entry: `DisableIsFinal`, `OnlySuccessClosesBreaker`, `ModelLimitSurvives`.
  The last says no more than the code does: an entry has one mark per model for
  6004 and 11102, so the refusal of an overlapping call for the same model may
  replace a 6004 limit by a shorter one or by a block that the model's next
  success lifts; every other answer leaves it alone.
  Thresholds and delays are 1 or 2 so that breaker, back-off step and cap are all
  reached.
* `live` – the two liveness properties `RequestEnds` and `SoftCooldownEnds` on
  the outcome that keeps both busy, 429 without a reset time. Fairness: weak, on
  each handler's own steps (goroutines are scheduled, upstream calls run under
  the client's timeouts) and on the clock. Nothing is assumed about arrivals or
  cancellation. No symmetry, as TLC requires.
* `escalation` – see Findings.

Symmetry over accounts and requests is used in the safety runs only; no
definition names one of them.

Two things a reader of the code may not expect, both behaviours of the model: an
account can be cooled as a whole and carry a model mark, a shape the comment at
`state.go` 360 calls unreachable, because the two answers may come in either
order; and `Unbind` (`session.go` 222, called at `handler.go` 841) removes
whatever the key is bound to, also the binding another request of the session
has just made.

## TokenRefresh: credentials of one account

Callers are chat requests and the one goroutine that holds the scheduler's run
lock (keepalive and check-in never overlap). `leader` is `a.refreshing`, `saver`
the holder of `saveMu`, `draft` the snapshot a save took under it. A credential
is a version and the ticks to its expiry. A call ends with new credentials
(perhaps without an expiry, which keeps the old one), with 12153, with another
error, or with a panic; a save succeeds or fails; `Restart` begins again from
the file at any point. What is noted on the entry is done by the operators of
`AccountEntry`, in the order of each caller's code: a chat request notes every
failure, keepalive and check-in only 12153, and only keepalive clears the count.
The realm mark (`BackfillRealm`) is no part of what the comparison before the
install looks at and is left out.

Runs (`MCTokenRefresh`):

* `token` – one chat request and the scheduler, two credentials told apart, a
  refresh between another caller's snapshot and its write, a failed save, a
  restart in between. `RefreshUsesCurrent`: what upstream has told this process
  to be replaced is not sent again, except after a restart from a file the
  replacement has not reached, and no answer is thrown away before the install.
  A failed refresh leaves its credentials to the next, which sends them again;
  what upstream makes of that is not in the source. `RefreshReachesDisk`,
  `DiskNeverGoesBack`, and `CallerReturns` under weak fairness of each caller's
  steps (the refresh has a timeout, `refreshIOTimeout`, and file operations end)
  and strong fairness of taking `saveMu`: without the latter TLC finds a caller
  that waits for the lock while others take it again and again, which Go's
  `sync.Mutex` prevents by handing the lock to who has waited for a millisecond.
  Upstream issues credentials without end; from `MaxIssued` on they are not told
  apart, so the bound does not end the run's saves. Two callers are enough to
  lead and to join, to save and to wait; for more callers the safety properties
  are theorems.
* `onefailure` – three chat requests on one account; see Findings.

## StickySession over MirrorQueue: the router and its mirror

`entries` is the router's map, `mu` the request that holds the router's lock
while it asks Redis (only the allocating path does), `req` where each request
stands. An action is one critical section under `r.mu` or one submission to the
mirror, which the code makes after the unlock:

| Actions | Code (`session.go`) |
|---|---|
| `FastPath`, `Touch`, `MirrorTouch` | lookup under the read lock, renewal under the write lock, `SetBind` after it |
| `SlowHit`, `SlowNone`, `SlowAllocate`, `SlowSet` | the re-check under the write lock, allocation with the lookup in Redis, the write to Redis |
| `Bind`, `Unbind`, `MirrorLast` | the end of a request and its submission |
| `Collect`, `MirrorCollected` | `gcOnce` |
| `Shutdown`, `Restart` | `Close` of the store; a crash at any point and `LoadFromStore` of any part of what Redis holds, since `LoadBinds` (`redisstore.go` 270–285) returns what it read before an error |
| `Meddle` | a write of the process this one took over from, which drains for minutes |

The mirror is an instance of `MirrorQueue`: writes of a key take effect in the
order of their submission, may fail, and are lost by a crash. `avail` changes at
any time.

Run `session` (`MCStickySession`): one key, two accounts, three requests, one
pending write; 722 thousand states. A key is independent of every other, three
requests are one that resolves, one that ends and one that interferes.
`SentIsBinding` says what the mirror was told last is what the router holds, across
restarts too. There are three ways it may not be, each a value of `doubt`: "race",
two changes of a key overlapped between unlock and submission; "orphan", a
case TLC showed to be there without any race: the slow path that finds no
account drops a live binding and submits nothing (`session.go` 165–171), so Redis
keeps it; "lost", after a restart, as long as nobody has bound the key again, and
only if its last write had not been made, had lapsed or been overwritten in Redis,
or was not read. A restart after which the key was read and its last write made
must find the router's binding. A touch can also renew a binding that was
unbound in between. `OneAccountPerSession`: concurrent first requests of one session get one
account.

## RedisMirror: the writes themselves

`task` lists the writes submitted by the process, each waiting for its
predecessor in the chain of its key, then for a slot, then calling Redis;
`tails` is the map of chain ends. `Close` drains or gives up; a key may expire in
Redis at any time; `Restart` is a crash at any point. A failed call may have been
carried out.

Run `mirror`: two keys, one slot, three writes; 25 644 states. One slot and two
keys is where a chain could hold the slot its predecessor needs. `Chained`: a write
that holds a slot is done waiting for its predecessor, and to have waited for that
one was to wait for all older writes of the key; taking the slot before the wait
breaks it. `WritesInOrder` is the refinement `Promise!Spec`,
with the queue of a key mapped to its writes not made yet; `WriteEnds` says that
every submitted write ends or its process does, under weak fairness of a
goroutine's steps and strong fairness of entering the slot (Go serves the
senders of a channel in turn).

## The three shared files: PoolPersist, UsageLedger, ApiKeyStore

During a hot update two processes hold the same files. Every action is a critical
section of one process, including the file lock where the code takes it; saves
fail before the rename, processes crash anywhere (`Exit`), files are removed by
the operator (`LoseFile`).

* `PoolPersist` – of an account's record, `count` stands for the fields merged by
  increment and `flag` for those merged by assignment. `proc` holds memory, base,
  epochs and intents; `Load`, `Restore`, `SyncToDir`, `Count`, `Assign`, `Flush`,
  `Deliver` are the code's operations, `Merged` is `persist_merge.go`.
  `CountsAddUp`: until something is removed, what was counted is in the file,
  unsaved in a process, or lost with one that crashed, once. `OnlyAssignedChange`:
  a save changes a flag of the file only if its process assigned it – or restored
  another value from the snapshot (`borrowed`): a snapshot taken at start may
  overwrite a newer assignment in the file, which the code accepts.
  `NoResurrection`: a deletion starts an epoch, and a deleted account enters the
  file again only through a process that found it since, in the credentials
  directory or in a snapshot as new as the file. A restore may write the deletion
  its snapshot knows into a file that was lost; that starts no epoch, and binds
  nobody. It is proved for any number of processes, since an old process drains
  for up to 15 minutes while its successor may be updated again; the run has two.
* `UsageLedger` – a document is a total and the buckets of the last days;
  `Merge`/`Commit` are the two halves of a flush around the file, with requests
  recorded in between. `TodayAddsUp`, `ViewNeverOvercounts` (a `Snapshot` beside a
  flush shows no request twice), `ClosedIsSaved`.
* `ApiKeyStore` – a change rereads the file under the lock, then commits;
  `Resolve` keeps the cache while inode, size and time of the file are the same,
  and inodes are reused. `FileIsTruth`, `RevokedIsRefused`.

Run `stores` (`MCSharedFiles`) checks all three: the stores share no state, so
each behaviour is one of a single store, which the variable `store` names in the
initial state. Two processes; one account, three saves, one success counted;
one bucket kept of two days, three requests recorded; two keys besides the one
imported from the configuration, at most two alive, five writes. 1.8 million
states. The bounds let one process save, the other save on top, and the first
come back with what it held; a bucket fall out of the window; a key be created,
revoked by one process and asked for at the other after the inode has come round.
Symmetry over the processes only. The assumptions on the constants of the pool and the ledger are named in
`MCSharedFiles`, which instantiates their modules, so that TLC evaluates them.

## HotUpdate: one container through updates

`proc[i]` is the process of binary `i`: its state, one request and one scheduler
batch at a time, the update it is carrying out and the step of its drain.
`Apply`/`StartCandidate`/`Serve`/`NotifyReady`/`Switch`/`GiveUp`/`ApplyFails` are
the handover of `manager.go` and `handover.go`, `StartDrain`/`DrainStep` follow
`DrainOrder`, the order in `shutdown.go`; `FirstEnds`, `NoneLeft`, `Stop` are the
entrypoint's supervision. A request, a batch or the session collector of a
draining process may give something to ledger, pool and store at any moment it
can still run.

Run `hotupdate`: three instances, 2.0 million states: an update by an updated
process, two candidates of one process, crashes of each. `ServedThroughout`,
`DrainLosesNothing`, `ContainerOutlivesHandover`. `ServedThroughout`: somebody
accepts on the socket, and is the binary `current` names or a later one. An
instance is in charge (`InCharge`) when it is the first or has reported ready,
nobody waits for it to do so (`Awaited`), and it has not handed over. `failed`
excuses the crash of one in charge, and one more thing: the switch to a candidate
that reported ready and has died since, for `handover.go` 184–206 does not look at
the process again before it commits the pointer. The death of a candidate at any
other time, and of an instance that drains, is not excused. Deadlock is not
checked: the container stops.
Three observations, none contradicted by the code's comments: that switch; between
the switch and the closing of its listener the old instance can be asked to update
again, and then starts a second successor, so that two instances may be in charge
(why the property does not say one); `GiveUp` may kill a candidate that has begun
to serve a request.

## SchedulerTasks: timer, triggers and what the tasks do

`loop` is `Run` (plan, sleep, dispatch the due kinds, join the batch), `worker[k]`
the goroutine that holds the busy flag of a kind, `job` what the holder of
`runMu` is doing: account by account a chain of upstream calls, each a look at
the context (`CheckContext`), the call (`Call`) and its answer. `ctx` and
`lifecycle` are the two contexts a stop cancels, one after the other (`Forward`).
Day marks (`rewardClaimed`, `adoptTried`) are kept in the CST day.

Run `tasks`: one account, a day of two hours shifted by one, four kinds, one
manual trigger, a stop at any point; 615 thousand states. Check-in and activity
fall due together, activity twice a day, and midnight in the CST day falls into
the middle of the local one. Keepalive, one refresh per account,
and accounts of the international realm, which check-in, travel and rewards pass
over, are in the module but not in this run: a fifth kind multiplies its states
by five and brings no stage the others lack (what keepalive does to an entry and
a token is in `ChatRotation` and `TokenRefresh`). `QuietAfterRun`, `OneCallAfterStop`,
`OneActivityRedeemPerDay`, `NoDueHourSlept`, `StopEndsRun`. The redeem counted is
that of the activity task (`scheduler.go` 657–703), in one life of the process; the
redeem script (`growth.go` 23–27), a child process of its own, redeems for the same
accounts beside that mark, and what it asks of upstream is not modelled. Fairness: weak, on the loop,
the task goroutines and the job (calls have timeouts, scripts are killed);
nothing is assumed of the clock, of triggers or of the stop.

Left out or worth knowing: a panic of a timed task ends the process (only
`TriggerTask` recovers); the next wake-up is computed after the batch, so hours
that pass during a batch are skipped, and a kind that is still busy is skipped
when its hour comes; the day marks are lost on restart. The comment at
`scheduler.go` 411 says that a successful refresh clears the session-dead count;
`checkinAll` (455–478) does not clear it, only keepalive and a chat success do,
which is what the model has.

## ChatStream: one answer from upstream to client

`UpstreamStream` has what `Stream` and `Aggregate` accumulate (texts, calls by
index, finish, loop guard) as operators on a record; `ResponsesStream` has the
writer of the Responses API (items, parts, calls that wait for name and id, done
events, terminal event) together with the client's view of it. Strings are the
members of `Words`. `ChatStream` puts these between an upstream that sends any of
the `Events`, breaks off, ends, stays silent or sends comments, and a client that
may disconnect or, connected, stop reading: the server sets no `WriteTimeout`
(`main.go` 383–385), so a write then never comes back. `request` says which writer
the answer goes through: plain chat, the chat contract of a request with a tool
policy, Responses, or a JSON answer. A frame that brings several things is several
events.

| Actions | Code |
|---|---|
| `Data`, `EndOfBody` | one frame read, translated and written; the end of `readSSE` with or without `[DONE]`, or an error |
| `Comment` | a comment of the upstream, sent on to a chat client; it counts as a sign of life for the monitor (`sse.go` 78–84, 895–903) |
| `Watch`, `CutOff` | the idle monitor of `idle.go` |
| `Disconnect`, `Stall` | the client leaves, or stays and reads no more |
| `ReplyChat`, `ReplyContract`, `ReplyResponses`, `ReplyJSON` | the end of the handler's loop: what is noted on the account, and the body of an answer that does not stream |
| `FinishChat`, `FinishContract`, `FinishResponses` | the deferred `finish` of the writers |

Run `stream` (`MCChatStream`): answers of up to four events out of fifteen, six
kinds of request; 6.5 million states. The events are one text as a delta and as
a whole message, the other two kinds of text, and two calls that come as name,
two halves of the arguments, whole, under another index, late, or in the legacy
form; four of them suffice for a call whose name comes last, a whole message
after its deltas, and a second call held back by the first.

* `SameAnswer`: a client told its answer is complete holds exactly what upstream
  said – `meant`, kept beside the code's own sums – and what the aggregated
  message says; nothing is lost, nothing doubled, tool names once.
* `VerdictIsSeen`: the account is credited or blamed for what the client saw.
* `ToolsAreWhole`: no tool call is declared done with half its arguments, or
  against the request's demands: none, one at most, the tool that was named, one of
  those allowed, with arguments its strict schema accepts.
* `StreamFits`: the events of the Responses API come in an order a client can
  follow, with one terminal event.
* `StreamCloses`: an answer to a chat client or a JSON answer ends although the
  upstream is silent for ever, unless the upstream sends comments without end or
  the client stays and never reads again. Neither is bounded in the code, and with
  either excuse dropped TLC finds an answer that stays open. Weak fairness of the
  monitor, of the read it cuts off and of the handler's last steps, nothing of
  upstream and client. That data ends is the bound `MaxEvents`; that the monitor
  runs at all is `normalize` (`config.go` 448–449), which puts 300 s for a
  configured time of zero or less.

Simplifications: several choices, usage frames, ids and wording are left out; a
strict schema is the set of names with arguments it refuses, and of the formats
only that of an answer in JSON is there; the finish frame and `[DONE]` are written
in one action, and so is what one flush sends of several calls, each to an item of
its own; the loop guard counts `LoopLimit` consecutive pieces of reasoning. The
legacy `function_call` name is repeated to the client when upstream repeats it.
The Responses writer fails on a mix of legacy and modern calls that the JSON path
lets pass when the answer ends by length. The JSON path credits the account even
if writing the body to the client fails.

## What is proved

Every safety property that a passing run checks is a
theorem for every value of the constants that satisfies the named assumptions, and
so is the refinement. TLC checked each inductive invariant on the instances of
the runs before it was proved. `PROJECT.json` names the theorem of each property.

`ChatRotation_proofs`, from the lemmas that each transition of `AccountEntry`
maps an entry to an entry (`TypeCorrect`, the base of the others):

* `NoLeaseBetweenRoundsHolds`, then `LeasesConserved`: the counter of an account
  equals the cardinality of the set of handlers that hold it. A step changes
  that set by at most one handler; that `Acquire` adds a handler that held
  nothing is what the first theorem gives. Requests are assumed finite.
* `LeaseLimitHolds`: follows each counter alone, the compare-and-swap being the
  only step that raises one.
* `RotationNeverRepeats`: `RotationIsFresh` is not inductive, since a sticky
  selection does not look at `tried`. The strengthening `StickyFresh` says that
  at the top of the loop the sticky account has not been tried; it holds because
  every failed round on the sticky account passes through `Unbind`.
* `SelectionHonoursContract`; `DisabledForGood`, `LimitSurvives` and
  `SuccessCloses` from the lemma `EntrySteps`, which lists what a step may do to an
  entry, and for `LimitSurvives` from whose answer it is. `SuccessCloses` (`OnlySuccessClosesBreaker`) needs an invariant too: a
  breaker runs no longer than the failure after next would set it (`Bounded`), so
  that failures of calls in flight can only prolong it. It has two hypotheses.
  `BreakerBase <= BreakerMax` holds of the defaults, 30 minutes and 6 hours;
  configuration does not enforce it, and without it TLC finds a second opening
  that is shorter than the first. `PowersDouble` is a fact of arithmetic,
  2^(n+1) = 2 * 2^n, for which the provers have no axioms.

`TokenRefresh_proofs`:

* `RefreshAlwaysCurrent`: with `OneAtATime` (the leader is the one caller
  between start and close, the saver the one between snapshot and rename),
  `Current` and `Caught`: what has been replaced is older than what memory holds,
  or is what waits to be installed.
* `DiskOnlyAdvances`: with `Ordered`, file ≤ snapshot being written ≤ memory ≤
  issued.
* `RefreshesReachDisk`: with `OutdatedWriter`, while somebody writes a snapshot
  that is outdated already, whoever brought the newer credentials still has its
  own save ahead of it.

`RedisMirror_proofs`:

* `TailsAndSlots` (`Chained`, with `NewestIsTail`): with `Links` (a write waits for an earlier one of
  its key, and no two for the same) and `Ordered` (what is behind a write in its
  chain has not begun).
* `Refinement`: each step of the goroutines is a step of `MirrorQueue` or none.
  The queue of a key is its unmade writes in the order of the log; by `Ordered`
  the one that calls Redis is the first of them.

`StickySession_proofs`, with the invariant `Told /\ Together` and `Mirrored`:

* `MirrorFollows` (`SentIsBinding`): `Told` says of each key whether the mirror was
  told its binding, somebody owes it (`Pending`), or why it may differ; `Mirrored`
  ties what was told last to the queue of the key and to Redis, which is what a
  restart reads.
* `OneAccount`: `Together` says what each stage of a request still has in common
  with the binding while nothing interferes.

`SharedFiles_proofs`. `EachStore`: a behaviour of the three stores together is one
of each alone, so each has an invariant of its own, for any number of processes and accounts,
requests or keys:

* `KeysFile`, `KeysAnswers`, with `KeysInv`: who holds the lock has in memory what
  the file holds, a cache equals the version whose information it remembers, and a
  check under way reads a version that was current since it began.
* `UsageAdds`, `UsageViews`, `UsageCloses`, with `UsageInv`: `Sound` relates what a
  process has recorded, what it has written and what its flush or reset carries,
  stage by stage; `Today` and `Apart` add the file and all processes up. The sums
  are the cardinalities of `Totals`, since a sum by recursion is out of the
  provers' reach.
* `PoolAdds`, `PoolKeeps`, with `PoolInv`: whatever is removed, a process differs
  from its base only by what it counted, assigned or restored (`Coherent`); until
  something is removed every base and every snapshot counts at most what the file
  does, so that a merge adds exactly the difference (`Whole`).
* `PoolStaysDeleted` (`NoResurrection`), with `DeletedInv` besides, for any number of
  processes: snapshots are older than the file (`Older`), the epochs of intents are
  those a process has seen (`Dated`), and a pending creation of an account at the
  file's epoch is of one its process found (`Listing`).

`HotUpdate_proofs`, for any number of instances: `Drains` from what an instance
may still produce at each step of its drain (`InStep`); `Serves` and `Outlives` from
`Handovers` (each candidate is a later instance, with one parent) and `Chain`:
unless the container stops or the service failed, some instance in charge is no
older than the pointer, and for each that has handed over a later one is in charge.
That one in charge accepts is `Unstopped`; that the container has ended only after
a stop, a failure or a crash of the first instance is `Exits`.

`SchedulerTasks_proofs`, for any accounts, kinds and hours: `Quiet`, `OneCall` and
`OneActivityRedeem` from `Held` (the job is that of the worker that holds the lock), `Stop`,
`Calls` (a job that passed its last look at the context may make one more call) and
`Redeems` (what was redeemed today is marked or still to be answered);
`NoneSlept` from `Planned`: the loop sleeps until the first hour due after an
instant it has seen.

`ChatStream_proofs`, for any words, events, requests, custom tools and lengths of
answers, from the invariant `Inv` (theorem `Invariant`, types included). A property
of the closed answer says nothing of the frames before it, so the invariant follows
one answer through every hand it passes:

* `MeantAgrees`: `up`, what `Stream` keeps, adds up to what the pieces say, deltas
  and whole messages mixed, as long as nothing has contradicted it.
* `NamesOut`, `ChatAgrees`, `HeldAgrees`, `WriterAgrees`: what the client, the
  frames the contract writer holds and the Responses writer have is what `up` has,
  for the name table too, without which a name would go out twice. A call may be
  in `up` and with no client as long as it brought nothing, neither id, name nor
  arguments (`Silent`); that the answer ended well excludes it (`EndIsWhole`).
* `WriterFits`: the items of the Responses writer and of its client. Every item
  belongs to the reasoning, the message or a call (`Covered`), no two calls share
  one (`Apart`), `order` lists the calls (`Ordered`), and an item holds what was sent
  of its call (`CallsFit`); together `Fitting`. `FlushReadyCalls` and `CloseCalls`
  write several items at once, each owned by one call, so that no induction over
  `order` is needed.
* `Fresh`, `Ending`, `Told`: no writer has seen an end before `Stream` is back;
  the verdict is given with the last frame, or the contract writer was not asked and
  still has an error to tell; who was told that all is well was told so of an
  answer that ended well.

From it `AnswerSame` (`SameAnswer`), `VerdictSeen` (`VerdictIsSeen`), `ToolsWhole`
(`ToolsAreWhole`) and `EventsFit` (`StreamFits`), each by a step lemma: the property
holds before the answer is closed or is carried by what the closing step writes.
TLC checked `Inv` on the states of the run `stream`.

`TypeCorrect` is stated as a theorem for the first two, and for the last as part of
`Inv`; no run repeats it, since the proof covers every instance.

Only model-checked are the liveness properties (`RequestEnds`, `SoftCooldownEnds`,
`CallerReturns`, `WriteEnds`, `StopEndsRun`, `StreamCloses`), which are out of the
prover's reach, since it knows neither fairness nor ENABLED, and the two properties
of the findings, which are false.

## Findings

* `onefailure`: a failed refresh is handed to all requests that joined it and
  each counts it, so one 12153 answer to three waiting requests disables the
  account, which comments in the handler and in the pool rule out.
* `escalation`: the selection that would retry a model the backend lacks first
  prunes the expired record with its hit counter. The counter rises only where no
  such selection comes in between: for calls that overlap, and for a bound
  session that returns to the account through `PickByUIDForModel`, which does not
  prune.

Each is a run that TLC must find violated; `PROJECT.json` quotes the lines.

## Not modelled

* The choice among the candidates of a selection (weights, cost tiers,
  exploration): `ChatRotation` leaves it free.
* The translation and validation of requests, `tool_pairing.go` and payload
  rewriting: pure functions of one request, planned as operators.
* The retry inside `ChatStreamContext`, headers, and the upstream endpoints the
  scheduler does not use.
* The model list cache: one TTL cache with a negative window.
* Configuration, release checks and digests, logging, the panel and the command
  line tools: no state other components depend on. The tools write the same
  credentials files as the server, from other processes and without a lock;
  `TokenRefresh` covers one process, since what the service answers to two
  refreshes of one token is not in the source.
