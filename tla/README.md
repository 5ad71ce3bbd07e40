# Komari: a verification project

Komari is a self-hosted server monitor. A panel (the Go program in `src/`) keeps
the nodes, their metrics, billing and configuration; an agent on every machine
reports to it and is configured by it. This fork adds *privileged delivery*: what
an agent may do on its host (remote control, web SSH, command execution, GPU
collection, the rescue helper, the identity it runs as) is a revision that an
administrator saves, approves with a second factor, and that a host tool and the
daemon carry out and acknowledge. Doing more than was approved, or less than the
panel shows, is the worst thing this program can do unnoticed, so this is where the
project starts.

The panel also runs plugins, in a JavaScript runtime of its own (`pkg/jsruntime`)
whose streams, file streams and XMLHttpRequest are written in JavaScript, and puts a
script (`web/public/native_login_bridge.js`) between foreign themes and the panel's
login. Both are code that other people's code calls back into, in orders nobody
tested; they are the project's second part.

The modules model the control of the code, one action per handler or database
step, and abstract its data. TLC checks them on small instances; TLAPS proves the
most important properties for every instance. `PROJECT.json` maps every definition
to the lines it stands for.

## Inventory

| Component | State | Operations | Interacts with | What is hard |
|---|---|---|---|---|
| Privileged track (`database/privilegeddelivery`) | per node: the state row (desired, applied, cursor, protocol, service, last observation), revisions, host operations, receipts | Save, Confirm, read-and-expire, Negotiate, Report, PrepareOperation, ReportOperation, Observe, FailApply, InitializeBaseline | handlers of `web/connect`, the deployment profile, the watch streams | approvals that lapse, leases, late and repeated reports, restores after an ACK, several administrators |
| Change notification (`notify.go`) and `WatchPrivilegedDelivery` | map of channels, the loop's locals | Subscribe, Notify, the loop | every handler of the track, other processes on the same database | lost wakeups, heartbeats, revoked credentials of long streams |
| Session gate (`PrivilegedCapabilityAllowed`) | none | three queries | every new remote session | queries outside a transaction, pending revocations, restored hosts |
| Ordinary deployment track (`deployment_profile.go`, `web/deployment`) | the profile row (config, revision, applied, status, previous runtime), `traffic_reset_day`, signals | save, repair, dispatch, mark sent, acknowledge, adopt, roll back | billing, agents of three generations, the privileged track | compare-and-set repair, marks racing ACKs, stale results |
| Enrollment and credentials (`database/enrollment`) | device attempts, token generations, install tokens | approve, exchange, refresh, rotate, revoke | every agent call | rotation retried after a lost answer, replay |
| Traffic ledger and billing | counters, cycles, offsets, price versions, entries | ingest, roll over, calibrate, accrue | reports, the profile's reset day | counter resets, cycle boundaries, retries |
| Metric store and engine | points, rollups, watermarks | write, roll up, compact, delete, migrate | reports, maintenance | maintenance against writes and deletions |
| Scheduler, notifier, probe tasks | jobs, timers, grace periods | tick, run, cancel | everything periodic | overlapping runs, a timer racing a reconnection |
| Remote sessions, rescue, files, workspace | sessions, leases, relays, tickets | open, relay, close, lease, report | the gate, agents | a gate answer that is stale later, relays that outlive a peer |
| Trusted credentials, accounts | factors, one-time codes, sessions | verify, consume, enroll | confirmations, logins | replay inside the time window |
| Streams of the plugin runtime (`stream/stream.js`, `events/events.js`) | per stream: buffers, counters and flags of the readable and the writable side, listeners; the queue of ticks | push, read, unshift, pause, resume, write, end, cork, destroy, pipe, unpipe, pipeline, finished, the async iterator | subclasses, user code in listeners and callbacks, other streams | re-entrance, ticks that run later than they were meant, answers after destroy, backpressure, promises that never settle |
| File streams (`fs/streams.js`) | closures: fd, position, finished, pending | open, read, write, close and their callbacks | streams, goroutines of `fs` | callbacks in any order, two closers of one descriptor, writes before the open |
| XMLHttpRequest (`xhr/api.js`) over `fetch/api.js` | a slot per object: state, generation, controller, timer | open, send, abort, answer, body, failure, timeout | fetch, timers, handlers that call the object again | answers of earlier requests, a timeout racing an answer |
| Login bridge (`native_login_bridge.js`) | per XMLHttpRequest object: is it a login, was it handled, what was overridden | the wrapped open, send and fetch(), three listeners | themes, the browser, the panel's login | order of listeners, objects used again, attempts side by side |
| Plugins, themes, RPC routing, geo IP, TLS, self update, backup | files, processes | | | I/O, third-party code |

What makes the parts correct, as far as a model can say it:

* *Privileged track*: one live revision; an approval is spent once and only while it
  stands; the applied pointer names an approved revision whose host work was done
  under the same approval; failed and superseded are final; pointers do not move
  back; what readers see never changes without the cursor.
* *Readers*: an unlocked read returns one moment, or an error; a read never renews
  an approval; the gate's answer was right at some moment of the call.
* *Streams*: no lost wakeup; every commit reaches a stream that stays up, also one
  of another process; a rescue stream does not outlive its credential.
* *Ordinary track*: a revision number means one configuration, as far as a message of
  it can say; a result of an older revision changes nothing; a delivered revision is not
  reported as unsent; "applied" is said of what the agent ran (for what is claimed when,
  see below).
* *Credentials*: one live generation, a replayed token ends the family, a retry of a
  lost answer does not.
* *Ledger*: traffic is counted once, whatever resets and retries happen.
* *Streams*: no chunk is lost, repeated or reordered; 'end', 'finish' and a resolved
  promise mean that all of them went through; every callback runs once and tells the
  truth; whoever waits (for drain, next(), a promise) is answered.
* *File streams*: a finished copy is exact and closed; descriptors are closed once and
  not forgotten.
* *XMLHttpRequest*: one outcome per request, and never that of another.
* *Login bridge*: an attempt leaves the document only for where the answer to it
  allows; once it is over, a listener added after its `open()` is not shown a success
  (earlier events and earlier listeners are); a made-up status ends with its request.

`PROJECT.json` lists every component with its status, and the hazards at their lines.

## Modules

```
PrivilegedTrack            abstract life of a revision
   ^ refined by
PrivilegedDelivery   <---  PrivilegedReads     (adds the unlocked readers)
   |                            |
MCPrivilegedDelivery       MCPrivilegedReads, PrivilegedDeliveryProofs

PrivilegedWatch      <---  MCPrivilegedWatch, PrivilegedWatchProofs

DeploymentDelivery   <---  MCDeploymentDelivery, DeploymentDeliveryProofs

JsStream  <---  JsStreamUser  <---  MCJsStreamUser   (user code and one stream)
   ^                 ^
   |            JsStreamUserProofs  <---  JsStreamWriteProofs  <---  JsStreamReadProofs
JsPipeline  <---  MCJsPipeline                       (pipeline, finished)
   ^
JsFileCopy  <---  MCJsFileCopy                       (fs streams in a pipeline)

JsXhr  <---  JsXhrProofs                             (XMLHttpRequest over fetch)

JsLoginBridge  <---  JsLoginBridgeProofs
```

### PrivilegedDelivery

One node. `node` is its `ClientPrivilegedState` row, `rows` its revisions, `ops` its
host operations, `receipts` the recorded report keys, `profile` the installation
fields of its deployment profile, `eligible` the client's `config_baseline_eligible`,
`now` the clock. Every handler is one database transaction that locks the state row
(on SQLite every transaction is opened `immediate`), so an accepted call is one
action; a refused call rolls back, notifies and changes nothing, so it is a stutter.

| Action | Code |
|---|---|
| `Save` | `SaveWithDB`, reached through `UpdatePrivilegedDelivery`, which requires protocol 2 |
| `Confirm` | `ConfirmWithDB`; its idempotent answers are stutters |
| `Expire` | `getStateTransactional`, the only writer among the reads |
| `Negotiate`, `LegacyReport`, `InitializeBaseline`, `Observe`, `FailApply` | the functions of those names (`ReportWithDB` for the legacy report) |
| `PrepareOperation`, `ReportOperation` | `host.go` |
| `SaveProfile` | what the ordinary track may do to the installation fields |
| `Tick` | the wall clock |

Abstractions: the hash of a revision stands for its settings, which nothing rewrites;
a nonce is the generation it was issued for; the settings are five switches and a
mode; texts, operators and audit fields are left out. A report names any generation,
nonce, service, start-up, observation time and effect of the constant sets, so late,
repeated, reordered and mistaken reports all happen.

### PrivilegedTrack

What readers of a revision may rely on: it is proposed, approved, perhaps lapses,
is claimed, and ends acknowledged, failed or dropped; only the newest moves forward;
the applied pointer moves only when a revision is acknowledged. `ImplementsTrack` is
the refinement.

### PrivilegedReads

`GetStateWithDB` as the queries it runs (node, desired row, applied row, operation,
node again), its retries, its fallback into the locked transaction, and the gate's
three queries, each a step between which any handler may commit.

### PrivilegedWatch

Handlers are reduced to what streams see: a commit moves the cursor by one
(`CursorCoversSnapshot` says so of the real ones) and is followed by a separate
`Notify`; a read is one step (`ReadIsOneMoment` says why that is sound), and may be
refused when as many commits as attempts overtook it. Streams subscribe, authenticate
(rescue only), read, send, and wait for their channel, the heartbeat or the end of
the connection. Other processes commit without notifying.

### DeploymentDelivery

One node on the ordinary track. `row` is its `ClientDeploymentProfile`, `day` the
client's `traffic_reset_day`, `proc` the local variables of every call under way,
`chan` the channel a watch took from `signalFor`, `queue` the config event of the v2
queue (`coalesceV2EventLocked` keeps one), `link` how the agent is reached, and
`agent`, `sent`, `ran`, `outcome` the agent, which lives in another repository: it
runs or refuses a newer revision once, and repeats its answer at will.

| Actions | Code |
|---|---|
| `ReadClient`, `ReadRow`, `Repair`, `RepairConflict`, `ReadFinal` | `GetDeploymentProfileWithDelivery` with its compare-and-set repair; used by every caller below except the JSON-RPC save |
| `Update`, `SaveWhole`, `RollbackOnlineConfig`, `ApproveEnrollment`, then `SaveProfile` | the ways to `deployment.Save` and its transaction |
| `Edit` | `adminEditClient`: client and profile in one transaction, then `DispatchCurrent` |
| `HasWatch`, `Signal`, `Transport`, `DispatchMark` | `dispatch`, a lock or a statement at a time |
| `GetDesiredConfig`, `AnswerPoll`; `WatchDesiredConfig`, `Subscribe`, `Wake`, `Cancel`, `Send`, `SendFails`, `MarkWatch` | the Connect handlers and `WaitForDesired` |
| `BasicInfo`, `AdoptRuntime`, `SkipAdopt`, `TakeV2Events`, `DropV2Event` | the v2 handlers and the event queue |
| `Acknowledge` | `AcknowledgeConfig` and `config_result` |

A content is the reset day, the address source (`get_ip_addr_from_nic`, which the code
treats differently from the rest) and one value for all the other online settings. A
Connect message (`MessageOf`) carries all of it; a v2 event and the answer to basic info
are `RuntimeConfig()` (`ConfigParams`) and have no address source, so that a v2 agent
keeps the one it was installed with (`Applying`; `Installed` is what agents may run when
they first appear). `RevisionMeaning` and `AppliedWasRun` speak of a message's content as
far as it goes. `adopted` is the history of the revisions that were closed because the
agent reported to run their settings: the comparison (`SameRuntime`) looks at the runtime
values only, so `AppliedWasRun` claims no more of them.
The re-read after a successful repair is left out: `ReadFinal` replaces all it yields.
`previous.nic`, `ran` and `adopted` are history that no code reads.

### JsStream

JavaScript runs one task at a time, but a library function that emits an event or
calls a callback runs foreign code in its middle, and that code may call the library
again before the function goes on. So every function is cut at the calls it makes:
`stack` holds the calls still to be run, innermost first, `ticks` what was given to
`process.nextTick`, and one step runs the first call up to its next call. `rs` and `ws`
are `kReadableState` and `kWritableState`, `listeners` the emitter's lists. Actions
carry the names of the methods (`Push`, `MaybeRead`, `Flow`, `DoWrite`, `OnWrite`,
`MaybeFinish`, `Destroy`, `Pipe`, `Unpipe`, ...). A chunk counts one towards
`highWaterMark`; encodings and `objectMode` are left out. What the subclass and user
code do is left to the modules that extend this one.

### JsStreamUser, JsPipeline, JsFileCopy

`JsStreamUser` is one Readable or one Writable and code that calls it from anywhere:
between tasks, in a listener, in the callback of a write. The subclass
(`Readable.from()` or the options `write`, `final`, `destroy`) answers at once, later,
with an error, or with an empty chunk; each `_read` of its source pushes one chunk, or
null. The async iterator is part of it.

`JsPipeline` is `pipeline()` over a source, a Transform and a destination, `finished()`
called at any moment on one of them, and `destroy()` of any of them, with an error or
without, by user code or an abort signal, between two tasks. One `_read` of its source
pushes the next chunk, or all that are left and null; the `_flush` of its Transform
pushes a chunk of its own (`Trailer`).

`JsFileCopy` extends it with the closures of `createReadStream` and
`createWriteStream`: `fd`, `position`, `finished` and `pending`, and `io`, the calls of
`fs` under way, each answered in a task of its own and in any order. `open` is what the
operating system has open. `lost` is a history of the files the code gives up. `destroy()`
comes between two tasks, with an error or without, on either stream.

### JsXhr

One object: `x` is its slot, `gen` the generation each request was sent with, `net` the
state of each fetch, `aborted` the aborted controllers. Handlers run inside
`Dispatch` and may open, send and abort the object again.

### JsLoginBridge

Objects and calls of `fetch()` of a theme. `xhr` holds what the bridge keeps in its
WeakMap, the listeners of the object in their order (the theme's, and those the bridge
added at each `open()` of a login) and the events that are still to be dispatched; `nav`
is where the document was sent and by which attempt, `granted` a history of what the
server granted to which, `seen` what the theme's listeners were shown of the last event.
The browser and the server are external: they answer with a session, a request for a
second factor, a refusal, something that does not parse, or an error.

An object may be opened again at any moment between two events, for a login or for
another request, with the last one under way, half dispatched or over; the theme listens
before the first `open()`, after each, or relies on its earlier listeners. `Headers`,
`Load` and `Over` are readyState 2, 3 and 4; the bridge acts on the last only, and lets
the others through with what the server sent. `SuccessIsHidden` is therefore about the
requests that are over, and about listeners that stand behind the bridge's: TLC refutes
it without either condition. Not modelled: `open()` and `abort()` from inside a listener
that stands in front of the bridge's, in the middle of one event; synchronous requests;
`abort()` before the events of readyState 2 or 3 have been dispatched.

## Runs

| Run | Shows | Bounds |
|---|---|---|
| `PrivilegedApprovals` | what an approval may lead to; refinement of the track | 2 revisions, 2 operations, 3 receipts, 3 ticks: an approval lapses, is renewed and lapses again, a claimed lease is cut, reports arrive after the next save |
| `PrivilegedIdentity` | identity conversion, changing support, restarts, the shared profile | 2 services, 2 start-ups, 2 modes, no time |
| `PrivilegedReaders` | the optimistic read, and the gate's queries | a grant and a revocation, 3 receipts, 2 attempts instead of 3: first, retried and refused attempts all happen; each reader runs in its own scope |
| `PrivilegedStreams` | wakeups (`NoLostWakeup`), revocation, liveness of the streams (`WatcherCatchesUp`, `RevokedStreamEnds`) | 2 handlers, other processes, an ordinary and a rescue stream, 2 commits besides the expiries; no symmetry |
| `PrivilegedRestored` | the finding, below | 2 revisions |
| `DeploymentRevisions` | revision, content and status over Connect and over v2 | 1 administrator, 1 call of the agent, 2 revisions on top of revision 0, 2 reset days, 2 attempts: reads are overtaken, retried and refused, marks come after the answer. The one request changes only the address source, so that the two kinds of message differ and a revision may be closed without it having been run. A Connect agent comes and goes; a v2 agent stays one (`Moves`): both messages of one revision in one history are in the proof only |
| `DeploymentWatch` | wakeups of watches (`WatcherServed`) | 1 administrator, 1 call, 2 revisions; no symmetry |
| `JsStreams` | one stream and user code: `ChunksConserved`, `EndIsComplete`, `WritesKeepOrder`, `CallbacksAreTruthful`, `LifecycleOrder`, `ReaderGoesOn`, `WriterGoesOn` | 2 chunks, 4 calls of user code, each from between tasks or inside any listener or callback |
| `JsPipelines` | pipeline() and finished(): `SuccessIsComplete`, `FailureDestroysAll`, `PipelineSettles` | 3 chunks through a Transform that adds one when it is flushed, room for one at the source and the destination: both pipes pause and resume; one destroy(), of any of the three, with or without an error; answers at once, later, failing |
| `JsFileCopies` | the two file streams in a pipeline: `FinishedCopyIsExact`, `FsCallsTakeTurns`, `CopyEnds` | 3 chunks, highWaterMark 1, every call of `fs` may fail; one destroy() of either stream between any two tasks, with or without an error |
| `JsRequests` | one XMLHttpRequest: `OneOutcome`, `ResponseIsOfLastRequest`, `SendSettles` | 2 requests, 4 calls of open() and abort(), both modes, with and without a timeout: an answer of the first arrives while the second is under way |
| `JsLogins` | the login bridge: `NavigationIsEarned`, `SuccessIsHidden`, `AttemptEnds` | an object opened twice, for a login or for another request, with listeners before and after `open()`, and a fetch() side by side: every answer, every order of the events and of a second `open()` |

A type invariant is a conjunct of one invariant of each run, where it is not proved.
`OneLiveRevision`, `RevisionLifecycle`, `AppliedNeverRegresses`, `WatchTypeOK` and
`OverrideEndsWithRequest` are proved for every instance and not checked again by a run.
What each property says is at its definition; every one has a mutant in
`PROJECT.json`, an operator marked *Defect* that a plausible slip in the code would
amount to and that TLC finds.

`VIEW` hides the cursor (and nothing else of the state that steers a step) in the
runs of the track: it only counts, every property that mentions it compares it with
its value one step before, and the view keeps what those steps depend on. `SYMMETRY`
permutes identifiers that the code only compares.

Deadlock is not checked where the bounded receipts, revisions and ticks run out (in
`DeploymentDelivery` a repair at the last revision waits for ever); the privileged
streams never stop, and there it is. The programs of the JavaScript runs come to an
end, so it is not checked there: the liveness properties say what must have happened.

*Fairness* (`PrivilegedWatch`): a stream's goroutine is scheduled and its timer
fires, hence weak fairness of each stream's turn; a deferred `Notify` runs, hence
weak fairness of it. Nothing makes anybody save, connect, disconnect or revoke.
(`DeploymentDelivery`): a call that has begun takes its next statement, hence weak
fairness of each call's steps. Beginning a call, cancelling it and everything the agent
decides is left to chance.
(JavaScript modules): the event loop runs what is due, hence weak fairness of the
running task and the ticks (`Proceed`); a subclass, `fs`, the network and the browser
answer what they were asked, hence weak fairness of each answer. That user code calls
anything is never assumed; that it returns is.

## Findings

* `PrivilegedRestored`: a host restores revision 1 after the daemon acknowledged it
  and after revision 2 was saved. `ReportOperation` treats the report as one of a stale
  operation and leaves row 1 delivered, so the gate goes on trusting it; the comment in
  the gate says such a snapshot must not authorize new sessions.

## Known divergences

Behaviours that the models have and that differ from a comment, a document or what a
caller would expect. No run is kept for them; where a property or a constant exists, it
shows them.

Privileged and ordinary track:

* `GrantNeedsAck` (`PrivilegedDelivery`; requests `MCGateRequests`, three revisions):
  after a grant was applied and a revocation was saved, saving a third, unconfirmed
  revision that grants again opens the capability at once. The comment of the gate
  (`deployment_profile.go:939`) says a desired grant never enables access before a
  daemon ACK.
* `RollbackKeepsAddressSource` (`DeploymentDelivery`; requests `MCNicRequests`):
  `previous_runtime` does not hold `get_ip_addr_from_nic`, and the rollback copies the
  zero value over the current one (`deployment_profile.go:488`).
* A revision that changes only `get_ip_addr_from_nic` never reaches a v2 agent, whose
  messages are `RuntimeConfig()` (`service.go:109`), and is marked applied when the agent
  next reports the settings it runs (`deployment_profile.go:885`), or answers to the event;
  a revision that changes only the reset day is closed by a report of the old day
  (`deployment_profile.go:844`). `AppliedWasRun` claims neither.
* `UpdateOverExpected` (`DeploymentDelivery`; two administrators): the expected
  revision is compared outside the saving transaction (`config.go:81`); two who expect
  the same revision both succeed.

Streams (`stream.js`; the runtime's document is `pkg/jsruntime/README.md`):

* A source, or the readable side of a Transform, that pushed null while the pipe had
  it paused is never resumed: `ondrain` asks for `!state.ended` (line 171). The document
  (465) says that pipe pauses and resumes by drain. `PipelineSettles` names the case
  (`Stranded`): TLC refutes the property without it, with no failure and no `destroy()`.
* An empty chunk leaves a flowing stream waiting (327); `ReaderGoesOn` excludes it.
* `end()` while corked never flushes. `end()` in the callback of a write that failed
  emits 'finish' (`CallsInFailure = TRUE` refutes `CallbacksAreTruthful`). With an
  asynchronous `_final`, `end()` inside a write callback calls it twice. A
  `highWaterMark` of 0 never drains.
* `pipeline()` does not settle when its source or a middle stream is destroyed without
  an error before its 'end': it listens to 'close' of the destination only, and `pipe()`
  to that of neither. `PipelineSettles` names this case too (`Silenced`).
* `pipeline()` does not destroy the iterable behind a wrapped source; `finished()` of a
  Duplex settles at the first of 'end' and 'finish'.
* Two destinations of one source share its pause and resume. An iterator opened after
  'end' or 'close' waits for ever; `return()` leaves earlier calls of `next()` pending;
  a destroy without an error looks like a normal end to it.

File streams (`fs/streams.js`):

* A consumer attached after the task that created the read stream, while the read of
  the open callback is under way, starts a second read at the same position:
  `PipedLate = TRUE` refutes `FsCallsTakeTurns` and `FinishedCopyIsExact`.
* A failed read leaves the descriptor open (`fail` sets `finished` before `destroy`), and
  so does a file that opens after `destroy()`. `destroy()` of the read stream without an
  error leaves the promise of the copy pending and the destination open (the `Silenced`
  of above). `CopyEnds` names the three and is stated for the rest.
* `end()` of a write stream before the file is open emits 'finish' first and leaves the
  file open (an empty copy, `Total = 0`).

XMLHttpRequest and login bridge:

* A handler that aborts or reopens at LOADING or progress is followed by 'load' all the
  same; a loadstart handler that makes the object synchronous mixes two requests. The
  handlers of `JsRequests` do neither (`Reentrant`).
* The http client emits 'error' and 'close' again when it is destroyed before the
  rejection, and sends again on a second `end()` (not modelled).
* The bridge's comment says that it suppresses success events during the handoff. It
  does so at readyState 4 only (`native_login_bridge.js:69`): readystatechange 2 and 3 and
  progress show status 200, and at LOADING the body, to every listener. At readyState 4 a
  listener in front of the bridge's is shown the success: one added before `open()`, or
  for an earlier request of the same object. `SuccessIsHidden` excludes both by name
  (`finished`, `earlier`).

## Proofs

`PrivilegedDeliveryProofs` proves, for any number of revisions, operations, receipts,
services and any lifetimes, `TypeOK`, `OneLiveRevision`, `ApprovalClaimedOnce`,
`AppliedWasApprovedAndDone`, `RestoredDesiredDenied`, the action properties
`RevisionLifecycle` and `AppliedNeverRegresses`, and the refinement of
`PrivilegedTrack`. None of the invariants is inductive alone. The inductive invariant
is the conjunction of

* `Numbering`: revisions exist exactly up to the desired one, and the applied one is
  among them;
* `OneLiveRevision`: no other can be approved or claimed;
* `Claims`: an operation belongs to an existing v2 revision, of the generation the
  row still has, and the row says it was claimed. That the generation is the same is
  what makes "done under the same approval" survive: a claimed row is not confirmable,
  so its generation is frozen;
* `Unshared`: two operations never share a revision, because claiming needs
  `needs_manual` and leaves it for good;
* `HostFailures`: an operation that failed or restored while its revision was current
  left the row failed;
* `AppliedWasApprovedAndDone` itself.

Its second part proves the action properties about time and about readers:
`HostWorkInsideApproval`, `NoLateAcknowledgement`, `ReapprovalOnlyAfterLapse`,
`CursorCoversSnapshot` and `ProfileFollowsAcknowledgement`. To the invariant above it
adds `Deadlines` (a row has a deadline only once it was confirmed, and an expired row is
past it) and `Leases` (the lease of an operation ends no later than the approval of its
revision: without it a claim made late would outlive the nonce). The cursor is proved by
going through the handlers: each one that changes the node, its desired row, its applied
row or the operation of the desired revision also advances `update_sequence` by one.

The assumptions are those of `PrivilegedDeliveryAssumption`: naturals for bounds and
lifetimes, requests and effects of the right type.

`PrivilegedWatchProofs` proves for any set of streams and handlers `WatchTypeOK`,
`NoLostWakeup` and `AtMostOneLateMessage`. The strengthening says where a stream is
registered (from its subscription until it leaves, unless its channel was closed),
that its snapshot is the newest local commit unless a notification is pending, and
that a revoked stream past its authentication has sent nothing yet.

`JsLoginBridgeProofs` proves `SuccessIsHidden`, `NavigationIsEarned` and
`OverrideEndsWithRequest` for any number of objects, requests of each and fetches, with no
hypothesis on the theme. In the inductive invariant `BridgeInv`, `Bridged` says that the
bridge listens to every login, wherever the theme's listeners stand; `Noted` what its notes
may say at each phase (nothing is handled, hidden or overridden before readyState 4 or of
another request, and a handled success is one or the other); `Announced` that an event the
bridge does not listen to comes of a failure only, which is why a listener that is told
of it is not told of a success; `Granted` that what the server granted a finished login is
known under this attempt; and `LeftBy` that the document was left by attempts that are
past or marked as navigating, so that none leaves it twice.

Of the readers of `PrivilegedReads` it proves, from these, `ReadIsOneMoment`, `ReaderExpiresOnlyLapsed` and
`GateAnswerWasTrue`, for any number of attempts and any handler between two queries.
`Fresh` says that as long as the cursor stands where the attempt found it, what was read
is what the database holds, which is `CursorCoversSnapshot` used the way the code uses
it. `Witnessed` says of the gate that a revision which does not allow the feature any
more has shown a denial during the call; it rests on the life of a revision, which the
refinement of `PrivilegedTrack` gives: a revision never comes to allow a feature again.

`DeploymentDeliveryProofs` proves `RevisionMeaning`, `AppliedWasRun` and
`DeliveryStaysClosed` for any requests, edits, links and number of concurrent calls.
`RevisionMeaning` speaks of what was handed to the agent; the inductive `OneContent` says
the same of everything that carries a revision (`InHand`), including the rows that
interrupted calls have read and will send over Connect or v2, and that none is newer than
the row. `CallsOK` says what the local variables of a call hold at each statement, `RanSo`
that what the agent reports or decided to adopt it has run, and that whoever answers
"applied" ran all that some message of the revision carried. Besides the shapes of the constants it assumes
that `Null` is none of the values it stands beside (`NullAssumption`) and that there is
a first revision.

`JsXhrProofs` proves `OneOutcome` and `ResponseIsOfLastRequest` for any number of
requests, and handlers that call the object from every event but 'progress' and the
state LOADING (`QuietBody`). The hypothesis is needed: `acceptBody` does not look at the
request again after these, and the properties fail (see Known divergences). The
invariant is about the stack of interrupted calls: the last events of a request are on
it at most once, in order and next to each other (`Settled`), what is left of an answer
belongs to the request the object waits for and nothing above it runs a handler that
calls the object (`Work`), and a request that `send()` has yet to start is either waited
for or cancelled (`Starts`).

`JsStreamUserProofs` proves `LifecycleOrder` for any number of chunks and calls, every
choice of user calls from inside listeners and callbacks, and every order of the
subclass's answers. The argument is a token: from the moment `destroy()` sets the flag,
exactly one thing is left of it, a pending `_destroy` (on the stack or with the
subclass), its completion, or the event 'close' (`OneLeaves`), and before that moment
there is none (`Alive`); 'end', 'finish' and 'error' are emitted before anything else
runs (`AtOnce`), so none of them can be overtaken by a nested `destroy()`. Every other
function of the library only makes calls that have no part in the life of a stream
(`Plain`), which is one lemma (`PlainRun`) and one short lemma per function.

`JsStreamWriteProofs` proves `WritesKeepOrder` and `CallbacksAreTruthful` along the same
stack. Two thirds of the invariant `WInv` follow a chunk: `Ordered` says that the calls
between `write()` and the callback are at the top of the stack or nowhere (`Frames`), and
that the subclass owes one answer at most, and only while a chunk is being written
(`OneWrite`): without it a second answer would finish the wrong chunk. `Numbered` says
that a call of `write()` finds its chunk in no place yet. Once `destroy()` has dropped the
queues, `Dropped` keeps a refused chunk in one place, so that it is refused once. `Told`
says that a chunk which waits, is written or is about to be refused has not been told,
that nobody is told twice, and that a callback on the stack carries the truth. The last
third is about 'finish': when a call is left that can emit it, every accepted chunk was
written and its callback ran (`AllWritten`), because a failure is followed by the
`destroy()` that prevents it (`FailsNext`). That holds only while nothing is called
between the callback of a failed write and that `destroy()`, which is the hypothesis
`~CallsInFailure` of `CallbacksTruthful`: with it dropped, 'finish' after a failed write is
reachable (see Known divergences). `WritesOrdered` does not need it, nor does `AnswersTrue`,
the part of `CallbacksAreTruthful` that is about the callbacks. All three assume
`UserAssumption`, the types of the constants, and no more.

`JsStreamReadProofs` proves `ChunksConserved`, from the same assumption. A chunk is in one
of six places, and `RInv` says that these, read in order, count the chunks of the source
(`InLine`): given out, queued by the iterator, on its way to a listener, buffered, on its
way from the subclass, not made yet. A call that carries a chunk is at the top of the
stack or nowhere (`Fetching`), which is why no nested `read()`, `unshift()` or 'data'
listener can overtake it; the stream flows only while somebody listens for the data, and
whoever listens is the one who takes it (`Hearing`); a subclass owes one chunk at most and
none once the stream has ended (`Asking`); 'end' comes after the last chunk was given out
(`Ending`). `Waiters` says that `next()` waits only while the iterator's queue is empty.
The types in `ChunksConserved` need one more part: no more writes are counted and answered
for than were accepted (`Tally`), also after `destroy()` has set `length` back.

On top of `RInv` the same module proves `EndIsComplete`. What happens at 'end' is its part
`Ending`; what an iterator says needs `ItInv`, because the iterator takes both 'end' and
'close' for the end of the data, and a stream destroyed with an error emits 'close' as
well. So `ErrorKept` says that an error of the stream is an error of the `_destroy` that
closes it, `ErrorHeard` that an open iterator listens to 'error' or is about to, and
`ErrorFirst` that a 'close' still on the stack has the 'error' above it, unless the stream
ended or was closed without one: the iterator hears of an error before it hears that the
stream is closed. `Finished` draws the conclusion: an iterator answers `done` after 'end'
with its queue empty, or of a stream that was destroyed without an error.

Each of these inductive invariants was model-checked on the instance of the module's run
before it was proved.

Only model-checked: the liveness properties, since liveness under fairness and `ENABLED`
are out of the prover's reach; and of the stream modules `SuccessIsComplete` and
`FailureDestroysAll` (`JsPipeline`), `FinishedCopyIsExact` and `FsCallsTakeTurns`
(`JsFileCopy`), whose inductive invariants have to follow the data of several streams
that share one stack. `OneLiveRevision`, `RevisionLifecycle`, `AppliedNeverRegresses`,
`WatchTypeOK`, `OverrideEndsWithRequest` and
`TrueAnswers` are proved and in no run.

## Not modelled

The protocol-1 watch stream, the gate's legacy answer as a moment in time (before v2
the profile decides), conversion to protobuf, signatures, and the components marked so
in `PROJECT.json`. Of the JavaScript runtime: encodings and `objectMode`, `once()`, the
thin adapters of stdio, HTTP bodies and child processes to streams, the HTTP client, and
the modules that are functions on data (buffers, URL, util, headers, bodies). Subclasses
answer at once, later or with an error, but push in the ways named above: `JsStreamUser`
has no `_read` that pushes several chunks, or a chunk and null, in one call (`JsPipeline`
has them), and no module has one that pushes chunks at moments of its own.

## Plan

1. (done) `PrivilegedDelivery`, `PrivilegedTrack`, their run and proofs.
2. (done) `PrivilegedReads`, `PrivilegedWatch`.
3. (done) `DeploymentDelivery`: the ordinary track, its repair, dispatch and results.
4. (done) The JavaScript runtime's streams, pipelines, file streams and
   XMLHttpRequest; the login bridge with its proofs.
5. `Enrollment`: device approval, refresh rotation with its recovery window, revocation.
6. Remote sessions against the gate; the rescue lease and its jobs.
7. `TrafficLedger`: counter resets, cycles and calibration against a reference total.
8. The scheduler and the offline notifier.
9. (done) Proofs: deadlines and the cursor, the optimistic read and the gate, the
   meaning of a deployment revision, the outcome of an XMLHttpRequest, the lifecycle of
   a stream, the order of writes and the truth of their callbacks, the conservation of
   chunks on the readable side and what an iterator answers at the end.
10. Proofs: pipelines, where several streams share the stack; token generations (`Enrollment`).
