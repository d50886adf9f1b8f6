# Verification of kle-ng-api

TLA+ models of the backend of kle-ng-api (`src/backend`, Go), model-checked with
TLC, and theorems about them proved with TLAPS. The backend turns a keyboard
layout into a KiCad project: an API server accepts a task, a worker builds it,
the files go to a Filer (SeaweedFS), and a WebSocket shows the build's log. What
makes it worth modelling is that one task is touched by many hands: any number
of request goroutines, a background detector that cancels abandoned tasks, the
asynq broker in Redis, one or more workers that may be killed or out of time, and
sockets that read a log while it is written, trimmed or given up.

Contents: [inventory](#inventory), [modules](#modules-and-code),
[runs](#runs), [fairness](#fairness), [proofs](#proofs),
[where code and comments differ](#where-the-code-and-its-comments-differ),
[what is not modelled](#what-is-not-modelled), [plan](#plan).

## Inventory

Paths are below `src/backend`. "Hard" names what tests hardly reach.

### API server: REST handlers (`cmd/server/main.go`)

- State: none of its own. It shares the access tracker and the asynq queue.
- Operations: `KicadPostNewTask` (rate limit, body, enqueue, track),
  `KicadGetTaskStatus` (track, look up), `KicadDeleteTask` (look up, delete,
  untrack), `KicadGetTaskRender` and `KicadGetTaskResult` (proxy of a Filer GET),
  `KicadGetWorkers`, `GetVersion`; the shutdown: signal, `srv.Shutdown`,
  `ListenAndServe` returns, `log.Fatal`.
- Hard: each handler is a sequence of calls to Redis, and every other goroutine may
  run between two of them; a call may fail before or after it took effect; the
  process may end between two of them.
- Correct when: the queue stays near `MAX_QUEUE_SIZE`; a task is removed for one
  client at most; a cancelled task is not run afterwards; no handler takes
  away a task that runs; the files a SUCCESS lists can be downloaded.

### Access tracker and abandonment detector (`cmd/server/main.go`)

- State: `TaskAccessTracker.lastAccess`, in memory, under a mutex.
- Operations: `UpdateAccess`, `RemoveTask`, `GetAbandonedTasks`; a ticker runs
  `checkAbandonedTasks`, which calls `handleAbandonedTask` for each id of one
  snapshot.
- Hard: the snapshot is stale when it is worked off; the map forgets everything on
  a restart; its entries are made and removed at the other end of a broker call;
  requests put ids in it that no task has.
- Correct when: every waiting task is in it; a task nobody asks for leaves the
  queue; a task that is being watched is spared; the map does not grow for ever.

### Log WebSocket (`cmd/server/logs.go`)

- State: per socket a channel of frames, a context, the last id read.
- Operations: the Redis pump (`pumpLogStream`), the write loop
  (`KicadGetTaskLogs`) and the read pump, three goroutines.
- Hard: shutting three goroutines down without a leak or a lost frame; the order of
  the last log entries, the end of the task, an empty read and the look-up of
  the task; trimming behind a slow reader.
- Correct when: what is sent is the stream, in order and once; a normal close
  loses nothing that was read, and is justified; a finished task closes the
  socket; nothing is left behind.

### Worker (`internal/worker`)

- State: the task's result in Redis, its log stream, its work directory.
- Operations: `HandleGenerateKicadProject` (initial progress, `NewPCB`,
  `UploadToStorage`, result), with a deferred end entry and a panic recovery;
  `Worker.Start` and its shutdown on a signal.
- Hard: the handler outlives its deadline or its worker; the order of the defers;
  panics; a worker that dies; a task given back by a shutdown and run again.
- Correct when: SUCCESS with files means that the files are there; the log ends
  once per attempt, last; a handler that was given up changes nothing but by the write
  it had begun.

### KiCad project generation (`internal/kicad`)

- State: a fresh work directory per attempt: the project, footprints, `logs`.
- Operations: `NewPCB`: settings are parsed (`preset.go`, `parsePlacement`), names
  made safe (`paths.go`), directories and inputs written, kbplacer run, footprints
  bundled, the schematic exported by kicad-cli, two sides rendered, and the renders
  listed in a `RenderManifest`.
- Hard: about forty early returns; validation far from use; commands cancelled with
  the context at any time; an export whose exit status is not looked at; names of
  files agreed on across packages.
- Correct when: kbplacer gets all it needs; the project's files are where the name
  says and nowhere else; the manifest lists each sheet once, and only files that
  are there; a cancelled build ends.

### Filer upload and retry (`internal/storage`, `internal/retry`)

- State: the objects of the task on the Filer.
- Operations: `UploadToStorage` sends the zip, then every render; `retry.Do` repeats
  a POST after a transport error, 429 or 5xx, with a back-off under the context.
- Hard: a request that failed for its sender may land, late or twice; the boundary
  of the last attempt; cancellation during a delay or a request.
- Correct when: nil means that everything is stored; what is stored is an initial
  part of the upload order; every upload ends.

### Log publisher (`internal/logstream`)

- State: the stream `pcb:logs:<id>` (2000 entries at most) and its TTL.
- Operations: `PublishLine`, `PublishEnd`, `publish` (XADD, then EXPIRE until one
  has succeeded), `LineWriter`.
- Hard: XADD and EXPIRE are two calls; every write is best effort; the key may run
  out or be made anew between two of them; the pipe cuts the output anywhere.
- Correct when: every line of the output is published once and whole; a log does not
  run out while its build writes it; a log that nobody writes any more is removed.

### The others

The zip archive (`internal/storage/zip.go`), configuration (`internal/common`),
shared types, deployment files, the version and workers endpoints. The asynq
broker, the Filer, kbplacer and kicad-cli are outside the repository.

### How they interact

```
client --POST/GET/DELETE--> handlers --Enqueue/GetTaskInfo/DeleteTask--> asynq (Redis)
                               |  ^                                        |   ^
                               v  | UpdateAccess, RemoveTask       Dequeue |   | result,
                            tracker <-- snapshot -- detector               v   | state
                                                      |                  worker
client <==WebSocket== write loop <-chan- Redis pump   +--DeleteTask-->   asynq
                                            ^                              |
                                            +-- XREAD  pcb:logs:id  <-XADD-+
                                                                           |
client <--GET files-- Filer proxy <-- Filer <------- POST zip, renders ----+
```

## Modules and code

`PROJECT.json` maps every definition to its lines. Definitions under a comment
"Mutant:" are variants of the next definition with a plausible bug; no next-state
relation uses them. They exist to show that the properties can fail.

| Module | Models | Remarks |
|---|---|---|
| `TaskApi` | REST handlers, tracker, detector | one action per broker or tracker call |
| `TaskLifecycle` | abstract: the life of a task | implemented by `TaskApi` |
| `MCTaskApi` | instances of `TaskApi` | symmetry of ids and handlers |
| `BuildTask` | the handler of a task and the asynq processor | one task, several attempts |
| `BuildOutcome` | abstract: what the status endpoint promises | implemented by `BuildTask` |
| `BuildPhases` | abstract: what a handler may count on of `NewPCB` and `UploadToStorage` | implemented by `Project` and by `BuildTask` |
| `LogTail` | one log socket and the stream it reads | |
| `BuildLog` | composition: `BuildTask` writes the stream that `LogTail` reads | |
| `LineWriter` | `LineWriter`: output in pieces, lines out | |
| `LogPublisher` | `Publisher.publish`, `ensureExpire` and the key in Redis | |
| `Retention` | log, files and result on one clock; the Filer proxy | extends the two above |
| `TaskContext` | the context of one attempt | shared by the next four |
| `BuildSettings` | settings accepted by `NewPCB`, arguments of kbplacer | pure |
| `ProjectNames` | names of projects, files and renders | pure; the positions of a name that are kept |
| `ProjectBuild` | `NewPCB` | extends the two above |
| `FilerUpload` | `UploadToStorage`, `retry.Do` | |
| `Project` | composition: `ProjectBuild`, then `FilerUpload`, one context | |
| `MCProject` | instances of `Project`: requests, names, sheets | |
| `TaskApiProofs`, `BuildTaskProofs`, `LogTailProofs`, `BuildLogProofs` | theorems | |
| `LineWriterProofs`, `RetentionProofs` | theorems | the second uses the first |
| `ProjectNamesProofs`, `ProjectProofs` | theorems | the second uses the first |

### TaskApi

`task[t]` is asynq's state of a task, "none" before it is enqueued and "gone" after
it is deleted. `tracked` and `age` are the tracker's map: only
`now.Sub(lastAccess) > timeout` is ever asked of a time, so it is kept as an age in
ticks that stops one past the timeout. A handler `h` has a program point `pc[h]`,
an id `arg[h]` and, for a socket, the time it has been open.

| Action | Code |
|---|---|
| `PostAdmit`, `PostBadBody`, `PostEnqueue`, `PostEnqueueError`, `PostTrack` | `KicadPostNewTask` |
| `StatusRequest` | `KicadGetTaskStatus`: the rest of it only reads |
| `LogsOpen`, `LogsClose` | `KicadGetTaskLogs`, as the tracker sees it |
| `DeleteRequest`, `DeleteCall`, `DeleteUntrack` | `KicadDeleteTask` |
| `Sweep`, `Examine`, `Reap`, `Untrack` | `checkAbandonedTasks`, `handleAbandonedTask` |
| `WorkerStart`, `WorkerFinish`, `WorkerRequeue`, `Evict` | asynq and its workers |
| `Signal`, `DetectorStops`, `Close`, `Exit` | shutdown: context, detector, `srv.Shutdown`, `log.Fatal` |
| `Crash`, `Restart` | the process dies; it starts with an empty tracker |
| `Tick` | the clock |

A call that fails is a second disjunct: with `Faults` it may fail before it took
effect, or after it with its reply lost. A POST whose `GetQueueInfo` failed goes on
as if the queue were empty (`"unchecked"`); the history variable `waved` holds the
tasks it adds, which the rate limit never saw. `server` follows the shutdown: once
"closed" no request comes, but `Exit` does not wait for those under way.

`LogsOpen` records the access and starts the socket's lifetime in one step; the code
does so a few instructions apart, which is far below a tick.

### BuildTask

Per attempt: where the handler stands (`pc`), its next upload, what it has sent
(`posted`), its `buildStatus`, what it returns, the write it has on its way to Redis
(`call`), its context (`ctxDone`), and whether its processor still waits for it
(`proc`). Shared by all attempts: the task's state and result, the stream, the Filer,
and the count of log lines (`MaxLines` bounds those of all attempts together). `Advance`
holds the phases of `HandleGenerateKicadProject`, `Log` a published line, `Panic`
the recovery, `End` the deferred `PublishEnd`. The asynq processor (`Settle`,
`Expire`, `GiveUp`, `Requeue`, `Cancel`) is modelled from the library's contract, as
`worker.go` configures it: MaxRetry 0, a deadline of ten minutes, a task that cannot
be finished in the shutdown time is given back. `Exit` is the death of the process,
`Recover` asynq's lease recovery.

Two steps of asynq matter here and are two in the model. `ResultWriter.Write` looks at
the context once and then calls Redis without it, and go-redis looks at a line's
context before it sends the XADD: `WriteResult` and `PublishLine` test `ctxDone` and
leave a `call`, and `Written` is Redis carrying it out, or failing, at any time later;
the handler waits for it (`At`). `WrittenLate` is the same for a process that has died
since. And a processor that leaves (`Leave`) first settles the task or gives it back;
the deferred cancel of the handler's context follows on its own (`Cancel`). So a handler
may still be uncancelled, or have a write on its way, when its task is archived, back in
the queue, taken by the next attempt or even completed by it.

An upload is three actions: `Post` sends an object, `Land` is the Filer storing it, at
any time from then on, and `Upload` takes the answer. An object may therefore land
after its attempt has failed or died, beside those of the next one.

The reported progress is "progress", the result with files "manifest". `NewPCB` and
the retries of `UploadToStorage` are opened up in `Project`. The two modules are tied
together by `BuildPhases`, which both implement: what `BuildTask` leaves out of a
build is no more than what `Project` shows it to do.

### LogTail

Entries are numbered as XADD does; `first..added` is what Redis holds. `pump` says
where the Redis pump stands: at the context test, in XREAD, after an empty XREAD, or
handing on a batch. `frames` is the channel, closed exactly when the pump is gone.
`WriterReturns` is the deferred `cancel` and `conn.Close`. `Publish`, `Finish` and
`Trim` are the environment: entries come and the task ends in any order. XREAD and
the look-up may fail at any time; `failed` and `expired` remember that a failure
ended the pump or that the lifetime elapsed.

### BuildLog

`BuildTask` and an instance of `LogTail` in which `added` is the length of the
worker's stream, `ends` its terminal entries, `finished` asynq's verdict, and
`ctxDone` the socket's own `socketDone`. Worker steps leave the socket alone and the
socket's leave the worker alone: the two meet in Redis only. In place of `Publish`
and `Finish` there is the real worker; that it does nothing the two would not do
(`ImplementsTail`) is what carries LogTail's results over.

### Retention

One clock for everything that is there for a time: the log's key (`expiry`, in
`LogPublisher`), the objects on the Filer (`life`), the completed task (`left`) and
the attempt itself (`age`, counted from its dequeue, for the deadline of asynq). The
handler's phases are those of `HandleGenerateKicadProject` as far as they publish,
upload or report; kbplacer's output goes through `LineWriter` in pieces of any
length, and each line it emits is a `publish` of two Redis calls, which the
clock may interrupt. `CopyOutput` is a `Write` and its emits, `OutputEnds` the
deferred `Close`. `GiveUp` settles the task at the deadline while the handler lives
on; `Exit` is the end of the worker with a handler in it. `FilerProxy` is what a
download answers.

### Project

`step` runs through `NewPCB` in its order; a `Command` step is either about to start
its command or waits for it (`running`). A command started under a cancelled context
fails at once; one that is running when the context goes is killed, in any state of
its work. A setting is "ok", "absent" or "bad" and `Accepted` is the conjunction of
`NewPCB`'s early returns; a `stabilizerFootprint` that is no string is "absent", as
the type assertion makes it (`kicad.go:581`), and "bad" without a colon. A layout name
is a sequence of tokens, each a word or a class of characters the code treats alike,
so that removing `..`, illegal characters and white space, joining a path, globbing
and slugifying are modelled by what they do. `kbplacer` makes the root sheet, and the
child sheets if asked for them. `FilerUpload` then sends the zip (object 0) and the
renders; `Land` is the Filer storing what it was sent, at any time after the request
left.

## Runs

Sizes are distinct states. All complete well within five minutes.

| Run | States | Question |
|---|---|---|
| `TaskApi_faults` | 1.75 million | Which promises about a task survive a broker that fails, a server that is stopped, dies and restarts, and workers that give tasks back? |
| `TaskApi_live` | 27 thousand | Is any waiting task lost to the detector? Do abandoned tasks and stale entries go away without any worker's or client's help? |
| `TaskApi_watched` | violation | Is a watched task never reaped? |
| `TaskApi_stop` | violation | Is the shutdown graceful? |
| `BuildTask_all` | 573 thousand | What holds of result, stream and files with everything that can go wrong? |
| `BuildTask_panic` | violation | Do stream and status agree? |
| `LogTail_all` | 237 thousand | Is the feed faithful, is a close justified, and does nothing leak, whatever happens? |
| `BuildLog_calm` | 607 thousand | What does a watching client see of a build, and what more holds while Redis answers and the deadline is kept? |
| `BuildLog_drained` | violation | Has a finished task's stream always been read to its end? |
| `Retention_all` | 621 thousand | Do files, log and result last as long as they are needed, and no longer? |
| `Project_all` | 125 thousand | Does a build from any settings and any name deliver what its manifest says? |
| `Project_sheets` | violation | Does the manifest list every sheet for every name? |

**TaskApi_faults**: two tasks, two handlers. `RemovedOnce`: two DELETEs, or a
DELETE and the detector, may both find a task pending, but one removes it.
`CancelledStaysOut`: after 200 no worker starts it. `SweepSparesWatched`: no snapshot
takes a watched task, because a socket's lifetime is not above the timeout (both
one tick here, the tightest case; 11 and 15 minutes in the code). `QueueBound`:
with `MaxQueueSize = 0` (the comparison is `>`) racing requests overshoot the limit
by one task each and no more; a task whose queue length could not be read is not
counted. `ImplementsLifecycle`: no transition outside `TaskLifecycle`. Two handlers
and the detector give every pair of racing parties; a third adds none that the
properties tell apart, and the proofs cover any number.

**TaskApi_live**: one task, one made-up id. `PendingIsTracked` needs a broker that
answers, a server that stays up and no requeue; each of the three really breaks
it, and is a listed hazard. `AbandonedLeavesQueue`: a pending
task that nobody asks for leaves the queue although no worker need come.
`TrackerDrains`: every id is dropped unless it is asked for again and again, or its
task runs.

**BuildTask_all**: two attempts, so that a handler left behind runs beside its
successor. `SuccessIsStored` and `EndIsLast`. `LateHandlerIsMute`: an attempt that has
lost its context changes the result once more at most, with the write that had passed
its check, and what a completed task's result holds only an attempt that was given back
before can still change. It cannot be had without the exceptions: asynq's two steps
leave that window. `ActiveSettles`: a task does not stay in progress. One render and one
line are enough: the properties distinguish only "all stored" from "not all", and a line
from the end. (More lines are in `BuildLog_calm`.)

**LogTail_all**: four entries, batches and a channel of two, so that batches are
split, the channel fills, and trimming overtakes the reader in the middle of a
batch. `FaithfulFeed`: order, no repetition, nothing after the end; gaps only
where Redis trimmed. `CloseDrains`: the frames left in the channel when the pump
returns are sent before the close. `CloseIsJustified`: a normal close is for a
finished task or after an end entry. `FinishedCloses`: it comes even when the stream
is gone or never was. `NothingLeaks`: all three goroutines end.

**BuildLog_calm**: one attempt with one render and two lines, read in batches of two
through a channel of one, with workers that stop or die. Redis does not fail the
worker (it may fail the socket) and the deadline is kept. `ReturnedHasEnded`: the end
entry is published although the context may be cancelled. `EndMeansWhole`: a client
that got the end got every line before it. `ImplementsOutcome` with `Degraded` and
`Overlap` false: every SUCCESS comes with its files, and keeps them. `ImplementsTail`:
the worker is within LogTail's environment. `SocketFollowsTask`: when the build is
over, however it ended, the socket is closed. One attempt gives every order of its
steps and the socket's; two attempts are in `BuildTask_all`, and the proofs of
`EndMeansWhole` and `ImplementsTail` cover any number.

**Retention_all**: two attempts, so that objects and a log key of the first are
there under the second. The ticks keep the order of the code's times: a timeout of 2
(ten minutes), a log TTL of 3 (15 minutes, here as short as the assumption allows), a
Filer TTL of 4 (one hour), a retention of 5 (24 hours, longer than all). Output of four
bytes holds a CR LF cut in two, an empty line and an unfinished one. Redis may fail
every call, done or not. `EmittedIsSplit`: the lines published are those of the
output. `FilesOutlive`: a SUCCESS can be downloaded from for Filer TTL minus timeout,
not for its whole retention: after the hour it lists files that are gone.
`BuildKeepsItsLog`: arming the TTL once suffices. `LogExpires`: which logs stay for
ever.

**Project_all**: one build for each mix of the optional settings, LED chain,
decoupling and routing, with at most one further setting absent or bad (the
checks are independent conjuncts, each refusing by itself); names of up to two
tokens, and those of three and four whose inner token matters; two child sheets, so
that order and distinctness can go wrong; three upload attempts. Ten properties:
`ArgsAreComplete`, `ProjectIsContained`, `ManifestIsReadable`, `ExportIsWhole`,
`SheetsComplete` on the build, `UploadEnds` on the upload, `NilDelivers`,
`CancelledBuildEnds` and `ImplementsPhases` across both. The last implies that what the
Filer holds is an initial part of the upload order (`StoredIsPrefix`, proved by
itself): nothing is sent before the object ahead of it is acknowledged.

Deadlock: disabled where the system really stops (a task settled and its
attempts over, a socket closed, a build returned, a bounded number of attempts
used up). It is checked in all runs of `TaskApi` and `Retention`, which never stop.

Bounds: `MaxAttempts`, `MaxLines` (BuildTask), `MaxEntries` (LogTail) and `MaxOutput`
(LineWriter) cap counters that the code does not cap, each in the guard of one action.
`TaskIds` bounds the tasks ever submitted.

## Fairness

- `TaskApi`: weak fairness of each handler that has started, of the detector's
  steps and of the clock. The Go scheduler runs every goroutine, the ticker keeps
  firing, and calls to Redis return, with an error if need be. Nothing is assumed
  of clients or workers.
- `BuildTask`: weak fairness of the handler's advance (what it waits for ends or is
  killed with its context, see `CancelledBuildEnds`; Redis answers its calls, with an
  error if need be), and of what ends an attempt: the branches of the processor's
  select and lease recovery, taken together, since a worker's death turns the one into
  the other. No worker is obliged to take a task, no context to be cancelled, and the
  write of a dead process need not arrive.
- `LogTail`: weak fairness of the three goroutines. XREAD blocks for five seconds at
  most. Nothing is assumed of `Expire`, so that `FinishedCloses` cannot rest on the
  lifetime, nor of the task.
- `BuildLog`: both of these. `SocketFollowsTask` goes from the worker's fairness to
  the socket's; no step of the one helps the other but through Redis.
- `Retention`: none, its properties are safety.
- `Project`: weak fairness of `NewPCB`'s own steps (which include the kill of a
  command whose context is cancelled), of the hand-over and of the uploader
  (requests have a timeout, timers fire). Not of commands: they may hang. Not of
  the Filer: it need not store anything.

Only weak fairness is used. No liveness property rests on a worker taking a task, on a
client or on the Filer. `ActiveSettles` takes from `Project` that a build comes to an
end: there it is checked for a build that is cancelled, which the ten-minute deadline
does to any that hangs; in `BuildTask` the deadline may pass at any time but is not
obliged to.

## Proofs

Checked by TLAPS for every value of the constants that satisfies the named
assumptions. All are of the form "for every number of tasks, handlers,
attempts, renders, sheets, names, requests".

**TaskApi** (`TaskApiProofs`). Assumptions: real and made-up ids are disjoint,
`NoId` is neither, finitely many handlers, the numbers natural.

- `TypeCorrect`.
- `WatchedIsSpared`: `SweepSparesWatched`. Inductive invariant `WatchedIsFresh`: the
  entry of a watched id is never older than the socket. The property alone says
  nothing about ages, and is not inductive.
- `RemovedAtMostOnce`: `RemovedOnce`, whose third and fourth conjuncts (about
  handlers between removal and reply) are the strengthening: a task at that point
  is gone, acknowledged by nobody, and has one such handler.
- `CancelledIsFinal`: `CancelledStaysOut` from `RemovedOnce` and the fact that no
  step leaves "gone".
- `QueueIsBounded`: `QueueBound`, failures and restarts included. Inductive invariant
  `RoomInv`: the queue is finite, and queue and readers together stay within the
  bound; only tasks of handlers that never saw the queue's length are left out.
- `WaitingIsTracked`: `PendingIsTracked`. Inductive invariant `PendingInv`: an id that
  is about to be untracked has a task that is gone or no longer waits
  (`DroppedIsDone`), and an id that a client does not know yet is named by no request
  and no sweep (`Unheard`).
- `Refinement`: `ImplementsLifecycle`; every action is mapped to a step of
  `TaskLifecycle` or a stutter (`LifecycleStep`), given `RemovedOnce`.

**BuildTask** (`BuildTaskProofs`). Assumptions: the bounds are natural, at least one
attempt.

- `TypeCorrect`.
- `LateHandlersAreMute`: `LateHandlerIsMute`. An attempt without context and without a
  result on its way (`Silent`) stays so (`SilentStep`). `Attended` ties `proc`, `job`
  and `call`: only the latest attempt is waited for, it returns with no call open, so
  when the task is completed what is still on its way is of an earlier one.
- `SuccessAlwaysStored`: `SuccessIsStored` from `Backed`: before the upload nothing
  is counted, during it `0..next-1` is stored, past it all is.
- `EndsAreLast`, `ReturnsHaveEnded`: `EndIsLast`, `ReturnedHasEnded`. Inductive
  invariant: `TypeOK`, `Attended`, the two themselves and `EndCloses`: an attempt
  with an end entry in the stream is past every step that publishes.
- `ActiveAlwaysExpected`, `HandlersAdvance`: while a task is active, either its processor
  waits for a handler that runs or has returned, or its worker is dead and the lease
  recovery is due; and each call of a handler lowers `CallsLeft`, which is at most
  `2 * (2 * NumRenders + 8 + MaxLines) + 1` and which nothing raises, no requeue and no
  late answer: a step is worth two, the call it may open one.
- `BuildsArePhases`: `ImplementsPhases`. Every attempt has a phase, a count and a
  context of its own, and all share the Filer; `Backed` gives the order of the uploads.
- `Refinement`: `ImplementsOutcome`, with `view` mapped to what the status endpoint
  answers. Needs `Backed` for SUCCESS and `Manifested` (an attempt about to return
  nil has its manifest in the result) for the absence of a bare SUCCESS without
  `Degraded` or `Overlap`. Where attempts overlap, the late write of the earlier one may
  take the list of files from a SUCCESS or give it back (`LoseFiles`, `RegainFiles`),
  and that is all it can do to a client.

**LogTail** (`LogTailProofs`). Assumptions: bounds are natural, a read and the
channel hold at least one entry.

- `TypeCorrect`.
- `FeedIsFaithful`: `FaithfulFeed`. Inductive invariant `FeedInv`: the pump's numbers
  point into the stream (`Numbered`), what was sent and what the channel holds are in
  order with no end inside (`Ordered`), and together they cover the stream up to the
  newest frame but for what was trimmed (`Gapless`). The property says nothing of the
  channel and is not inductive.
- `CloseLosesNothing`, `CloseHasReason`: `CloseDrains`, `CloseIsJustified`, from
  `FeedInv` and `Closing`: why a context is cancelled and why the pump is gone.
- `SocketWindsDown`: behind `NothingLeaks`. Once the context is cancelled the three
  goroutines have at most `2 * ReadCount + ChanCap + 6` steps left between them, which
  each of their steps lowers and nothing raises. A frame handed on is worth two steps
  to the pump and one to the write loop, so the two cannot feed each other; that a batch
  is no larger than `ReadCount` is an invariant (`BatchFits`).

**BuildLog** (`BuildLogProofs`). It instantiates `LogTailProofs` for the worker's
stream, so that its theorems are used and not proved again.

- `BuildImplementsTail`: `ImplementsTail`. A worker step publishes one entry or settles
  the task, never both, and never unsettles it (`JobStep`, from BuildTask's
  `Attended`).
- `WatchedIsBuild`: `LogSpec => Spec` of `BuildTask`, hence both of its refinements and
  `SuccessIsStored`, `EndIsLast`, `ReturnedHasEnded` with a socket beside it.
- `BuildIsFed`: `FaithfulFeed`, `CloseDrains` and `CloseIsJustified` of the socket, from
  `BuildImplementsTail` and LogTail's own invariants.
- `EndIsWhole`: `EndMeansWhole`, from `FaithfulFeed` of the socket and `EndIsLast` of
  the worker; neither suffices.

**Retention** (`RetentionProofs`). Assumptions: the timeout of a task is below the TTL
of the log and that of the files, as configured.

- `TypeCorrect`.
- `LinesAreTheOutput` (`LineWriterProofs`, `RetentionProofs`): `EmittedIsSplit`, whose
  `IsSplit` says what splitting at newlines is: cuts in ascending order at exactly the
  newlines (and the end of an unfinished line), each line what lies between two of
  them less its CR. The strengthening
  `BufferIsRest` has the same said of what was taken so far, and the buffer and what the
  pipe still holds are the rest. The property alone speaks only of an output that is
  over, and is not inductive.
- `DownloadsLast`, `OneTTLSuffices`, `LogsAreCleanedUp`: `FilesOutlive`,
  `BuildKeepsItsLog`, `LogExpires`. One inductive invariant: a TTL or an object is no
  older than the attempt that armed or stored it (`Armed`, `Fresh`), a key that was
  armed is there while the attempt has time left (`Kept`), a key without TTL has its
  excuse (`Excused`), and what a result lists ages with it (`Lasting`). The ages
  are sums, `life[o] + age >= FilerTTL`, which every tick leaves alone.

**Project** (`ProjectProofs`). Assumptions: requests are records of settings, the
root sheet is no child sheet, sheets are distinct, attempts is an integer, layout names
are sequences of strings (`NamesAssumption`).

- `TypeCorrect`.
- `ArgsAlwaysComplete`: from `OptionsAccepted` (until kbplacer runs, the options are
  those of an accepted request), for every set of requests.
- `ExportAlwaysWhole`: from `ExportSettled`: a killed export leaves a cancelled
  context behind, and with it no later command starts. This is why the code gets
  away with not looking at `cmdErr` after a kill.
- `ManifestAlwaysReadable`: from `ListedAreThere`.
- `ProjectAlwaysContained`: `ProjectIsContained`, from `DirsInOrder` (which directories
  there are at each step) and `ProjectNameIsDirectory` (`ProjectNamesProofs`): a name
  without separators, of whose runs of dots an odd one is left, and without white space
  at its ends, is one that `SanitizeFilepath` leaves as it is. That theorem rests on
  lemmas about `Kept`: what is kept keeps its order and its neighbours.
- `SheetsAlwaysComplete`: `SheetsComplete`, from `SheetsCollected` (the renders listed
  so far are both sides and the sorted sheets) and the fact that sorting distinct
  sheets by the number of those before neither loses nor repeats one.
- `BuildIsPhases`: `ImplementsPhases`, action by action, from `Uploading`.
- `BuildsAdvance`: behind `UploadEnds` and `CancelledBuildEnds`. Each step of `NewPCB`, of
  a command and of the uploader moves on in a finite order, by step, object, attempt
  and part of the attempt; what else happens (a late landing, the cancellation) leaves
  the position alone. An attempt that is not counted would go in circles.
- `PrefixAlways`, `NilAlwaysDelivers`: from `Uploading`: `InOrder` (only the current
  object can be in flight, all before it are stored) and the hand-over of the
  manifest's length.

Only model-checked is what needs fairness: `AbandonedLeavesQueue`, `TrackerDrains`,
`ActiveSettles`, `FinishedCloses`, `NothingLeaks`, `SocketFollowsTask`, `UploadEnds` and
`CancelledBuildEnds`. Liveness and ENABLED are out of the prover's reach. Proved are the
facts that some of them rest on: that somebody is always due to settle an active task
(`ActiveAlwaysExpected`), and that no handler, cancelled socket or build goes in
circles (`HandlersAdvance`, `SocketWindsDown`, `BuildsAdvance`): with them, what
fairness has to supply is only that each goes on. Every invariant and every action
property of a run is a theorem.

What a fold computes cannot be proved either (that is induction over data), so the
models avoid folds where a theorem depends on them: `Kept` says which positions of a
name are left and `IsSplit` where the output is cut, and both can be reasoned about
position by position.

## Where the code and its comments differ

Runs that end in a violation check one sentence of a comment:

- `TaskApi_watched`: "An actively-watched task must not be reaped by the
  abandonment detector" (`logs.go:68`). The detector decides on a snapshot and does
  not look again, so a socket opened in between loses its pending task. What does
  hold is `SweepSparesWatched`.
- `BuildTask_panic`: "any early return reports a failure"
  (`task_handler.go:42-44`). After a recovered panic the handler returns nil: the
  stream says "failure" and the status endpoint SUCCESS, without files.
- `TaskApi_stop`: "Handle graceful shutdown" (`main.go:345`), with ten seconds for
  the handlers (`main.go:355`). `Serve` returns what `ListenAndServe` returns
  (`main.go:367`), which is at once when the listener is closed, and `log.Fatal`
  (`main.go:809-810`) ends the process: handlers in the middle of their calls are cut off.
- `BuildLog_drained`: "a finished task whose stream is present would have been
  drained (and returned) above" (`logs.go:170-173`). The last entries and the end
  of the task may fall between an empty XREAD and the look-up.
- `Project_sheets`: "Every sheet is copied into the logs directory"
  (`kicad.go:365-366`). With brackets in the layout's name the glob finds none and
  the build is a success without schematic renders.

Seen while modelling, without a run of their own:

- `task_handler.go:37-39` says that a task runs at most once because MaxRetry is 0. A
  task given back at shutdown is run again, into the same stream. The models have
  it: `Requeue`, and entries after an end in `LogTail`.
- `task_handler.go:141-142`: "This is the last write of the task, so the file list is
  what the server returns for a SUCCESS status." It is the last of its attempt. A write
  that the attempt before had on its way when its task was given back may arrive after
  it, and leave the SUCCESS without files (`LoseFiles`).
- `logstream.go:29-30, 62-63`: "streamTTL guarantees cleanup even if a task is
  abandoned", "The first successful write also arms the stream's TTL". XADD and EXPIRE
  are two calls: a worker that dies between them, or whose every EXPIRE fails, leaves a
  stream without a TTL; so does a key that runs out and is made anew after
  `expireSet`, or just before an EXPIRE, which is no error for a missing key.
  `LogExpires` states what is left of the guarantee.
- In the worker both asynq's `Run` and `Start` itself wait for SIGTERM and shut the
  asynq server down (`worker.go:95-109`). The models have one shutdown.
- A SUCCESS lists its files for 24 hours, the Filer keeps them for one
  (`FilesOutlive`).
- A SUCCESS may come without files when the last `reportResult` fails or the
  deadline passes just before it (`Degraded`).
- At its deadline a task is archived before its handler has ended the stream.
- A restarted server tracks only tasks that are asked for again. A detector that
  fails to delete a task drops its entry all the same; if a worker then gives
  the task back, nobody tracks it.
- If kicad-cli fails by itself after the root sheet, a part of the sheets counts as
  all (`cmdErr # "failed"` in `SheetsComplete`).
- The work directory is never removed.
- Errors about switch and diode rotation say "must be an integer" (`errors.go:13, 19`);
  any number is taken and truncated.

## What is not modelled

- Zip archive, workers and version endpoints, CORS and origin checks, configuration,
  deployment: I/O or reads without state that anything else depends on. Of the zip,
  `FilerUpload` has its failure.
- Values of settings, texts of errors and progress, JSON: no property tells
  them apart.
- What kbplacer and kicad-cli write inside files. A child process of kbplacer that
  holds its pipe open after a kill would keep `cmd.Wait` waiting (no `WaitDelay`
  is set): `Kill` assumes it does not.
- Retries inside go-redis, which may add an entry twice after a lost reply: to the
  models a call is made once, and fails done or not.
- In `Retention` a requeued attempt begins after its predecessor's handler has gone
  with its worker (`Exit`), and looking at the context and writing the result are one
  step; two handlers at a time and late writes are in `BuildTask`, and panics are
  left to it.
- The names of footprint libraries: `ProjectIsContained` speaks of the directories made
  from the layout's name. `bundleFootprintLibraries` is in `BundleFootprints` by its
  outcome only, and the copies it makes below the project, named after `libNickname`, are
  not placed.
- `Worker.Start` closes the log's Redis client between the shutdown and the end of the
  process (`worker.go:109-113`): to the models the two are one step (`Exit`).
- The Redis `MAXLEN` as a number: `Trim` may take any old part of the stream, at any
  time.

## Plan

Done: `TaskApi` (the most important: what may happen to a task) with its shutdown,
`BuildTask`, `LogTail` and their composition `BuildLog`, `Retention` over `LineWriter`
and `LogPublisher`, `Project`, the abstract specifications, and the theorems above.

Next:

1. The facts behind `AbandonedLeavesQueue` and `TrackerDrains`: what a sweep leaves to
   the next one gets less.
2. `SocketFollowsTask` from the two it is made of, `HandlersAdvance` and
   `SocketWindsDown`, which hold beside each other by `WatchedIsBuild` and
   `BuildImplementsTail`.
3. `BuildLog` with two attempts in TLC: the first end hides the second attempt from
   a socket that is open, and not from one opened later.
