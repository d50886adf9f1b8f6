------------------------------ MODULE TaskApi ------------------------------
(***************************************************************************)
(* The API server of backend/cmd/server/main.go: the REST handlers that    *)
(* submit, poll, watch and cancel PCB tasks, the TaskAccessTracker they    *)
(* share, and the abandonment detector that sweeps it, all working against *)
(* the asynq queue "kicad" in Redis.                                       *)
(*                                                                         *)
(* A handler runs in its own goroutine and makes one broker or tracker     *)
(* call per step; between two steps every other handler, the detector, the *)
(* workers and the clock may move.  The broker is asynq (a library): only  *)
(* the effect of each call the server makes on a task's state is modelled. *)
(*                                                                         *)
(* Time is counted in ticks.  lastAccess[id] = time.Time becomes the age   *)
(* of that entry, age[id], which saturates one tick past the timeout:      *)
(* now.Sub(lastAccess) > timeout is age[id] > AbandonTimeout, and no other *)
(* test is ever made of it.                                                *)
(***************************************************************************)
EXTENDS Naturals, FiniteSets

CONSTANTS
    TaskIds,         \* ids asynq hands out
    ForeignIds,      \* ids clients ask for that asynq never handed out
    NoId,            \* "no id": the argument of an idle handler
    Handlers,        \* request goroutines of net/http
    MaxQueueSize,    \* MAX_QUEUE_SIZE
    AbandonTimeout,  \* TASK_ABANDONMENT_TIMEOUT, in ticks
    WsMaxLifetime,   \* wsMaxLifetime, in ticks
    Faults,          \* TRUE: a broker call may fail although Redis holds the task
    Restarts,        \* TRUE: the server process may be stopped or die, and start again
    Requeues         \* TRUE: a worker shutting down gives its task back

ASSUME IdsAssumption ==
    /\ TaskIds \cap ForeignIds = {}
    /\ NoId \notin TaskIds \cup ForeignIds

ASSUME HandlersAssumption == IsFiniteSet(Handlers)

ASSUME NumbersAssumption ==
    /\ MaxQueueSize \in Nat
    /\ AbandonTimeout \in Nat
    /\ WsMaxLifetime \in Nat

ASSUME ProfileAssumption ==
    /\ Faults \in BOOLEAN
    /\ Restarts \in BOOLEAN
    /\ Requeues \in BOOLEAN

VARIABLES
    task,       \* asynq: state of each task, "none" before and "gone" after
    tracked,    \* keys of TaskAccessTracker.lastAccess
    age,        \* age of each key's entry, 0 for an id that is not tracked
    pc,         \* where each handler stands between two of its calls
    arg,        \* the task id that handler works on
    life,       \* how long a log socket has been open
    todo,       \* detector: abandoned ids not yet handled
    dpc,        \* detector: where it stands with one id
    cur,        \* detector: that id
    server,     \* how far the shutdown of the process is
    cancelled,  \* history: tasks for which DELETE answered 200 "cancelled"
    reaped,     \* history: tasks the detector deleted
    waved       \* history: tasks whose queue length could not be read

trackerVars == <<tracked, age>>
handlerVars == <<pc, arg, life>>
detectorVars == <<todo, dpc, cur>>
historyVars == <<cancelled, reaped, waved>>
vars == <<task, trackerVars, handlerVars, detectorVars, server, historyVars>>

Ids == TaskIds \cup ForeignIds
Stale == AbandonTimeout + 1

Live == {"pending", "active"}
Finished == {"completed", "archived"}
TaskStates == {"none", "gone"} \cup Live \cup Finished
HandlerPoints == {"idle", "body", "unchecked", "track", "delete", "untrack", "watch"}
DetectorPoints == {"idle", "delete", "untrack", "gone"}
ServerStates == {"up", "cancelled", "closed", "stopped", "killed"}

-----------------------------------------------------------------------------
(* asynq, as the server calls it                                           *)

\* Inspector.GetTaskInfo("kicad", id): the state of a stored task, or an error.
\* The second lookup, of queue "kicad:archived", names a queue nobody enqueues
\* to and always fails: an archived task is found by the first.
Lookup(id) ==
    (IF id \in TaskIds /\ task[id] \in Live \cup Finished THEN {task[id]} ELSE {"error"})
        \cup (IF Faults THEN {"error"} ELSE {})

\* Mutant: removal that does not look at the state.
DeletableAlways(id) == id \in TaskIds /\ task[id] \in Live \cup Finished

\* Inspector.DeleteTask refuses an active or absent task and removes any other.
Deletable(id) == id \in TaskIds /\ task[id] \in {"pending"} \cup Finished

\* A call may fail before or, with its reply lost, after it took effect.
DeleteTask(id, ok) ==
    \/ ok /\ Deletable(id) /\ task' = [task EXCEPT ![id] = "gone"]
    \/ ~ok /\ (~Deletable(id) \/ Faults) /\ UNCHANGED task
    \/ ~ok /\ Faults /\ Deletable(id) /\ task' = [task EXCEPT ![id] = "gone"]

\* QueueInfo.Pending + QueueInfo.Active
Queue == {t \in TaskIds : task[t] \in Live}

-----------------------------------------------------------------------------
(* TaskAccessTracker                                                       *)

UpdateAccess(id) ==
    /\ tracked' = tracked \cup {id}
    /\ age' = [age EXCEPT ![id] = 0]

RemoveTask(id) ==
    /\ tracked' = tracked \ {id}
    /\ age' = [age EXCEPT ![id] = 0]

GetAbandonedTasks == {id \in tracked : age[id] > AbandonTimeout}

-----------------------------------------------------------------------------
Init ==
    /\ task = [t \in TaskIds |-> "none"]
    /\ tracked = {}
    /\ age = [id \in Ids |-> 0]
    /\ pc = [h \in Handlers |-> "idle"]
    /\ arg = [h \in Handlers |-> NoId]
    /\ life = [h \in Handlers |-> 0]
    /\ todo = {}
    /\ dpc = "idle"
    /\ cur = NoId
    /\ server = "up"
    /\ cancelled = {}
    /\ reaped = {}
    /\ waved = {}

\* Handler h goes on to its next call, for task id.
GoTo(h, point, id) ==
    /\ pc' = [pc EXCEPT ![h] = point]
    /\ arg' = [arg EXCEPT ![h] = id]
    /\ life' = [life EXCEPT ![h] = 0]

Return(h) == GoTo(h, "idle", NoId)

\* The ids a request can name: every id handed out so far, and made-up ones.
Known == {t \in TaskIds : task[t] # "none"} \cup ForeignIds

-----------------------------------------------------------------------------
(* KicadPostNewTask                                                        *)

\* Mutant: no rate limit.
PostAdmitAll(h) ==
    /\ pc[h] = "idle"
    /\ GoTo(h, "body", NoId)
    /\ UNCHANGED <<task, trackerVars, detectorVars, server, historyVars>>

\* The rate limit is checked first; an error of GetQueueInfo counts as an empty
\* queue.  A rejected request (503) changes nothing.
PostAdmit(h) ==
    /\ pc[h] = "idle"
    /\ \/ Cardinality(Queue) <= MaxQueueSize /\ GoTo(h, "body", NoId)
       \/ Faults /\ GoTo(h, "unchecked", NoId)
    /\ UNCHANGED <<task, trackerVars, detectorVars, server, historyVars>>

ReadsBody(h) == pc[h] \in {"body", "unchecked"}

\* The body cannot be read or is not a JSON object: 400.
PostBadBody(h) ==
    /\ ReadsBody(h)
    /\ Return(h)
    /\ UNCHANGED <<task, trackerVars, detectorVars, server, historyVars>>

\* Redis stores h's task under a fresh id.
Enqueue(h, t) ==
    /\ task[t] = "none"
    /\ task' = [task EXCEPT ![t] = "pending"]
    /\ waved' = IF pc[h] = "unchecked" THEN waved \cup {t} ELSE waved

PostEnqueue(h) ==
    /\ ReadsBody(h)
    /\ \E t \in TaskIds : Enqueue(h, t) /\ GoTo(h, "track", t)
    /\ UNCHANGED <<trackerVars, detectorVars, server, cancelled, reaped>>

\* Enqueue reports an error, before or after Redis stored the task: 500.
PostEnqueueError(h) ==
    /\ Faults
    /\ ReadsBody(h)
    /\ \/ UNCHANGED <<task, waved>>
       \/ \E t \in TaskIds : Enqueue(h, t)
    /\ Return(h)
    /\ UNCHANGED <<trackerVars, detectorVars, server, cancelled, reaped>>

\* Mutant: the id is recorded before asynq's answer is read.
PostTrackNoId(h) ==
    /\ pc[h] = "track"
    /\ tracked' = tracked \cup {NoId}
    /\ Return(h)
    /\ UNCHANGED <<task, age, detectorVars, server, historyVars>>

\* The new task is tracked, then the client gets its id (202).
PostTrack(h) ==
    /\ pc[h] = "track"
    /\ UpdateAccess(arg[h])
    /\ Return(h)
    /\ UNCHANGED <<task, detectorVars, server, historyVars>>

-----------------------------------------------------------------------------
(* KicadGetTaskStatus, KicadGetTaskLogs                                    *)

\* The access is recorded before the task is looked up, whether it exists or
\* not; the rest of the handler only reads.
StatusRequest(h, id) ==
    /\ pc[h] = "idle"
    /\ UpdateAccess(id)
    /\ UNCHANGED <<task, handlerVars, detectorVars, server, historyVars>>

\* Mutant: the socket does not record the access.
LogsOpenUnrecorded(h, id) ==
    /\ pc[h] = "idle"
    /\ GoTo(h, "watch", id)
    /\ UNCHANGED <<task, trackerVars, detectorVars, server, historyVars>>

\* A log socket records the access once, when it opens.
LogsOpen(h, id) ==
    /\ pc[h] = "idle"
    /\ UpdateAccess(id)
    /\ GoTo(h, "watch", id)
    /\ UNCHANGED <<task, detectorVars, server, historyVars>>

\* End entry, client gone, finished task, or context.WithTimeout(wsMaxLifetime).
LogsClose(h) ==
    /\ pc[h] = "watch"
    /\ Return(h)
    /\ UNCHANGED <<task, trackerVars, detectorVars, server, historyVars>>

-----------------------------------------------------------------------------
(* KicadDeleteTask                                                         *)

\* Mutant: the entry is dropped before the task is removed.
DeleteRequestUntracking(h, id) ==
    /\ pc[h] = "idle"
    /\ "pending" \in Lookup(id)
    /\ RemoveTask(id)
    /\ GoTo(h, "delete", id)
    /\ UNCHANGED <<task, detectorVars, server, historyVars>>

\* Only a task found pending goes on; 404, 409 and 410 are answered at once.
DeleteRequest(h, id) ==
    /\ pc[h] = "idle"
    /\ "pending" \in Lookup(id)
    /\ GoTo(h, "delete", id)
    /\ UNCHANGED <<task, trackerVars, detectorVars, server, historyVars>>

\* Mutant: the error of DeleteTask is only logged, as the detector does.
DeleteCallUnchecked(h) ==
    /\ pc[h] = "delete"
    /\ \E ok \in BOOLEAN : DeleteTask(arg[h], ok)
    /\ GoTo(h, "untrack", arg[h])
    /\ UNCHANGED <<trackerVars, detectorVars, server, historyVars>>

\* DeleteTask succeeds, or its error ends the request with 500.
DeleteCall(h) ==
    /\ pc[h] = "delete"
    /\ \/ DeleteTask(arg[h], TRUE) /\ GoTo(h, "untrack", arg[h])
       \/ DeleteTask(arg[h], FALSE) /\ Return(h)
    /\ UNCHANGED <<trackerVars, detectorVars, server, historyVars>>

\* RemoveTask, then 200 "cancelled".
DeleteUntrack(h) ==
    /\ pc[h] = "untrack"
    /\ RemoveTask(arg[h])
    /\ cancelled' = cancelled \cup {arg[h]}
    /\ Return(h)
    /\ UNCHANGED <<task, detectorVars, server, reaped, waved>>

-----------------------------------------------------------------------------
(* The abandonment detector: checkAbandonedTasks, handleAbandonedTask      *)

\* A tick of the detector's ticker takes one snapshot of the tracker.
Sweep ==
    /\ dpc = "idle"
    /\ todo = {}
    /\ todo' = GetAbandonedTasks
    /\ UNCHANGED <<task, trackerVars, handlerVars, dpc, cur, server, historyVars>>

\* Mutant: a pending task is only logged, like an active one.
ExamineLogging(id) ==
    /\ dpc = "idle"
    /\ id \in todo
    /\ \/ /\ Lookup(id) \cap Live # {}
          /\ todo' = todo \ {id} /\ UNCHANGED <<dpc, cur>>
       \/ /\ Lookup(id) \cap ({"error"} \cup Finished) # {}
          /\ dpc' = "untrack" /\ cur' = id /\ UNCHANGED todo
    /\ UNCHANGED <<task, trackerVars, handlerVars, server, historyVars>>

\* Mutant: an id that cannot be looked up keeps its entry.
ExamineKeeping(id) ==
    /\ dpc = "idle"
    /\ id \in todo
    /\ \/ /\ "pending" \in Lookup(id)
          /\ dpc' = "delete" /\ cur' = id /\ UNCHANGED todo
       \/ /\ Lookup(id) \cap {"active", "error"} # {}
          /\ todo' = todo \ {id} /\ UNCHANGED <<dpc, cur>>
       \/ /\ Lookup(id) \cap Finished # {}
          /\ dpc' = "untrack" /\ cur' = id /\ UNCHANGED todo
    /\ UNCHANGED <<task, trackerVars, handlerVars, server, historyVars>>

\* Look one id of the snapshot up and decide by its state.
Examine(id) ==
    /\ dpc = "idle"
    /\ id \in todo
    /\ \/ /\ "pending" \in Lookup(id)
          /\ dpc' = "delete" /\ cur' = id /\ UNCHANGED todo
       \/ /\ "active" \in Lookup(id)
          /\ todo' = todo \ {id} /\ UNCHANGED <<dpc, cur>>
       \/ /\ Lookup(id) \cap ({"error"} \cup Finished) # {}
          /\ dpc' = "untrack" /\ cur' = id /\ UNCHANGED todo
    /\ UNCHANGED <<task, trackerVars, handlerVars, server, historyVars>>

\* An error of DeleteTask is logged and the task is untracked all the same.
Reap ==
    /\ dpc = "delete"
    /\ \/ DeleteTask(cur, TRUE) /\ reaped' = reaped \cup {cur}
       \/ DeleteTask(cur, FALSE) /\ UNCHANGED reaped
    /\ dpc' = "untrack"
    /\ UNCHANGED <<trackerVars, handlerVars, todo, cur, server, cancelled, waved>>

Untrack ==
    /\ dpc = "untrack"
    /\ RemoveTask(cur)
    /\ todo' = todo \ {cur}
    /\ dpc' = "idle"
    /\ cur' = NoId
    /\ UNCHANGED <<task, handlerVars, server, historyVars>>

-----------------------------------------------------------------------------
(* The clock, the server process, the workers                              *)

\* A socket at its lifetime bound closes before time goes on.
Tick ==
    /\ \A h \in Handlers : pc[h] = "watch" => life[h] < WsMaxLifetime
    /\ age' = [id \in Ids |->
                 IF id \in tracked /\ age[id] < Stale THEN age[id] + 1 ELSE age[id]]
    /\ life' = [h \in Handlers |-> IF pc[h] = "watch" THEN life[h] + 1 ELSE life[h]]
    /\ UNCHANGED <<task, tracked, pc, arg, detectorVars, server, historyVars>>

\* SIGTERM: shutdownCancel runs before srv.Shutdown.
Signal ==
    /\ Restarts
    /\ server = "up"
    /\ server' = "cancelled"
    /\ UNCHANGED <<task, trackerVars, handlerVars, detectorVars, historyVars>>

\* The detector's select may take several more ticks before ctx.Done().
DetectorStops ==
    /\ server # "up"
    /\ dpc = "idle"
    /\ todo = {}
    /\ dpc' = "gone"
    /\ UNCHANGED <<task, trackerVars, handlerVars, todo, cur, server, historyVars>>

\* srv.Shutdown closes the listener; the goroutine goes on to wait for handlers.
Close ==
    /\ server = "cancelled"
    /\ server' = "closed"
    /\ UNCHANGED <<task, trackerVars, handlerVars, detectorVars, historyVars>>

\* The tracker and every goroutine die with the process; Redis does not.
ProcessEnds(how) ==
    /\ server' = how
    /\ tracked' = {}
    /\ age' = [id \in Ids |-> 0]
    /\ pc' = [h \in Handlers |-> "idle"]
    /\ arg' = [h \in Handlers |-> NoId]
    /\ life' = [h \in Handlers |-> 0]
    /\ todo' = {}
    /\ dpc' = "gone"
    /\ cur' = NoId
    /\ UNCHANGED <<task, historyVars>>

\* ListenAndServe returns once the listener is closed, and main calls log.Fatal.
Exit == server = "closed" /\ ProcessEnds("stopped")

Running == server \in {"up", "cancelled", "closed"}

Crash == Restarts /\ Running /\ ProcessEnds("killed")

Restart ==
    /\ ~Running
    /\ server' = "up"
    /\ dpc' = "idle"
    /\ UNCHANGED <<task, trackerVars, handlerVars, todo, cur, historyVars>>

\* A worker takes a pending task.
WorkerStart(t) ==
    /\ task[t] = "pending"
    /\ task' = [task EXCEPT ![t] = "active"]
    /\ UNCHANGED <<trackerVars, handlerVars, detectorVars, server, historyVars>>

\* MaxRetry(0): a finished attempt is completed or archived, never retried.
WorkerFinish(t) ==
    /\ task[t] = "active"
    /\ \E s \in Finished : task' = [task EXCEPT ![t] = s]
    /\ UNCHANGED <<trackerVars, handlerVars, detectorVars, server, historyVars>>

\* A worker that shuts down puts the task it could not finish back.
WorkerRequeue(t) ==
    /\ Requeues
    /\ task[t] = "active"
    /\ task' = [task EXCEPT ![t] = "pending"]
    /\ UNCHANGED <<trackerVars, handlerVars, detectorVars, server, historyVars>>

\* Retention(24h), and the broker's own limit on archived tasks.
Evict(t) ==
    /\ task[t] \in Finished
    /\ task' = [task EXCEPT ![t] = "gone"]
    /\ UNCHANGED <<trackerVars, handlerVars, detectorVars, server, historyVars>>

-----------------------------------------------------------------------------
Handle(h) ==
    \/ PostBadBody(h) \/ PostEnqueue(h) \/ PostEnqueueError(h) \/ PostTrack(h)
    \/ DeleteCall(h) \/ DeleteUntrack(h) \/ LogsClose(h)

Request(h) ==
    /\ server \in {"up", "cancelled"}
    /\ \/ PostAdmit(h)
       \/ \E id \in Known : StatusRequest(h, id) \/ LogsOpen(h, id) \/ DeleteRequest(h, id)

Detector == Sweep \/ (\E id \in Ids : Examine(id)) \/ Reap \/ Untrack \/ DetectorStops

Process == Signal \/ Close \/ Exit \/ Crash \/ Restart

Worker(t) == WorkerStart(t) \/ WorkerFinish(t) \/ WorkerRequeue(t) \/ Evict(t)

Next ==
    \/ \E h \in Handlers : Request(h) \/ Handle(h)
    \/ Detector
    \/ Tick
    \/ Process
    \/ \E t \in TaskIds : Worker(t)

Spec == Init /\ [][Next]_vars

\* Go runs every started goroutine and the ticker keeps firing; clients and
\* workers owe the server nothing.
Fairness ==
    /\ \A h \in Handlers : WF_vars(Handle(h))
    /\ WF_vars(Sweep)
    /\ \A id \in Ids : WF_vars(Examine(id))
    /\ WF_vars(Reap)
    /\ WF_vars(Untrack)
    /\ WF_vars(Tick)

FairSpec == Spec /\ Fairness

-----------------------------------------------------------------------------
(* Properties                                                              *)

TypeOK ==
    /\ task \in [TaskIds -> TaskStates]
    /\ tracked \subseteq Ids
    /\ age \in [Ids -> 0..Stale]
    /\ pc \in [Handlers -> HandlerPoints]
    /\ arg \in [Handlers -> Ids \cup {NoId}]
    /\ \A h \in Handlers :
        /\ pc[h] \in {"delete", "untrack", "watch"} => arg[h] \in Ids
        /\ pc[h] = "track" => arg[h] \in TaskIds
    /\ life \in [Handlers -> 0..WsMaxLifetime]
    /\ todo \subseteq Ids
    /\ dpc \in DetectorPoints
    /\ cur \in Ids \cup {NoId}
    /\ dpc \in {"delete", "untrack"} => cur \in Ids
    /\ server \in ServerStates
    /\ cancelled \subseteq Ids
    /\ reaped \subseteq Ids
    /\ waved \subseteq TaskIds

\* The rate limit (main.go:418) is read before the body and acted on after it.
\* Requests that race past the check overshoot it by at most one task each, for
\* the tasks that wait or run and the requests still to add one never exceed
\* MAX_QUEUE_SIZE by more than the number of handlers, whatever becomes of them.
\* Only a request whose GetQueueInfo failed, which counts as an empty queue
\* (main.go:413), is not held to it.
Reading == {h \in Handlers : pc[h] = "body"}

QueueBound ==
    Cardinality(Queue \ waved) + Cardinality(Reading) <= MaxQueueSize + Cardinality(Handlers)

\* A pending task is known to the detector or its POST is just about to make
\* it known, so an abandoned one can be found: nothing un-tracks it while it
\* waits.  Needs a broker that answers, a server that stays up and workers that
\* give nothing back; each of the three breaks it.
PendingIsTracked ==
    ~Faults /\ ~Restarts /\ ~Requeues =>
        \A t \in TaskIds : task[t] = "pending" =>
            t \in tracked \/ \E h \in Handlers : pc[h] = "track" /\ arg[h] = t

\* Two DELETEs of one task, or a DELETE and the detector, may all have found it
\* pending, but only one of them removes it: DELETE answers 200 at most once,
\* only for a task that is no longer stored, never for one the detector took.
RemovedOnce ==
    /\ cancelled \cap reaped = {}
    /\ \A t \in cancelled \cup reaped : t \in TaskIds /\ task[t] = "gone"
    /\ \A h \in Handlers : pc[h] = "untrack" =>
        /\ arg[h] \in TaskIds /\ task[arg[h]] = "gone"
        /\ arg[h] \notin cancelled \cup reaped
    /\ \A h, k \in Handlers :
        pc[h] = "untrack" /\ pc[k] = "untrack" /\ arg[h] = arg[k] => h = k

\* A cancelled task is not run afterwards: once DELETE has its task removed,
\* no worker starts it, whatever the detector and other requests do.
CancelledStaysOut ==
    [][\A t \in TaskIds : t \in cancelled => task'[t] = task[t]]_vars

\* logs.go:68, "an actively-watched task must not be reaped": because a socket
\* lives no longer than the abandonment timeout, one access at its opening keeps
\* its task out of every snapshot taken while it is open.
SweepSparesWatched ==
    [][WsMaxLifetime <= AbandonTimeout =>
        \A h \in Handlers : pc[h] = "watch" => arg[h] \notin todo' \ todo]_vars

\* Why: the entry of a watched task is never older than the socket.
WatchedIsFresh ==
    \A h \in Handlers : pc[h] = "watch" => age[arg[h]] <= life[h]

\* The tracker does not grow for ever: an id that is no longer asked for, a
\* made-up one included, is dropped unless its task is running.
TrackerDrains ==
    \A id \in Ids : []<>(\/ id \notin tracked \/ age[id] = 0
                         \/ id \in TaskIds /\ task[id] = "active")

\* An abandoned task does not wait for ever even if no worker ever comes: it
\* leaves the queue unless somebody keeps asking for it.
AbandonedLeavesQueue ==
    \A t \in TaskIds : []<>(task[t] # "pending" \/ (t \in tracked /\ age[t] = 0))

\* Every step above is a step of the task's life, or none at all: retries,
\* races, failures and restarts add no transition to it.
Lifecycle == INSTANCE TaskLifecycle

ImplementsLifecycle == Lifecycle!Spec

-----------------------------------------------------------------------------
(* What the comments say, and the code does not do                         *)

\* logs.go:68 as it stands: the detector never deletes a task while a log
\* socket for it is open.
WatchedNotReaped ==
    [][\A h \in Handlers : pc[h] = "watch" => arg[h] \notin reaped' \ reaped]_vars

\* main.go:345 and 355, "graceful shutdown": the server stops once its handlers
\* are through, which have 10 s for it; sockets are not waited for.
StopIsGraceful ==
    [][server' = "stopped" => \A h \in Handlers : pc[h] \in {"idle", "watch"}]_vars

=============================================================================
