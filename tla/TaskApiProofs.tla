--------------------------- MODULE TaskApiProofs ---------------------------
(* Theorems about TaskApi, for every set of ids and handlers, every limit   *)
(* and timeout and every combination of failures.                           *)
EXTENDS TaskApi, FiniteSetTheorems, TLAPS

LEMMA LookupState ==
    ASSUME NEW id, NEW s \in TaskStates, s \in Lookup(id)
    PROVE  id \in TaskIds /\ task[id] = s
BY DEF Lookup, TaskStates, Live, Finished

-----------------------------------------------------------------------------
(* Types                                                                   *)

LEMMA TypeInit == Init => TypeOK
<1> SUFFICES ASSUME Init PROVE TypeOK
  OBVIOUS
<1>1. 0 \in 0..Stale /\ 0 \in 0..WsMaxLifetime
  BY NumbersAssumption DEF Stale
<1> QED
  BY <1>1, IdsAssumption DEF Init, TypeOK, TaskStates, HandlerPoints, DetectorPoints, ServerStates

\* The broker calls leave every task in one of its states.
LEMMA TypeDelete ==
    ASSUME TypeOK, NEW id, NEW ok, DeleteTask(id, ok)
    PROVE  task' \in [TaskIds -> TaskStates]
BY DEF TypeOK, DeleteTask, Deletable, TaskStates

LEMMA TypeStep == TypeOK /\ [Next]_vars => TypeOK'
<1> SUFFICES ASSUME TypeOK, [Next]_vars PROVE TypeOK'
  OBVIOUS
<1> USE DEF TypeOK, TaskStates, Live, Finished, HandlerPoints, DetectorPoints, ServerStates, Ids,
            trackerVars, handlerVars, detectorVars, historyVars
<1>0. 0 \in 0..Stale /\ 0 \in 0..WsMaxLifetime
  BY NumbersAssumption DEF Stale
<1>id. NoId \notin Ids
  BY IdsAssumption
<1>1. ASSUME NEW h \in Handlers, PostAdmit(h) PROVE TypeOK'
  BY <1>0, <1>1 DEF PostAdmit, GoTo
<1>2. ASSUME NEW h \in Handlers, PostBadBody(h) PROVE TypeOK'
  BY <1>0, <1>2 DEF PostBadBody, GoTo, Return
<1>3. ASSUME NEW h \in Handlers, PostEnqueue(h) PROVE TypeOK'
  BY <1>0, <1>3 DEF PostEnqueue, Enqueue, GoTo
<1>4. ASSUME NEW h \in Handlers, PostEnqueueError(h) PROVE TypeOK'
  BY <1>0, <1>4 DEF PostEnqueueError, Enqueue, GoTo, Return
<1>5. ASSUME NEW h \in Handlers, PostTrack(h) PROVE TypeOK'
  BY <1>0, <1>5 DEF PostTrack, UpdateAccess, GoTo, Return
<1>6. ASSUME NEW h \in Handlers, DeleteCall(h) PROVE TypeOK'
  BY <1>0, <1>6, TypeDelete DEF DeleteCall, GoTo, Return
<1>7. ASSUME NEW h \in Handlers, DeleteUntrack(h) PROVE TypeOK'
  BY <1>0, <1>7 DEF DeleteUntrack, RemoveTask, GoTo, Return
<1>8. ASSUME NEW h \in Handlers, LogsClose(h) PROVE TypeOK'
  BY <1>0, <1>8 DEF LogsClose, GoTo, Return
<1>9. ASSUME NEW h \in Handlers, NEW id \in Known, StatusRequest(h, id) PROVE TypeOK'
  BY <1>0, <1>9 DEF StatusRequest, UpdateAccess, Known
<1>10. ASSUME NEW h \in Handlers, NEW id \in Known, LogsOpen(h, id) PROVE TypeOK'
  BY <1>0, <1>10 DEF LogsOpen, UpdateAccess, Known, GoTo
<1>11. ASSUME NEW h \in Handlers, NEW id \in Known, DeleteRequest(h, id) PROVE TypeOK'
  BY <1>0, <1>11 DEF DeleteRequest, Known, GoTo
<1>12. CASE Sweep \/ DetectorStops
  BY <1>12 DEF Sweep, DetectorStops, GetAbandonedTasks
<1>13. ASSUME NEW id \in Ids, Examine(id) PROVE TypeOK'
  BY <1>13 DEF Examine
<1>14. CASE Reap
  BY <1>14, TypeDelete DEF Reap
<1>15. CASE Untrack
  BY <1>0, <1>15 DEF Untrack, RemoveTask
<1>16. CASE Tick
  <2>1. age' \in [Ids -> 0..Stale]
    BY <1>16, NumbersAssumption DEF Tick, Stale
  <2>2. life' \in [Handlers -> 0..WsMaxLifetime]
    BY <1>16, NumbersAssumption DEF Tick
  <2> QED
    BY <1>16, <2>1, <2>2 DEF Tick
<1>17. CASE Process
  BY <1>0, <1>17 DEF Process, Signal, Close, Exit, Crash, Restart, ProcessEnds
<1>18. ASSUME NEW t \in TaskIds, Worker(t) PROVE TypeOK'
  BY <1>18 DEF Worker, WorkerStart, WorkerFinish, WorkerRequeue, Evict
<1>19. CASE UNCHANGED vars
  BY <1>19 DEF vars
<1> QED
  BY <1>1, <1>2, <1>3, <1>4, <1>5, <1>6, <1>7, <1>8, <1>9, <1>10, <1>11, <1>12,
     <1>13, <1>14, <1>15, <1>16, <1>17, <1>18, <1>19
  DEF Next, Request, Handle, Detector

\* Every variable keeps its type: no handler acts on an id nobody asked for, no
\* age or lifetime passes its bound.
THEOREM TypeCorrect == Spec => []TypeOK
<1>1. Init => TypeOK
  BY TypeInit
<1>2. TypeOK /\ [Next]_vars => TypeOK'
  BY TypeStep
<1> QED
  BY <1>1, <1>2, PTL DEF Spec

-----------------------------------------------------------------------------
(* A watched task is not swept                                             *)

LEMMA FreshInit == Init => WatchedIsFresh
BY DEF Init, WatchedIsFresh

\* Only the clock makes an entry older, and it ages the socket as much.
LEMMA FreshStep == TypeOK /\ WatchedIsFresh /\ [Next]_vars => WatchedIsFresh'
<1> SUFFICES ASSUME TypeOK, WatchedIsFresh, [Next]_vars PROVE WatchedIsFresh'
  OBVIOUS
<1> USE DEF TypeOK, WatchedIsFresh, Ids, trackerVars, handlerVars, detectorVars, historyVars
<1>n. 0..Stale \subseteq Nat /\ 0..WsMaxLifetime \subseteq Nat
  BY NumbersAssumption DEF Stale
<1>1. ASSUME NEW h \in Handlers, PostAdmit(h) PROVE WatchedIsFresh'
  BY <1>1 DEF PostAdmit, GoTo
<1>2. ASSUME NEW h \in Handlers, PostBadBody(h) PROVE WatchedIsFresh'
  BY <1>2 DEF PostBadBody, GoTo, Return
<1>3. ASSUME NEW h \in Handlers, PostEnqueue(h) PROVE WatchedIsFresh'
  BY <1>3 DEF PostEnqueue, Enqueue, GoTo
<1>4. ASSUME NEW h \in Handlers, PostEnqueueError(h) PROVE WatchedIsFresh'
  BY <1>4 DEF PostEnqueueError, Enqueue, GoTo, Return
<1>5. ASSUME NEW h \in Handlers, PostTrack(h) PROVE WatchedIsFresh'
  BY <1>n, <1>5 DEF PostTrack, UpdateAccess, GoTo, Return
<1>6. ASSUME NEW h \in Handlers, DeleteCall(h) PROVE WatchedIsFresh'
  BY <1>6 DEF DeleteCall, GoTo, Return
<1>7. ASSUME NEW h \in Handlers, DeleteUntrack(h) PROVE WatchedIsFresh'
  BY <1>n, <1>7 DEF DeleteUntrack, RemoveTask, GoTo, Return
<1>8. ASSUME NEW h \in Handlers, LogsClose(h) PROVE WatchedIsFresh'
  BY <1>8 DEF LogsClose, GoTo, Return
<1>9. ASSUME NEW h \in Handlers, NEW id \in Known, StatusRequest(h, id) PROVE WatchedIsFresh'
  BY <1>n, <1>9 DEF StatusRequest, UpdateAccess
<1>10. ASSUME NEW h \in Handlers, NEW id \in Known, LogsOpen(h, id) PROVE WatchedIsFresh'
  BY <1>n, <1>10 DEF LogsOpen, UpdateAccess, Known, GoTo
<1>11. ASSUME NEW h \in Handlers, NEW id \in Known, DeleteRequest(h, id) PROVE WatchedIsFresh'
  BY <1>11 DEF DeleteRequest, GoTo
<1>12. CASE Sweep \/ DetectorStops
  BY <1>12 DEF Sweep, DetectorStops
<1>13. ASSUME NEW id \in Ids, Examine(id) PROVE WatchedIsFresh'
  BY <1>13 DEF Examine
<1>14. CASE Reap
  BY <1>14 DEF Reap
<1>15. CASE Untrack
  BY <1>n, <1>15 DEF Untrack, RemoveTask
<1>16. CASE Tick
  <2> SUFFICES ASSUME NEW h \in Handlers, pc[h] = "watch" PROVE age'[arg[h]] <= life'[h]
    BY <1>16 DEF Tick
  <2>1. life'[h] = life[h] + 1 /\ age'[arg[h]] \in {age[arg[h]], age[arg[h]] + 1}
    BY <1>16 DEF Tick
  <2>2. age[arg[h]] \in Nat /\ life[h] \in Nat
    BY <1>n
  <2> QED
    BY <2>1, <2>2
<1>17. CASE Process
  BY <1>17 DEF Process, Signal, Close, Exit, Crash, Restart, ProcessEnds
<1>18. ASSUME NEW t \in TaskIds, Worker(t) PROVE WatchedIsFresh'
  BY <1>18 DEF Worker, WorkerStart, WorkerFinish, WorkerRequeue, Evict
<1>19. CASE UNCHANGED vars
  BY <1>19 DEF vars
<1> QED
  BY <1>1, <1>2, <1>3, <1>4, <1>5, <1>6, <1>7, <1>8, <1>9, <1>10, <1>11, <1>12,
     <1>13, <1>14, <1>15, <1>16, <1>17, <1>18, <1>19
  DEF Next, Request, Handle, Detector

\* Only Sweep adds to the snapshot, and only entries older than the timeout,
\* which no socket reaches.
LEMMA SpareStep ==
    TypeOK /\ WatchedIsFresh /\ [Next]_vars =>
        (WsMaxLifetime <= AbandonTimeout =>
            \A h \in Handlers : pc[h] = "watch" => arg[h] \notin todo' \ todo)
<1> SUFFICES ASSUME TypeOK, WatchedIsFresh, [Next]_vars,
                    WsMaxLifetime <= AbandonTimeout,
                    NEW h \in Handlers, pc[h] = "watch", arg[h] \in todo' \ todo
             PROVE  FALSE
  OBVIOUS
<1>1. Sweep
  BY DEF Next, Request, Handle, Detector, Worker, PostAdmit, PostBadBody, PostEnqueue,
         PostEnqueueError, PostTrack, StatusRequest, LogsOpen, LogsClose, DeleteRequest,
         DeleteCall, DeleteUntrack, Examine, Reap, Untrack, DetectorStops, Tick, Process, Signal, Close,
         Exit, Crash, Restart, ProcessEnds, ReadsBody, Enqueue, WorkerStart,
         WorkerFinish, WorkerRequeue, Evict, vars, detectorVars
<1>2. age[arg[h]] > AbandonTimeout
  BY <1>1 DEF Sweep, GetAbandonedTasks
<1>3. age[arg[h]] <= life[h] /\ life[h] <= WsMaxLifetime
  BY NumbersAssumption DEF TypeOK, WatchedIsFresh
<1>4. age[arg[h]] \in Nat /\ life[h] \in Nat
  BY NumbersAssumption DEF TypeOK, Stale, Ids
<1> QED
  BY <1>2, <1>3, <1>4, NumbersAssumption

\* logs.go:68: with a socket lifetime within the abandonment timeout, the one
\* access recorded when a socket opens keeps its task out of every snapshot the
\* detector takes while the socket is open.
THEOREM WatchedIsSpared == Spec => SweepSparesWatched
<1>1. Init => TypeOK /\ WatchedIsFresh
  BY TypeInit, FreshInit
<1>2. TypeOK /\ WatchedIsFresh /\ [Next]_vars => (TypeOK /\ WatchedIsFresh)'
  BY TypeStep, FreshStep
<1>3. TypeOK /\ WatchedIsFresh /\ [Next]_vars =>
        [WsMaxLifetime <= AbandonTimeout =>
            \A h \in Handlers : pc[h] = "watch" => arg[h] \notin todo' \ todo]_vars
  BY SpareStep
<1> QED
  BY <1>1, <1>2, <1>3, PTL DEF Spec, SweepSparesWatched

-----------------------------------------------------------------------------
(* A task is removed once                                                  *)

LEMMA RemovedInit == Init => RemovedOnce
BY DEF Init, RemovedOnce

\* A removed task stays removed.
LEMMA GoneStays ==
    ASSUME TypeOK, [Next]_vars, NEW t \in TaskIds, task[t] = "gone"
    PROVE  task'[t] = "gone"
BY DEF TypeOK, Next, Request, Handle, Detector, Worker, PostAdmit, PostBadBody, PostEnqueue,
       PostEnqueueError, PostTrack, StatusRequest, LogsOpen, LogsClose, DeleteRequest,
       DeleteCall, DeleteUntrack, Sweep, Examine, Reap, Untrack, DetectorStops, Tick, Process, Signal, Close,
         Exit, Crash, Restart, ProcessEnds, ReadsBody, Enqueue, WorkerStart,
       WorkerFinish, WorkerRequeue, Evict, DeleteTask, Deletable, Finished, vars

LEMMA RemovedStep == TypeOK /\ RemovedOnce /\ [Next]_vars => RemovedOnce'
<1> SUFFICES ASSUME TypeOK, RemovedOnce, [Next]_vars PROVE RemovedOnce'
  OBVIOUS
<1> USE DEF TypeOK, RemovedOnce, handlerVars, historyVars
<1>g. \A t \in TaskIds : task[t] = "gone" => task'[t] = "gone"
  BY GoneStays
<1>1. ASSUME NEW h \in Handlers, PostAdmit(h) PROVE RemovedOnce'
  BY <1>1, <1>g DEF PostAdmit, GoTo
<1>2. ASSUME NEW h \in Handlers, PostBadBody(h) PROVE RemovedOnce'
  BY <1>2, <1>g DEF PostBadBody, GoTo, Return
<1>3. ASSUME NEW h \in Handlers, PostEnqueue(h) PROVE RemovedOnce'
  BY <1>3, <1>g DEF PostEnqueue, Enqueue, GoTo
<1>4. ASSUME NEW h \in Handlers, PostEnqueueError(h) PROVE RemovedOnce'
  BY <1>4, <1>g DEF PostEnqueueError, Enqueue, GoTo, Return
<1>5. ASSUME NEW h \in Handlers, PostTrack(h) PROVE RemovedOnce'
  BY <1>5, <1>g DEF PostTrack, GoTo, Return
\* The caller that removed the task found it stored, so it is the first.
<1>6. ASSUME NEW h \in Handlers, DeleteCall(h) PROVE RemovedOnce'
  <2>1. CASE DeleteTask(arg[h], TRUE) /\ GoTo(h, "untrack", arg[h])
    <3>1. arg[h] \in TaskIds /\ task[arg[h]] # "gone" /\ task'[arg[h]] = "gone"
      BY <2>1 DEF DeleteTask, Deletable, Finished
    <3>2. arg[h] \notin cancelled \cup reaped
      BY <3>1
    <3>3. \A k \in Handlers : pc[k] = "untrack" => arg[k] # arg[h]
      BY <3>1
    <3> QED
      BY <1>6, <2>1, <1>g, <3>1, <3>2, <3>3 DEF DeleteCall, GoTo
  <2>2. CASE Return(h)
    BY <1>6, <2>2, <1>g DEF DeleteCall, GoTo, Return
  <2> QED
    BY <1>6, <2>1, <2>2 DEF DeleteCall
<1>7. ASSUME NEW h \in Handlers, DeleteUntrack(h) PROVE RemovedOnce'
  BY <1>7, <1>g DEF DeleteUntrack, GoTo, Return
<1>8. ASSUME NEW h \in Handlers, LogsClose(h) PROVE RemovedOnce'
  BY <1>8, <1>g DEF LogsClose, GoTo, Return
<1>9. ASSUME NEW h \in Handlers, NEW id \in Known, StatusRequest(h, id) PROVE RemovedOnce'
  BY <1>9, <1>g DEF StatusRequest
<1>10. ASSUME NEW h \in Handlers, NEW id \in Known, LogsOpen(h, id) PROVE RemovedOnce'
  BY <1>10, <1>g DEF LogsOpen, GoTo
<1>11. ASSUME NEW h \in Handlers, NEW id \in Known, DeleteRequest(h, id) PROVE RemovedOnce'
  BY <1>11, <1>g DEF DeleteRequest, GoTo
<1>12. CASE Sweep \/ DetectorStops
  BY <1>12 DEF Sweep, DetectorStops
<1>13. ASSUME NEW id \in Ids, Examine(id) PROVE RemovedOnce'
  BY <1>13 DEF Examine
<1>14. CASE Reap
  <2>1. CASE DeleteTask(cur, TRUE) /\ reaped' = reaped \cup {cur}
    <3>1. cur \in TaskIds /\ task[cur] # "gone" /\ task'[cur] = "gone"
      BY <2>1 DEF DeleteTask, Deletable, Finished
    <3>2. cur \notin cancelled /\ \A h \in Handlers : pc[h] = "untrack" => arg[h] # cur
      BY <3>1
    <3> QED
      BY <1>14, <2>1, <1>g, <3>1, <3>2 DEF Reap
  <2>2. CASE UNCHANGED reaped
    BY <1>14, <2>2, <1>g DEF Reap
  <2> QED
    BY <1>14, <2>1, <2>2 DEF Reap
<1>15. CASE Untrack
  BY <1>15 DEF Untrack
<1>16. CASE Tick
  BY <1>16 DEF Tick
<1>17. CASE Process
  BY <1>17 DEF Process, Signal, Close, Exit, Crash, Restart, ProcessEnds
<1>18. ASSUME NEW t \in TaskIds, Worker(t) PROVE RemovedOnce'
  BY <1>18, <1>g DEF Worker, WorkerStart, WorkerFinish, WorkerRequeue, Evict
<1>19. CASE UNCHANGED vars
  BY <1>19 DEF vars
<1> QED
  BY <1>1, <1>2, <1>3, <1>4, <1>5, <1>6, <1>7, <1>8, <1>9, <1>10, <1>11, <1>12,
     <1>13, <1>14, <1>15, <1>16, <1>17, <1>18, <1>19
  DEF Next, Request, Handle, Detector

\* At most one DELETE is told that it removed a task, and none is told so of a
\* task the detector removed, however the requests and the sweep interleave and
\* whatever the broker's calls report.
THEOREM RemovedAtMostOnce == Spec => []RemovedOnce
<1>1. Init => TypeOK /\ RemovedOnce
  BY TypeInit, RemovedInit
<1>2. TypeOK /\ RemovedOnce /\ [Next]_vars => (TypeOK /\ RemovedOnce)'
  BY TypeStep, RemovedStep
<1> QED
  BY <1>1, <1>2, PTL DEF Spec

\* main.go:601: once DELETE answered "cancelled", nothing changes the task.
THEOREM CancelledIsFinal == Spec => CancelledStaysOut
<1>1. Init => TypeOK /\ RemovedOnce
  BY TypeInit, RemovedInit
<1>2. TypeOK /\ RemovedOnce /\ [Next]_vars => (TypeOK /\ RemovedOnce)'
  BY TypeStep, RemovedStep
<1>3. TypeOK /\ RemovedOnce /\ [Next]_vars =>
        [\A t \in TaskIds : t \in cancelled => task'[t] = task[t]]_vars
  BY GoneStays DEF RemovedOnce
<1> QED
  BY <1>1, <1>2, <1>3, PTL DEF Spec, CancelledStaysOut

-----------------------------------------------------------------------------
(* The server implements the life of a task                                *)

LEMMA LifecycleDelete ==
    ASSUME TypeOK, NEW id, NEW ok, DeleteTask(id, ok), UNCHANGED <<cancelled, reaped>>
    PROVE  [Lifecycle!Next]_(Lifecycle!vars)
<1>1. CASE UNCHANGED task
  BY <1>1 DEF Lifecycle!vars
<1>2. CASE Deletable(id) /\ task' = [task EXCEPT ![id] = "gone"]
  BY <1>2 DEF Deletable, Finished, Lifecycle!Next, Lifecycle!Step, Lifecycle!Remove,
              Lifecycle!Move
<1> QED
  BY <1>1, <1>2 DEF DeleteTask

LEMMA LifecycleStep == TypeOK /\ RemovedOnce /\ [Next]_vars => [Lifecycle!Next]_(Lifecycle!vars)
<1> SUFFICES ASSUME TypeOK, RemovedOnce, [Next]_vars PROVE [Lifecycle!Next]_(Lifecycle!vars)
  OBVIOUS
<1> USE DEF TypeOK, Lifecycle!Next, Lifecycle!Step, Lifecycle!Move, Lifecycle!vars, historyVars
<1>1. ASSUME NEW h \in Handlers, PostEnqueue(h) \/ PostEnqueueError(h)
      PROVE  [Lifecycle!Next]_(Lifecycle!vars)
  BY <1>1 DEF PostEnqueue, PostEnqueueError, Enqueue, Lifecycle!Submit
<1>2. ASSUME NEW h \in Handlers, DeleteCall(h) PROVE [Lifecycle!Next]_(Lifecycle!vars)
  BY <1>2, LifecycleDelete DEF DeleteCall
\* The caller that removed the task is the first to say so.
<1>3. ASSUME NEW h \in Handlers, DeleteUntrack(h) PROVE [Lifecycle!Next]_(Lifecycle!vars)
  BY <1>3 DEF DeleteUntrack, RemovedOnce, Lifecycle!Acknowledge
<1>4. CASE Reap
  <2>1. CASE DeleteTask(cur, TRUE) /\ reaped' = reaped \cup {cur}
    BY <1>4, <2>1 DEF Reap, DeleteTask, Deletable, Finished, RemovedOnce, Lifecycle!Abandon
  <2>2. CASE DeleteTask(cur, FALSE) /\ UNCHANGED reaped
    BY <1>4, <2>2, LifecycleDelete DEF Reap
  <2> QED
    BY <1>4, <2>1, <2>2 DEF Reap
<1>5. ASSUME NEW t \in TaskIds, Worker(t) PROVE [Lifecycle!Next]_(Lifecycle!vars)
  BY <1>5 DEF Worker, WorkerStart, WorkerFinish, WorkerRequeue, Evict, Finished,
              Lifecycle!Start, Lifecycle!Finish, Lifecycle!GiveBack, Lifecycle!Remove
<1>6. ASSUME NEW h \in Handlers,
             \/ PostAdmit(h) \/ PostBadBody(h) \/ PostTrack(h) \/ LogsClose(h)
             \/ \E id \in Known : StatusRequest(h, id) \/ LogsOpen(h, id) \/ DeleteRequest(h, id)
      PROVE  UNCHANGED Lifecycle!vars
  BY <1>6 DEF PostAdmit, PostBadBody, PostTrack, LogsClose, StatusRequest, LogsOpen,
              DeleteRequest
<1>7. ASSUME Sweep \/ (\E id \in Ids : Examine(id)) \/ Untrack \/ DetectorStops \/ Tick
             \/ Process
      PROVE  UNCHANGED Lifecycle!vars
  BY <1>7 DEF Sweep, Examine, Untrack, DetectorStops, Tick, Process, Signal, Close, Exit,
              Crash, Restart, ProcessEnds
<1>8. CASE UNCHANGED vars
  BY <1>8 DEF vars
<1> QED
  BY <1>1, <1>2, <1>3, <1>4, <1>5, <1>6, <1>7, <1>8 DEF Next, Request, Handle, Detector

\* Requests, sweeps, failing calls and restarts in any order take a task through
\* no transition its life does not have.
THEOREM Refinement == Spec => ImplementsLifecycle
<1>1. Init => TypeOK /\ RemovedOnce /\ Lifecycle!Init
  BY TypeInit, RemovedInit DEF Init, Lifecycle!Init
<1>2. TypeOK /\ RemovedOnce /\ [Next]_vars => (TypeOK /\ RemovedOnce)'
  BY TypeStep, RemovedStep
<1>3. TypeOK /\ RemovedOnce /\ [Next]_vars => [Lifecycle!Next]_(Lifecycle!vars)
  BY LifecycleStep
<1> QED
  BY <1>1, <1>2, <1>3, PTL DEF Spec, ImplementsLifecycle, Lifecycle!Spec

-----------------------------------------------------------------------------
(* The rate limit                                                          *)

Counted == Queue \ waved

RoomInv == IsFiniteSet(Queue) /\ QueueBound

LEMMA RoomSizes ==
    ASSUME RoomInv
    PROVE  /\ IsFiniteSet(Counted) /\ Cardinality(Counted) \in Nat
           /\ IsFiniteSet(Reading) /\ Cardinality(Reading) \in Nat
           /\ Cardinality(Handlers) \in Nat
           /\ Cardinality(Counted) <= Cardinality(Queue)
           /\ Cardinality(Counted) + Cardinality(Reading) <= MaxQueueSize + Cardinality(Handlers)
<1>1. Counted \subseteq Queue /\ Reading \subseteq Handlers
  BY DEF Counted, Reading
<1> QED
  BY <1>1, HandlersAssumption, FS_Subset, FS_CardinalityType DEF RoomInv, QueueBound, Counted

LEMMA RoomInit == Init => RoomInv
<1> SUFFICES ASSUME Init PROVE RoomInv
  OBVIOUS
<1>1. Queue = {} /\ Queue \ waved = {} /\ Reading = {}
  BY DEF Init, Queue, Reading, Live
<1> QED
  BY <1>1, FS_EmptySet, HandlersAssumption, FS_CardinalityType, NumbersAssumption
  DEF RoomInv, QueueBound

\* A step that neither fills the queue nor starts a request keeps the room.
LEMMA RoomKept ==
    ASSUME RoomInv, IsFiniteSet(Queue'), Counted' \subseteq Counted, Reading' \subseteq Reading
    PROVE  RoomInv'
<1>1. Cardinality(Counted') <= Cardinality(Counted) /\ Cardinality(Counted') \in Nat
  BY RoomSizes, FS_Subset, FS_CardinalityType
<1>2. Cardinality(Reading') <= Cardinality(Reading) /\ Cardinality(Reading') \in Nat
  BY RoomSizes, FS_Subset, FS_CardinalityType
<1>3. Cardinality(Counted') + Cardinality(Reading') <= MaxQueueSize + Cardinality(Handlers)
  BY <1>1, <1>2, RoomSizes, NumbersAssumption
<1> QED
  BY <1>3 DEF RoomInv, QueueBound, Counted

\* The check leaves room for every request that can be past it.
LEMMA RoomAdmit ==
    ASSUME TypeOK, RoomInv, NEW h \in Handlers, PostAdmit(h)
    PROVE  RoomInv'
<1>1. Queue' = Queue /\ Counted' = Counted
  BY DEF PostAdmit, Counted, Queue, historyVars
<1>2. CASE GoTo(h, "unchecked", NoId)
  <2>1. Reading' \subseteq Reading
    BY <1>2 DEF GoTo, Reading, TypeOK
  <2> QED
    BY <1>1, <2>1, RoomKept DEF RoomInv
<1>3. CASE Cardinality(Queue) <= MaxQueueSize
  <2>1. Cardinality(Queue) \in Nat
    BY FS_CardinalityType DEF RoomInv
  <2>2. Reading' \subseteq Handlers
    BY DEF Reading
  <2>3. Cardinality(Reading') <= Cardinality(Handlers) /\ Cardinality(Reading') \in Nat
    BY <2>2, FS_Subset, FS_CardinalityType, HandlersAssumption
  <2>4. Cardinality(Counted') + Cardinality(Reading') <= MaxQueueSize + Cardinality(Handlers)
    BY <1>1, <1>3, <2>1, <2>3, RoomSizes, NumbersAssumption
  <2> QED
    BY <1>1, <2>4 DEF RoomInv, QueueBound, Counted
<1> QED
  BY <1>2, <1>3 DEF PostAdmit

\* A request gives up its place as its task takes it, or was never held to the
\* limit.
LEMMA RoomEnqueue ==
    ASSUME TypeOK, RoomInv, NEW h \in Handlers, ReadsBody(h), NEW t \in TaskIds, Enqueue(h, t),
           NEW point, point # "body", pc' = [pc EXCEPT ![h] = point]
    PROVE  RoomInv'
<1>1. Queue' = Queue \cup {t}
  BY DEF Enqueue, TypeOK, Queue, Live
<1>2. IsFiniteSet(Queue')
  BY <1>1, FS_AddElement DEF RoomInv
<1>3. CASE pc[h] = "unchecked"
  <2>1. Counted' \subseteq Counted
    BY <1>1, <1>3 DEF Enqueue, Counted
  <2>2. Reading' \subseteq Reading
    BY DEF TypeOK, Reading
  <2> QED
    BY <1>2, <2>1, <2>2, RoomKept
<1>4. CASE pc[h] = "body"
  <2>1. Counted' \subseteq Counted \cup {t}
    BY <1>1, <1>4 DEF Enqueue, Counted
  <2>2. Reading' = Reading \ {h} /\ h \in Reading
    BY <1>4 DEF TypeOK, Reading
  <2>3. IsFiniteSet(Counted \cup {t}) /\ Cardinality(Counted \cup {t}) <= Cardinality(Counted) + 1
    BY RoomSizes, FS_AddElement
  <2>4. Cardinality(Counted') <= Cardinality(Counted) + 1 /\ Cardinality(Counted') \in Nat
    <3>1. Cardinality(Counted') <= Cardinality(Counted \cup {t}) /\ Cardinality(Counted') \in Nat
      BY <2>1, <2>3, FS_Subset, FS_CardinalityType
    <3>2. Cardinality(Counted \cup {t}) \in Nat
      BY <2>3, FS_CardinalityType
    <3> QED
      BY <2>3, <3>1, <3>2, RoomSizes
  <2>5. Cardinality(Reading') = Cardinality(Reading) - 1
    BY <2>2, RoomSizes, FS_RemoveElement
  <2>6. Cardinality(Counted') + Cardinality(Reading') <= MaxQueueSize + Cardinality(Handlers)
    BY <2>4, <2>5, RoomSizes, NumbersAssumption
  <2> QED
    BY <1>2, <2>6 DEF RoomInv, QueueBound, Counted
<1> QED
  BY <1>3, <1>4 DEF ReadsBody

LEMMA RoomStep == TypeOK /\ RoomInv /\ [Next]_vars => RoomInv'
<1> SUFFICES ASSUME TypeOK, RoomInv, [Next]_vars PROVE RoomInv'
  OBVIOUS
<1>k. ASSUME Queue' \subseteq Queue, waved' = waved, Reading' \subseteq Reading
      PROVE  RoomInv'
  <2>1. IsFiniteSet(Queue') /\ Counted' \subseteq Counted
    BY <1>k, FS_Subset DEF RoomInv, Counted
  <2> QED
    BY <1>k, <2>1, RoomKept
<1> USE DEF TypeOK, Queue, Reading, Live, handlerVars, historyVars
<1>1. ASSUME NEW h \in Handlers, PostAdmit(h) PROVE RoomInv'
  BY <1>1, RoomAdmit
<1>2. ASSUME NEW h \in Handlers, PostEnqueue(h) PROVE RoomInv'
  BY <1>2, RoomEnqueue DEF PostEnqueue, GoTo
<1>3. ASSUME NEW h \in Handlers, PostEnqueueError(h) PROVE RoomInv'
  <2>1. CASE UNCHANGED <<task, waved>>
    <3>1. Queue' = Queue /\ waved' = waved /\ Reading' \subseteq Reading
      BY <1>3, <2>1 DEF PostEnqueueError, GoTo, Return
    <3> QED
      BY <3>1, <1>k
  <2>2. CASE \E t \in TaskIds : Enqueue(h, t)
    BY <1>3, <2>2, RoomEnqueue DEF PostEnqueueError, GoTo, Return
  <2> QED
    BY <1>3, <2>1, <2>2 DEF PostEnqueueError
<1>4. ASSUME NEW h \in Handlers, PostBadBody(h) \/ PostTrack(h) \/ LogsClose(h) \/ DeleteUntrack(h)
      PROVE  RoomInv'
  <2>1. Queue' = Queue /\ waved' = waved /\ Reading' \subseteq Reading
    BY <1>4 DEF PostBadBody, PostTrack, LogsClose, DeleteUntrack, GoTo, Return
  <2> QED
    BY <2>1, <1>k
<1>5. ASSUME NEW h \in Handlers, DeleteCall(h) PROVE RoomInv'
  <2>1. Queue' \subseteq Queue /\ waved' = waved /\ Reading' \subseteq Reading
    BY <1>5 DEF DeleteCall, DeleteTask, Deletable, GoTo, Return
  <2> QED
    BY <2>1, <1>k
<1>6. ASSUME NEW h \in Handlers, NEW id \in Known,
             StatusRequest(h, id) \/ LogsOpen(h, id) \/ DeleteRequest(h, id)
      PROVE  RoomInv'
  <2>1. Queue' = Queue /\ waved' = waved /\ Reading' \subseteq Reading
    BY <1>6 DEF StatusRequest, LogsOpen, DeleteRequest, GoTo
  <2> QED
    BY <2>1, <1>k
<1>7. ASSUME Detector \/ Tick \/ UNCHANGED vars PROVE RoomInv'
  <2>1. Queue' \subseteq Queue /\ waved' = waved /\ Reading' \subseteq Reading
    BY <1>7 DEF Detector, Sweep, Examine, Reap, Untrack, DetectorStops, DeleteTask, Deletable,
                Tick, vars
  <2> QED
    BY <2>1, <1>k
<1>8. CASE Process
  <2>1. Queue' = Queue /\ waved' = waved /\ Reading' \subseteq Reading
    BY <1>8 DEF Process, Signal, Close, Exit, Crash, Restart, ProcessEnds
  <2> QED
    BY <2>1, <1>k
<1>9. ASSUME NEW t \in TaskIds, Worker(t) PROVE RoomInv'
  <2>1. Queue' \subseteq Queue /\ waved' = waved /\ Reading' \subseteq Reading
    BY <1>9 DEF Worker, WorkerStart, WorkerFinish, WorkerRequeue, Evict, Finished
  <2> QED
    BY <2>1, <1>k
<1> QED
  BY <1>1, <1>2, <1>3, <1>4, <1>5, <1>6, <1>7, <1>8, <1>9 DEF Next, Request, Handle

\* main.go:418: requests that race past the check overshoot MAX_QUEUE_SIZE by at
\* most one task each, whatever fails, unless their own look at the queue failed.
THEOREM QueueIsBounded == Spec => []QueueBound
<1>1. Init => TypeOK /\ RoomInv
  BY TypeInit, RoomInit
<1>2. TypeOK /\ RoomInv /\ [Next]_vars => (TypeOK /\ RoomInv)'
  BY TypeStep, RoomStep
<1>3. RoomInv => QueueBound
  BY DEF RoomInv
<1> QED
  BY <1>1, <1>2, <1>3, PTL DEF Spec

-----------------------------------------------------------------------------
(* No waiting task is lost to the detector                                 *)

\* Nobody speaks of a task that was not submitted.
Unheard ==
    \A t \in TaskIds : task[t] = "none" =>
        /\ t \notin tracked \cup todo \cup {cur}
        /\ \A h \in Handlers : arg[h] # t

\* With nothing failing, what the detector is about to drop does not wait.
DroppedIsDone ==
    /\ server = "up"
    /\ dpc = "untrack" /\ cur \in TaskIds => task[cur] # "pending"

Undisturbed == ~Faults /\ ~Restarts /\ ~Requeues

PendingInv ==
    /\ Unheard
    /\ Undisturbed => DroppedIsDone /\ PendingIsTracked

LEMMA UnheardStep == TypeOK /\ Unheard /\ [Next]_vars => Unheard'
<1> SUFFICES ASSUME TypeOK, Unheard, [Next]_vars, NEW t \in TaskIds, task'[t] = "none"
             PROVE  /\ t \notin tracked' \cup todo' \cup {cur'}
                    /\ \A h \in Handlers : arg'[h] # t
  BY DEF Unheard
<1> USE DEF TypeOK, trackerVars, handlerVars, detectorVars, historyVars
<1>i. NoId # t /\ NoId \notin TaskIds
  BY IdsAssumption
<1>1. task[t] = "none"
  BY DEF Next, Request, Handle, Detector, Worker, PostAdmit, PostBadBody, PostEnqueue,
         PostEnqueueError, PostTrack, StatusRequest, LogsOpen, LogsClose, DeleteRequest,
         DeleteCall, DeleteUntrack, Sweep, Examine, Reap, Untrack, DetectorStops, Tick, Process,
         Signal, Close, Exit, Crash, Restart, ProcessEnds, Enqueue, WorkerStart,
         WorkerFinish, WorkerRequeue, Evict, DeleteTask, Deletable, Finished, vars
<1>2. t \notin tracked \cup todo \cup {cur} /\ \A h \in Handlers : arg[h] # t
  BY <1>1 DEF Unheard
<1>3. \A id \in Known : id # t
  BY <1>1, IdsAssumption DEF Known
<1>4. ASSUME NEW h \in Handlers, Handle(h)
      PROVE  /\ t \notin tracked' \cup todo' \cup {cur'}
             /\ \A k \in Handlers : arg'[k] # t
  BY <1>4, <1>1, <1>2, <1>i DEF Handle, PostBadBody, PostEnqueue, PostEnqueueError, PostTrack,
     Enqueue, DeleteCall, DeleteUntrack, LogsClose, GoTo, Return, UpdateAccess, RemoveTask
<1>5. ASSUME NEW h \in Handlers, Request(h)
      PROVE  /\ t \notin tracked' \cup todo' \cup {cur'}
             /\ \A k \in Handlers : arg'[k] # t
  BY <1>5, <1>2, <1>3, <1>i DEF Request, PostAdmit, StatusRequest, LogsOpen, DeleteRequest,
     GoTo, UpdateAccess
<1>6. ASSUME Detector \/ Tick \/ Process \/ UNCHANGED vars \/ \E u \in TaskIds : Worker(u)
      PROVE  /\ t \notin tracked' \cup todo' \cup {cur'}
             /\ \A k \in Handlers : arg'[k] # t
  BY <1>6, <1>2, <1>i DEF Detector, Sweep, GetAbandonedTasks, Examine, Reap, Untrack, RemoveTask,
     DetectorStops, Tick, Process, Signal, Close, Exit, Crash, Restart, ProcessEnds, Worker,
     WorkerStart, WorkerFinish, WorkerRequeue, Evict, vars
<1> QED
  BY <1>4, <1>5, <1>6 DEF Next

\* Without requeues only Enqueue makes a task wait.
LEMMA WaitsOnce ==
    ASSUME TypeOK, [Next]_vars, ~Requeues, NEW t \in TaskIds, task[t] \notin {"none", "pending"}
    PROVE  task'[t] # "pending"
BY DEF TypeOK, Next, Request, Handle, Detector, Worker, PostAdmit, PostBadBody, PostEnqueue,
       PostEnqueueError, PostTrack, StatusRequest, LogsOpen, LogsClose, DeleteRequest,
       DeleteCall, DeleteUntrack, Sweep, Examine, Reap, Untrack, DetectorStops, Tick, Process,
       Signal, Close, Exit, Crash, Restart, ProcessEnds, Enqueue, WorkerStart,
       WorkerFinish, WorkerRequeue, Evict, DeleteTask, Deletable, Finished, vars

LEMMA DroppedStep ==
    ASSUME TypeOK, Unheard, Undisturbed, DroppedIsDone, [Next]_vars
    PROVE  DroppedIsDone'
<1> USE DEF TypeOK, DroppedIsDone, Undisturbed, detectorVars
<1>1. server' = "up"
  BY DEF Next, Request, Handle, Detector, Worker, PostAdmit, PostBadBody, PostEnqueue,
         PostEnqueueError, PostTrack, StatusRequest, LogsOpen, LogsClose, DeleteRequest,
         DeleteCall, DeleteUntrack, Sweep, Examine, Reap, Untrack, DetectorStops, Tick, Process,
         Signal, Close, Exit, Crash, Restart, Running, WorkerStart, WorkerFinish,
         WorkerRequeue, Evict, vars
<1>2. SUFFICES ASSUME dpc' = "untrack", cur' \in TaskIds, task'[cur'] = "pending" PROVE FALSE
  BY <1>1
<1>3. CASE dpc = "untrack" /\ cur' = cur
  BY <1>2, <1>3, WaitsOnce DEF Unheard
<1>4. ASSUME NEW id \in Ids, Examine(id) PROVE FALSE
  BY <1>2, <1>4 DEF Examine, Lookup, Finished, Live
<1>5. CASE Reap
  BY <1>2, <1>5 DEF Reap, DeleteTask, Deletable
<1>6. \/ \E id \in Ids : Examine(id)
      \/ Reap
      \/ dpc = "untrack" /\ cur' = cur
  BY <1>2 DEF Next, Request, Handle, Detector, Worker, PostAdmit, PostBadBody, PostEnqueue,
         PostEnqueueError, PostTrack, StatusRequest, LogsOpen, LogsClose, DeleteRequest,
         DeleteCall, DeleteUntrack, Sweep, Untrack, DetectorStops, Tick, Process,
         Signal, Close, Exit, Crash, Restart, Running, ProcessEnds, WorkerStart, WorkerFinish,
         WorkerRequeue, Evict, vars
<1> QED
  BY <1>3, <1>4, <1>5, <1>6

\* Whoever untracks a task, DELETE or the detector, has it out of the queue.
LEMMA TrackedStep ==
    ASSUME TypeOK, RemovedOnce, Unheard, Undisturbed, DroppedIsDone, PendingIsTracked, [Next]_vars
    PROVE  PendingIsTracked'
<1> SUFFICES ASSUME NEW t \in TaskIds, task'[t] = "pending"
             PROVE  t \in tracked' \/ \E h \in Handlers : pc'[h] = "track" /\ arg'[h] = t
  BY DEF PendingIsTracked
<1> DEFINE Heard == t \in tracked \/ \E h \in Handlers : pc[h] = "track" /\ arg[h] = t
           Goal == t \in tracked' \/ \E h \in Handlers : pc'[h] = "track" /\ arg'[h] = t
<1> USE DEF TypeOK, Undisturbed, trackerVars, handlerVars, detectorVars, historyVars
<1>1. task[t] \in {"none", "pending"}
  BY WaitsOnce
<1>2. task[t] = "pending" => Heard
  BY DEF PendingIsTracked
<1>3. ASSUME NEW h \in Handlers, PostEnqueue(h) PROVE Goal
  <2>1. PICK u \in TaskIds : Enqueue(h, u) /\ GoTo(h, "track", u)
    BY <1>3 DEF PostEnqueue
  <2>2. CASE t = u
    BY <2>1, <2>2 DEF GoTo
  <2>3. CASE t # u
    <3>1. Heard
      BY <2>1, <2>3, <1>2 DEF Enqueue
    <3>2. pc[h] # "track" /\ tracked' = tracked
      BY <1>3 DEF PostEnqueue, ReadsBody
    <3> QED
      BY <2>1, <3>1, <3>2 DEF GoTo
  <2> QED
    BY <2>2, <2>3
<1>4. ASSUME NEW h \in Handlers, PostTrack(h) PROVE Goal
  <2>1. Heard
    BY <1>4, <1>2 DEF PostTrack
  <2> QED
    BY <1>4, <2>1 DEF PostTrack, UpdateAccess, GoTo, Return
<1>5. ASSUME NEW h \in Handlers, DeleteUntrack(h) PROVE Goal
  <2>1. Heard /\ arg[h] # t
    BY <1>5, <1>2 DEF DeleteUntrack, RemovedOnce
  <2> QED
    BY <1>5, <2>1 DEF DeleteUntrack, RemoveTask, GoTo, Return
<1>6. CASE Untrack
  <2>1. Heard /\ cur # t
    BY <1>6, <1>2 DEF Untrack, DroppedIsDone
  <2> QED
    BY <1>6, <2>1 DEF Untrack, RemoveTask
<1>7. ASSUME NEW h \in Handlers, PostBadBody(h) \/ LogsClose(h) \/ DeleteCall(h) \/ Request(h)
      PROVE  Goal
  <2>1. task[t] = "pending"
    BY <1>7, <1>1 DEF PostBadBody, LogsClose, DeleteCall, DeleteTask, Request, PostAdmit,
                      StatusRequest, LogsOpen, DeleteRequest
  <2>2. pc[h] # "track"
    BY <1>7 DEF PostBadBody, ReadsBody, LogsClose, DeleteCall, Request, PostAdmit,
                StatusRequest, LogsOpen, DeleteRequest
  <2>3. tracked \subseteq tracked' /\ \A k \in Handlers \ {h} : pc'[k] = pc[k] /\ arg'[k] = arg[k]
    BY <1>7 DEF PostBadBody, LogsClose, DeleteCall, Request, PostAdmit, StatusRequest,
                LogsOpen, DeleteRequest, UpdateAccess, GoTo, Return
  <2> QED
    BY <1>2, <2>1, <2>2, <2>3
<1>8. ASSUME Sweep \/ (\E id \in Ids : Examine(id)) \/ Reap \/ DetectorStops \/ Tick
             \/ UNCHANGED vars \/ \E u \in TaskIds : Worker(u)
      PROVE  Goal
  <2>1. task[t] = "pending"
    BY <1>8, <1>1 DEF Sweep, Examine, Reap, DetectorStops, Tick, DeleteTask, Worker, WorkerStart,
                      WorkerFinish, WorkerRequeue, Evict, Finished, vars
  <2>2. UNCHANGED <<tracked, pc, arg>>
    BY <1>8 DEF Sweep, Examine, Reap, DetectorStops, Tick, Worker, WorkerStart, WorkerFinish,
                WorkerRequeue, Evict, vars
  <2> QED
    BY <1>2, <2>1, <2>2
<1>9. ~Process
  BY DEF Process, Signal, Close, Exit, Crash, Restart, Running, DroppedIsDone
<1>10. ASSUME NEW h \in Handlers PROVE ~PostEnqueueError(h)
  BY DEF PostEnqueueError
<1> QED
  BY <1>3, <1>4, <1>5, <1>6, <1>7, <1>8, <1>9, <1>10 DEF Next, Handle, Detector

\* main.go:466, 591: while the broker answers, the server stays up and workers
\* give nothing back, no order of requests and sweeps makes a waiting task
\* invisible to the detector.
THEOREM WaitingIsTracked == Spec => []PendingIsTracked
<1>1. Init => TypeOK /\ RemovedOnce /\ PendingInv
  <2>1. Init => PendingInv
    BY IdsAssumption DEF Init, PendingInv, Unheard, DroppedIsDone, PendingIsTracked
  <2> QED
    BY <2>1, TypeInit, RemovedInit
<1>2. TypeOK /\ RemovedOnce /\ PendingInv /\ [Next]_vars => (TypeOK /\ RemovedOnce /\ PendingInv)'
  <2>1. ASSUME TypeOK, RemovedOnce, PendingInv, [Next]_vars PROVE PendingInv'
    BY <2>1, UnheardStep, DroppedStep, TrackedStep DEF PendingInv, Undisturbed
  <2> QED
    BY <2>1, TypeStep, RemovedStep
<1>3. PendingInv => PendingIsTracked
  BY DEF PendingInv, PendingIsTracked, Undisturbed
<1> QED
  BY <1>1, <1>2, <1>3, PTL DEF Spec
=============================================================================
