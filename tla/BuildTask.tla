----------------------------- MODULE BuildTask -----------------------------
(***************************************************************************)
(* One task on the worker side: HandleGenerateKicadProject of              *)
(* backend/internal/worker/task_handler.go, run by an asynq processor, and *)
(* what it leaves behind for the API server: the task's result in Redis,   *)
(* its log stream and its files on the Filer.                              *)
(*                                                                         *)
(* The handler runs in a goroutine of its own.  The processor that started *)
(* it waits for its return, for the task's deadline or for the shutdown of *)
(* the worker, settles the task or gives it back, and cancels the          *)
(* handler's context after that; the handler goes on until it notices, and *)
(* a call of it that Redis is to carry out is carried out all the same.  A *)
(* task given back is taken again: each run of the handler is an attempt.  *)
(***************************************************************************)
EXTENDS Naturals, Sequences

CONSTANTS
    MaxAttempts,  \* bound: runs of the handler for the task
    NumRenders,   \* SVG renders of the build: PCB front and back, one per sheet
    MaxLines,     \* bound: log lines of all attempts
    Panics,       \* TRUE: generation or upload may panic
    Faults,       \* TRUE: a write to Redis may fail
    Deadlines,    \* TRUE: asynq.Timeout(10 min) may expire
    Shutdowns     \* TRUE: the worker may be stopped, or die

ASSUME BoundsAssumption ==
    /\ MaxAttempts \in Nat \ {0}
    /\ NumRenders \in Nat
    /\ MaxLines \in Nat

ASSUME ProfileAssumption == {Panics, Faults, Deadlines, Shutdowns} \subseteq BOOLEAN

VARIABLES
    job,      \* asynq: the task's state
    last,     \* the latest attempt, 0 before the first
    result,   \* the task's result field: "none", a Progress without or with Files
    stream,   \* the log stream: entries [att, kind]
    stored,   \* objects on the Filer
    pc,       \* where the handler of each attempt stands
    next,     \* the object it uploads next
    posted,   \* the objects it has sent to the Filer
    lines,    \* log lines published by all of them
    status,   \* its buildStatus
    ret,      \* what it returns to asynq
    call,     \* the write that is on its way to Redis, "none" without one
    ctxDone,  \* its context is cancelled
    proc      \* its processor waits for it, or has left

brokerVars == <<job, last>>
outputVars == <<result, stream, stored>>
handlerVars == <<pc, next, posted, lines, status, ret, call>>
procVars == <<ctxDone, proc>>
vars == <<brokerVars, outputVars, handlerVars, procVars>>

Attempts == 1..MaxAttempts

\* Uploaded in this order: 0 is the zip, the rest the renders of the manifest.
Objects == 0..NumRenders

Settled == {"completed", "archived"}
Running == {"start", "generate", "upload", "report", "done", "end"}

-----------------------------------------------------------------------------
(* Redis, as the handler calls it                                          *)

\* Mutant: results are written whatever became of the context.
WriteResultAlways(a, value) == call' = [call EXCEPT ![a] = value]

\* ResultWriter.Write looks at the context once and then calls Redis without it.
WriteResult(a, value) == call' = IF ctxDone[a] THEN call ELSE [call EXCEPT ![a] = value]

\* PublishLine is best effort, and given the task's context: go-redis looks at it
\* before it sends the command.
PublishLine(a) == call' = IF ctxDone[a] THEN call ELSE [call EXCEPT ![a] = "line"]

Append1(a, kind) == stream' = Append(stream, [att |-> a, kind |-> kind])

\* Redis carries the write out, though the context was cancelled since, or it fails.
Write(a) ==
    /\ call[a] # "none"
    /\ call' = [call EXCEPT ![a] = "none"]
    /\ \/ call[a] = "line" /\ Append1(a, "line") /\ UNCHANGED result
       \/ call[a] # "line" /\ result' = call[a] /\ UNCHANGED stream
       \/ Faults /\ UNCHANGED <<result, stream>>
    /\ UNCHANGED <<brokerVars, stored, pc, next, posted, lines, status, ret, procVars>>

\* Mutant: the end entry is published with the task's context.
PublishEndBound(a) ==
    \/ ~ctxDone[a] /\ Append1(a, status[a])
    \/ (ctxDone[a] \/ Faults) /\ UNCHANGED stream

\* PublishEnd is given a fresh context.
PublishEnd(a) ==
    \/ Append1(a, status[a])
    \/ Faults /\ UNCHANGED stream

-----------------------------------------------------------------------------
Init ==
    /\ job = "pending"
    /\ last = 0
    /\ result = "none"
    /\ stream = <<>>
    /\ stored = {}
    /\ pc = [a \in Attempts |-> "unborn"]
    /\ next = [a \in Attempts |-> 0]
    /\ posted = [a \in Attempts |-> {}]
    /\ lines = 0
    /\ status = [a \in Attempts |-> "failure"]
    /\ ret = [a \in Attempts |-> "none"]
    /\ call = [a \in Attempts |-> "none"]
    /\ ctxDone = [a \in Attempts |-> FALSE]
    /\ proc = [a \in Attempts |-> "unborn"]

\* The handler stands there, and its last call has returned.
At(a, point) == pc[a] = point /\ call[a] = "none"
Goto(a, point) == pc' = [pc EXCEPT ![a] = point]

-----------------------------------------------------------------------------
(* HandleGenerateKicadProject                                              *)

\* reportProgress("Initializing task"); its error is only logged.  The payload
\* parses: the server unmarshalled the same bytes into the same type.
Begin(a) ==
    /\ At(a, "start")
    /\ WriteResult(a, "progress")
    /\ Goto(a, "generate")
    /\ UNCHANGED <<brokerVars, outputVars, next, posted, lines, status, ret, procVars>>

\* Mutant: kbplacer's pipe is still read after the handler returned.
LogStray(a) ==
    /\ At(a, "generate") \/ (At(a, "upload") /\ posted[a] = {}) \/ At(a, "done") \/ At(a, "returned")
    /\ lines < MaxLines
    /\ PublishLine(a)
    /\ lines' = lines + 1
    /\ UNCHANGED <<brokerVars, outputVars, pc, next, posted, status, ret, procVars>>

\* The worker's own markers, one before the upload and one behind it, and what
\* kbplacer prints.
Log(a) ==
    /\ At(a, "generate") \/ (At(a, "upload") /\ posted[a] = {}) \/ At(a, "done")
    /\ lines < MaxLines
    /\ PublishLine(a)
    /\ lines' = lines + 1
    /\ UNCHANGED <<brokerVars, outputVars, pc, next, posted, status, ret, procVars>>

\* NewPCB returns the manifest (module Project).  Its commands are killed when the
\* context is cancelled, which may still happen after the last of them.
Generated(a) ==
    /\ At(a, "generate")
    /\ WriteResult(a, "progress")
    /\ Goto(a, "upload")
    /\ UNCHANGED <<brokerVars, outputVars, next, posted, lines, status, ret, procVars>>

\* Mutant: the loop over the renders runs once too often.
PostPast(a) ==
    /\ At(a, "upload")
    /\ next[a] \notin posted[a]
    /\ ~ctxDone[a]
    /\ posted' = [posted EXCEPT ![a] = @ \cup {next[a]}]
    /\ UNCHANGED <<brokerVars, outputVars, pc, next, lines, status, ret, call, procVars>>

\* UploadToStorage sends the next object.
Post(a) ==
    /\ At(a, "upload")
    /\ next[a] \in Objects
    /\ next[a] \notin posted[a]
    /\ ~ctxDone[a]
    /\ posted' = [posted EXCEPT ![a] = @ \cup {next[a]}]
    /\ UNCHANGED <<brokerVars, outputVars, pc, next, lines, status, ret, call, procVars>>

\* The Filer stores it, perhaps when the attempt has long failed or died.
Land(a) ==
    /\ \E o \in posted[a] : stored' = stored \cup {o}
    /\ UNCHANGED <<brokerVars, result, stream, handlerVars, procVars>>

\* An answer counts although the context was cancelled under way.
Upload(a) ==
    /\ At(a, "upload")
    /\ next[a] \in posted[a] \cap stored
    /\ next' = [next EXCEPT ![a] = @ + 1]
    /\ UNCHANGED <<brokerVars, outputVars, pc, posted, lines, status, ret, call, procVars>>

\* It returns nil after the last one.
Uploaded(a) ==
    /\ At(a, "upload")
    /\ next[a] \notin Objects
    /\ Goto(a, "report")
    /\ UNCHANGED <<brokerVars, outputVars, next, posted, lines, status, ret, call, procVars>>

\* Mutant: the error of an upload is only logged.
FailLogged(a) ==
    /\ At(a, "upload")
    /\ next[a] \in Objects
    /\ next' = [next EXCEPT ![a] = @ + 1]
    /\ UNCHANGED <<brokerVars, outputVars, pc, posted, lines, status, ret, call, procVars>>

\* Mutant: the error is reported and not returned.
FailNil(a) ==
    /\ At(a, "generate") \/ (At(a, "upload") /\ next[a] \in Objects)
    /\ WriteResult(a, "progress")
    /\ ret' = [ret EXCEPT ![a] = "nil"]
    /\ Goto(a, "end")
    /\ UNCHANGED <<brokerVars, outputVars, next, posted, lines, status, procVars>>

\* NewPCB or UploadToStorage fails: the message is reported and returned.
Fail(a) ==
    /\ At(a, "generate") \/ (At(a, "upload") /\ next[a] \in Objects)
    /\ WriteResult(a, "progress")
    /\ ret' = [ret EXCEPT ![a] = "error"]
    /\ Goto(a, "end")
    /\ UNCHANGED <<brokerVars, outputVars, next, posted, lines, status, procVars>>

\* The deferred recover reports the panic and sets no result: the handler
\* returns the zero error, nil.
Panic(a) ==
    /\ Panics
    /\ At(a, "generate") \/ At(a, "upload")
    /\ WriteResult(a, "progress")
    /\ ret' = [ret EXCEPT ![a] = "nil"]
    /\ Goto(a, "end")
    /\ UNCHANGED <<brokerVars, outputVars, next, posted, lines, status, procVars>>

\* reportResult; its error is only logged.
Report(a) ==
    /\ At(a, "report")
    /\ WriteResult(a, "manifest")
    /\ Goto(a, "done")
    /\ UNCHANGED <<brokerVars, outputVars, next, posted, lines, status, ret, procVars>>

Succeed(a) ==
    /\ At(a, "done")
    /\ status' = [status EXCEPT ![a] = "success"]
    /\ ret' = [ret EXCEPT ![a] = "nil"]
    /\ Goto(a, "end")
    /\ UNCHANGED <<brokerVars, outputVars, next, posted, lines, call, procVars>>

\* The deferred PublishEnd, on every path, after the recover.
End(a) ==
    /\ At(a, "end")
    /\ PublishEnd(a)
    /\ Goto(a, "returned")
    /\ UNCHANGED <<brokerVars, result, stored, next, posted, lines, status, ret, call, procVars>>

-----------------------------------------------------------------------------
(* The asynq processor                                                     *)

\* A worker takes the task and starts the handler.
Dequeue(a) ==
    /\ job = "pending"
    /\ a = last + 1
    /\ job' = "active"
    /\ last' = a
    /\ Goto(a, "start")
    /\ proc' = [proc EXCEPT ![a] = "waiting"]
    /\ UNCHANGED <<outputVars, next, posted, lines, status, ret, call, ctxDone>>

\* Mutant: a processor that settled the task still gives it back on shutdown.
LeaveTwice(a, state) ==
    /\ proc[a] # "unborn"
    /\ job' = state
    /\ proc' = [proc EXCEPT ![a] = "left"]
    /\ UNCHANGED <<last, outputVars, handlerVars, ctxDone>>

\* The processor settles the task or gives it back; the handler's context is as it was.
Leave(a, state) ==
    /\ proc[a] = "waiting"
    /\ job' = state
    /\ proc' = [proc EXCEPT ![a] = "left"]
    /\ UNCHANGED <<last, outputVars, handlerVars, ctxDone>>

\* Its deferred cancel, when Redis has the task's new state.
Cancel(a) ==
    /\ proc[a] = "left"
    /\ ~ctxDone[a]
    /\ ctxDone' = [ctxDone EXCEPT ![a] = TRUE]
    /\ UNCHANGED <<brokerVars, outputVars, handlerVars, proc>>

\* Mutant: only a nil error settles the task.
SettleNil(a) ==
    /\ At(a, "returned")
    /\ ret[a] = "nil"
    /\ Leave(a, "completed")

\* The handler returned.  MaxRetry(0): an error archives the task at once.
Settle(a) ==
    /\ At(a, "returned")
    /\ Leave(a, IF ret[a] = "nil" THEN "completed" ELSE "archived")

Expire(a) ==
    /\ Deadlines
    /\ proc[a] = "waiting"
    /\ ctxDone' = [ctxDone EXCEPT ![a] = TRUE]
    /\ UNCHANGED <<brokerVars, outputVars, handlerVars, proc>>

\* The processor sees ctx.Done() and does not wait for the handler.
GiveUp(a) == ctxDone[a] /\ Leave(a, "archived")

\* A handler that is not done 8 s after SIGTERM is left behind, its task goes
\* back to the queue.
Requeue(a) == Shutdowns /\ Leave(a, "pending")

\* The process ends, at once or some time after Requeue: no defer runs.  A write that
\* it had sent may still arrive, or never; what it knew is gone.
Exit(a) ==
    /\ Shutdowns
    /\ pc[a] \in Running \cup {"returned"}
    /\ Goto(a, "dead")
    /\ ret' = [ret EXCEPT ![a] = "none"]
    /\ status' = [status EXCEPT ![a] = "failure"]
    /\ proc' = [proc EXCEPT ![a] = "left"]
    /\ ctxDone' = [ctxDone EXCEPT ![a] = TRUE]
    /\ UNCHANGED <<brokerVars, outputVars, next, posted, lines, call>>

\* The recoverer of some worker finds the lease of a dead one expired.
Recover(a) ==
    /\ job = "active"
    /\ a = last
    /\ pc[a] = "dead"
    /\ job' = "archived"
    /\ UNCHANGED <<last, outputVars, handlerVars, procVars>>

-----------------------------------------------------------------------------
\* The call returns to its handler.
Written(a) == pc[a] # "dead" /\ Write(a)

\* The write of a process that is no more.
WrittenLate(a) == pc[a] = "dead" /\ Write(a)

Advance(a) ==
    \/ Begin(a) \/ Generated(a) \/ Post(a) \/ Upload(a) \/ Uploaded(a) \/ Fail(a)
    \/ Report(a) \/ Succeed(a) \/ End(a) \/ Written(a)

Handler(a) == Advance(a) \/ Log(a) \/ Panic(a)

Processor(a) ==
    Settle(a) \/ Expire(a) \/ GiveUp(a) \/ Requeue(a) \/ Cancel(a) \/ Exit(a) \/ Recover(a)

Next == \E a \in Attempts :
    Dequeue(a) \/ Handler(a) \/ Land(a) \/ WrittenLate(a) \/ Processor(a)

Spec == Init /\ [][Next]_vars

\* The commands a build runs end, by themselves or killed with the context; the
\* processor's select takes a branch that stays ready; the recoverer runs once
\* a minute.  Nothing makes a worker take the task.
Fairness ==
    \A a \in Attempts :
        WF_vars(Advance(a)) /\ WF_vars(Settle(a) \/ GiveUp(a) \/ Recover(a))

FairSpec == Spec /\ Fairness

-----------------------------------------------------------------------------
(* What the API server makes of it                                         *)

\* KicadGetTaskStatus: an archived task always has a LastErr.  A completed one
\* is a SUCCESS whatever its result holds; successResult adds the files if the
\* result has them.
View ==
    CASE job = "pending" -> "PENDING"
      [] job = "active" -> "PROGRESS"
      [] job = "archived" -> "FAILURE"
      [] job = "completed" /\ result = "manifest" -> "SUCCESS"
      [] job = "completed" /\ result # "manifest" -> "BARE"

\* What may cost a SUCCESS its list of files.
Degraded == Panics \/ Faults \/ Deadlines

\* An attempt that was given back may still run, or have a write on its way, beside
\* the one that follows it.
Overlap == Shutdowns /\ MaxAttempts > 1

\* An attempt can write no result any more: each of its writes is carried out, lost
\* or refused.
Silent(a) == ctxDone[a] /\ call[a] \notin {"progress", "manifest"}

Ends(a) == {i \in DOMAIN stream : stream[i].att = a /\ stream[i].kind # "line"}

-----------------------------------------------------------------------------
(* Properties                                                              *)

TypeOK ==
    /\ job \in {"pending", "active"} \cup Settled
    /\ last \in 0..MaxAttempts
    /\ result \in {"none", "progress", "manifest"}
    /\ stream \in Seq([att : Attempts, kind : {"line", "success", "failure"}])
    /\ stored \subseteq Objects
    /\ pc \in [Attempts -> Running \cup {"unborn", "returned", "dead"}]
    /\ next \in [Attempts -> 0..NumRenders + 1]
    /\ posted \in [Attempts -> SUBSET Objects]
    /\ lines \in 0..MaxLines
    /\ status \in [Attempts -> {"success", "failure"}]
    /\ ret \in [Attempts -> {"none", "nil", "error"}]
    /\ call \in [Attempts -> {"none", "line", "progress", "manifest"}]
    /\ ctxDone \in [Attempts -> BOOLEAN]
    /\ proc \in [Attempts -> {"unborn", "waiting", "left"}]

\* A client told that the build is a success finds every file: neither a result
\* with a manifest nor a "success" end entry exists before the last upload is
\* through, whichever attempt wrote it and however it then ended.
SuccessIsStored ==
    result = "manifest" \/ (\E i \in DOMAIN stream : stream[i].kind = "success")
        => stored = Objects

\* Why: past the upload everything is stored, during it what has been sent.
Backed ==
    /\ \A a \in Attempts :
        /\ pc[a] \in {"unborn", "start", "generate"} => next[a] = 0 /\ posted[a] = {}
        /\ pc[a] = "upload" => 0..next[a] - 1 \subseteq stored
        /\ pc[a] \in {"report", "done"} \/ status[a] = "success" => stored = Objects
        /\ call[a] = "manifest" => stored = Objects
    /\ SuccessIsStored

\* Only the latest attempt has a processor waiting, and only while the task is
\* active; a handler returns with no call open, and a completed task's has; without
\* a shutdown there is one attempt.
Attended ==
    /\ \A a \in Attempts :
        /\ proc[a] = "waiting" => a = last /\ job = "active"
        /\ pc[a] \notin {"end", "returned", "dead"} => ret[a] = "none"
        /\ pc[a] = "dead" => proc[a] = "left" /\ ctxDone[a]
        /\ pc[a] \in {"unborn", "start", "returned"} => call[a] = "none"
        /\ a > last => pc[a] = "unborn" /\ proc[a] = "unborn" /\ ~ctxDone[a]
    /\ job = "completed" =>
        last \in Attempts /\ pc[last] \in {"returned", "dead"} /\ call[last] = "none"
    /\ ~Shutdowns => last = IF job = "pending" THEN 0 ELSE 1

\* With nothing to degrade it, an attempt about to return nil has its manifest in
\* the result, or on its way there.
Manifested ==
    ~Degraded /\ ~Overlap => \A a \in Attempts : proc[a] = "waiting" =>
        /\ ~ctxDone[a]
        /\ pc[a] = "done" =>
            call[a] = "manifest" \/ (call[a] \in {"none", "line"} /\ result = "manifest")
        /\ ret[a] = "nil" => call[a] = "none" /\ result = "manifest"

\* The end entry is an attempt's last word and it says it once: nothing the
\* handler, the kbplacer pipe or the panic recovery publishes comes after it.
EndIsLast ==
    \A i, j \in DOMAIN stream :
        i < j /\ stream[i].att = stream[j].att => stream[i].kind = "line"

\* Every attempt that returns has ended its stream, on every path and although
\* its context may be cancelled, as long as Redis takes the entry.
ReturnedHasEnded ==
    ~Faults => \A a \in Attempts : pc[a] = "returned" => Ends(a) # {}

MutedWrites ==
    /\ \A a \in Attempts : Silent(a) => Silent(a)'
    /\ result' # result => \E a \in Attempts :
        /\ ~Silent(a)
        /\ ctxDone[a] => Silent(a)'
        /\ job = "completed" => a < last

\* A handler that outlives its deadline or its worker changes the task's result at
\* most once more, with the write that had passed its check when the context was
\* cancelled, and then never; and what a completed task's result holds only an
\* attempt that was given back before can still change.
LateHandlerIsMute == [][MutedWrites]_vars

\* What a client may rely on (BuildOutcome).
Outcome == INSTANCE BuildOutcome WITH view <- View

ImplementsOutcome == Outcome!Spec

\* Where the build of an attempt stands (BuildPhases).
Phase(a) ==
    CASE next[a] \notin Objects -> "nil"
      [] next[a] \in Objects /\ pc[a] \in {"unborn", "start", "generate"} -> "generate"
      [] next[a] \in Objects /\ pc[a] = "upload" -> "upload"
      [] OTHER -> "error"

Phases == INSTANCE BuildPhases WITH
    phase <- [a \in Attempts |-> Phase(a)],
    count <- [a \in Attempts |-> NumRenders + 1],
    done <- next,
    cancelled <- ctxDone

\* What is left in BuildTask of a build is what Project leaves of it.
ImplementsPhases == Phases!Spec

\* A task that a worker took does not stay in progress: the handler returns, the
\* deadline passes, or the lease of a dead worker runs out.
ActiveSettles == job = "active" ~> job # "active"

-----------------------------------------------------------------------------
(* What the comments say, and the code does not do                         *)

\* task_handler.go:43, "buildStatus defaults to "failure" [...] so any early
\* return reports a failure": the stream and the task's status agree.
EndMatchesStatus ==
    job \in Settled =>
        \A i \in Ends(last) : stream[i].kind = "success" <=> job = "completed"

=============================================================================
