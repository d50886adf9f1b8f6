----------------------------- MODULE Retention -----------------------------
(***************************************************************************)
(* How long what a build leaves behind is there, in ticks of one clock:    *)
(* the log stream and its TTL (LogPublisher, fed by LineWriter), the files *)
(* on the Filer and theirs, the task's result and its retention, and the   *)
(* downloads that go by that result (FilerProxy of cmd/server/main.go).    *)
(*                                                                         *)
(* One attempt at a time: an attempt given back to the queue ends with its *)
(* worker, and with it what it had on its way to Redis (BuildTask has that *)
(* write).  A handler whose processor gave it up at the deadline lives on. *)
(***************************************************************************)
EXTENDS LineWriter, LogPublisher

CONSTANTS
    MaxAttempts,  \* bound: runs of the handler
    NumRenders,   \* renders of the build
    TaskTimeout,  \* asynq.Timeout, 10 min
    FilerTTL,     \* FilerUploader.ttl, 1 h
    ResultTTL     \* asynq.Retention, 24 h

ASSUME RetentionAssumption ==
    /\ MaxAttempts \in Nat
    /\ NumRenders \in Nat
    /\ TaskTimeout \in Nat \ {0}
    /\ FilerTTL \in Nat
    /\ ResultTTL \in Nat
    /\ TaskTimeout < StreamTTL
    /\ TaskTimeout < FilerTTL

VARIABLES
    job,      \* the task: "pending", "active", "completed", "archived", "gone"
    attempt,  \* attempts begun
    phase,    \* where the handler stands, "idle" without one
    waiting,  \* its processor waits for it
    age,      \* ticks since it began, counted up to StreamTTL
    next,     \* the object it uploads next
    success,  \* its buildStatus
    listed,   \* the task's result holds the manifest
    life,     \* ticks each object has left on the Filer, 0 when it is not there
    left      \* ticks the completed task has left

taskVars == <<job, attempt, waiting, listed, left>>
handlerVars == <<phase, next, success>>
vars == <<writerVars, publisherVars, taskVars, handlerVars, age, life>>

Objects == 0..NumRenders

Init ==
    /\ WriterInit
    /\ PublisherInit
    /\ job = "pending"
    /\ attempt = 0
    /\ phase = "idle"
    /\ waiting = FALSE
    /\ age = 0
    /\ next = 0
    /\ success = FALSE
    /\ listed = FALSE
    /\ life = [o \in Objects |-> 0]
    /\ left = 0

\* The handler's context: live until its processor leaves, cancelled at the
\* deadline.
Live == waiting
Cancelled == ~waiting \/ age = TaskTimeout

At(point) == phase = point /\ publish = "idle"

WriteResult(value) ==
    \/ Live /\ listed' = value
    \/ (Cancelled \/ RedisFaults) /\ UNCHANGED listed

-----------------------------------------------------------------------------
(* HandleGenerateKicadProject                                              *)

Dequeue ==
    /\ job = "pending"
    /\ attempt < MaxAttempts
    /\ job' = "active"
    /\ attempt' = attempt + 1
    /\ waiting' = TRUE
    /\ phase' = "start"
    /\ age' = 0
    /\ next' = 0
    /\ success' = FALSE
    /\ NewPublisher
    /\ UNCHANGED <<writerVars, listed, left, life>>

\* The first progress and the first marker; RunKBPlacer makes its writer.
Begin ==
    /\ At("start")
    /\ WriteResult(FALSE)
    /\ CallPublish
    /\ NewWriter
    /\ phase' = "kbplacer"
    /\ UNCHANGED <<job, attempt, waiting, left, next, success, age, life>>

\* kbplacer prints, and what a Write emits is published before it goes on.
CopyOutput ==
    /\ At("kbplacer")
    /\ \/ (\E b \in Pieces : Write(b)) /\ UNCHANGED publisherVars
       \/ EmitLine /\ CallPublish
       \/ WriteReturns /\ UNCHANGED publisherVars
    /\ UNCHANGED <<taskVars, handlerVars, age, life>>

\* RunKBPlacer returns: its deferred Close flushes.
OutputEnds ==
    /\ At("kbplacer")
    /\ CloseWriter
    /\ IF buf = <<>> THEN UNCHANGED publisherVars ELSE CallPublish
    /\ phase' = "built"
    /\ UNCHANGED <<taskVars, next, success, age, life>>

StartUpload ==
    /\ At("built")
    /\ WriteResult(FALSE)
    /\ CallPublish
    /\ NewWriter
    /\ phase' = "upload"
    /\ UNCHANGED <<job, attempt, waiting, left, next, success, age, life>>

\* Mutant: an object that the Filer still holds is not sent again.
UploadMissing ==
    /\ At("upload")
    /\ next \in Objects
    /\ Live
    /\ life' = IF life[next] = 0 THEN [life EXCEPT ![next] = FilerTTL] ELSE life
    /\ next' = next + 1
    /\ UNCHANGED <<writerVars, publisherVars, taskVars, phase, success, age>>

\* Mutant: the loop over the renders runs once too often.
UploadPast ==
    /\ At("upload")
    /\ Live
    /\ life' = [life EXCEPT ![next] = FilerTTL]
    /\ next' = next + 1
    /\ UNCHANGED <<writerVars, publisherVars, taskVars, phase, success, age>>

\* The Filer stores the object for ttl from now on, in place of an older one.
Upload ==
    /\ At("upload")
    /\ next \in Objects
    /\ Live
    /\ life' = [life EXCEPT ![next] = FilerTTL]
    /\ next' = next + 1
    /\ UNCHANGED <<writerVars, publisherVars, taskVars, phase, success, age>>

\* reportResult, the last marker, buildStatus.
Report ==
    /\ At("upload")
    /\ next \notin Objects
    /\ WriteResult(TRUE)
    /\ CallPublish
    /\ success' = TRUE
    /\ phase' = "return"
    /\ UNCHANGED <<writerVars, job, attempt, waiting, left, next, age, life>>

\* NewPCB or UploadToStorage fails.
Fail ==
    /\ At("built") \/ (At("upload") /\ next \in Objects)
    /\ WriteResult(FALSE)
    /\ NewWriter
    /\ phase' = "return"
    /\ UNCHANGED <<publisherVars, job, attempt, waiting, left, next, success, age, life>>

\* The deferred PublishEnd.
End ==
    /\ At("return")
    /\ CallPublish
    /\ phase' = "end"
    /\ UNCHANGED <<writerVars, taskVars, next, success, age, life>>

\* PublishEnd has a context of its own.
Publish ==
    /\ PublisherStep(Live \/ phase = "end", Cancelled /\ phase # "end")
    /\ UNCHANGED <<writerVars, taskVars, handlerVars, age, life>>

-----------------------------------------------------------------------------
(* asynq                                                                   *)

Settled(state) ==
    /\ waiting' = FALSE
    /\ job' = IF waiting THEN state ELSE job
    /\ left' = IF waiting /\ state = "completed" THEN ResultTTL ELSE left
    /\ UNCHANGED <<attempt, listed>>

\* The handler returned.
Return ==
    /\ At("end")
    /\ Settled(IF success THEN "completed" ELSE "archived")
    /\ phase' = "idle"
    /\ UNCHANGED <<writerVars, publisherVars, next, success, age, life>>

\* The deadline: the processor does not wait for the handler.
GiveUp ==
    /\ waiting
    /\ age = TaskTimeout
    /\ Settled("archived")
    /\ UNCHANGED <<writerVars, publisherVars, handlerVars, age, life>>

\* The worker ends with the handler in it: stopped, it has given the task back;
\* dead, the recoverer archives it.
Exit ==
    /\ phase # "idle"
    /\ \E state \in {"pending", "archived"} : Settled(state)
    /\ phase' = "idle"
    /\ publish' = "idle"
    /\ NewWriter
    /\ UNCHANGED <<expiry, expireSet, raced, next, success, age, life>>

-----------------------------------------------------------------------------
(* Time                                                                    *)

FilesAge == life' = [o \in Objects |-> IF life[o] = 0 THEN 0 ELSE life[o] - 1]

\* The processor does not wait past the deadline.
Tick ==
    /\ ~(waiting /\ age = TaskTimeout)
    /\ age' = IF phase # "idle" /\ age < StreamTTL THEN age + 1 ELSE age
    /\ KeyAges
    /\ FilesAge
    /\ IF job = "completed" /\ left > 0
       THEN left' = left - 1 /\ UNCHANGED job
       ELSE UNCHANGED left /\ job' = IF job = "completed" THEN "gone" ELSE job
    /\ UNCHANGED <<writerVars, expireSet, publish, raced, attempt, waiting, listed, handlerVars>>

-----------------------------------------------------------------------------
Handler ==
    \/ Begin \/ CopyOutput \/ OutputEnds \/ StartUpload \/ Upload \/ Report \/ Fail \/ End \/ Publish

Next == Dequeue \/ Handler \/ Return \/ GiveUp \/ Exit \/ Tick

Spec == Init /\ [][Next]_vars

-----------------------------------------------------------------------------
(* What the server makes of it                                             *)

\* successResult: the files of a SUCCESS, if its result has them.
Files == IF job = "completed" /\ listed THEN Objects ELSE {}

\* The Filer's answer for an object, and FilerProxy's.
FilerAnswer(o) == IF life[o] > 0 THEN 200 ELSE 404

FilerProxy(answer) == CASE answer = 404 -> 404 [] answer = 200 -> 200 [] OTHER -> 502

-----------------------------------------------------------------------------
(* Properties                                                              *)

TypeOK ==
    /\ WriterTypeOK
    /\ PublisherTypeOK
    /\ job \in {"pending", "active", "completed", "archived", "gone"}
    /\ attempt \in 0..MaxAttempts
    /\ phase \in {"idle", "start", "kbplacer", "built", "upload", "return", "end"}
    /\ waiting \in BOOLEAN
    /\ age \in 0..StreamTTL
    /\ next \in 0..NumRenders + 1
    /\ success \in BOOLEAN
    /\ listed \in BOOLEAN
    /\ life \in [Objects -> 0..FilerTTL]
    /\ left \in 0..ResultTTL

\* Whatever a SUCCESS lists can be downloaded for as long as the files' TTL exceeds
\* the task's timeout, counted from its completion: the zip, stored first, may be
\* older than the last render by a whole attempt, and older still if an attempt
\* before had stored it.
FilesOutlive ==
    \A o \in Files :
        ResultTTL - left < FilerTTL - TaskTimeout => FilerProxy(FilerAnswer(o)) = 200

\* The TTL of a log is armed once for a whole attempt, and that is enough: it does
\* not run out while the handler has time left, so no line is lost under a client
\* that reads, and no XADD makes the key anew, without a TTL.
BuildKeepsItsLog ==
    [][phase # "idle" /\ expireSet /\ expiry # NoKey /\ expiry' = NoKey
        => age >= TaskTimeout]_vars

\* logstream.go:29, "streamTTL guarantees cleanup": a log is left without a TTL only
\* if no EXPIRE of the last attempt succeeded, if a key of an earlier attempt ran
\* out just before it, or if the handler outlived its deadline.
LogExpires ==
    phase = "idle" /\ expiry = Never => ~expireSet \/ raced \/ age >= TaskTimeout

=============================================================================
