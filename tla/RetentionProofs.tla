-------------------------- MODULE RetentionProofs --------------------------
(* Theorems about Retention, for all TTLs and timeouts that satisfy its     *)
(* assumptions: the timeout of a task is the shortest of them.              *)
EXTENDS Retention, LineWriterProofs

\* The part of TypeOK that time is counted in.
Clocks ==
    /\ PublisherTypeOK
    /\ age \in 0..StreamTTL
    /\ next \in Nat
    /\ life \in [Objects -> 0..FilerTTL]
    /\ left \in 0..ResultTTL

\* The attempt and its processor.
Attended ==
    /\ publish # "idle" => phase # "idle"
    /\ waiting => phase # "idle" /\ age <= TaskTimeout /\ job = "active"
    /\ waiting /\ phase \notin {"return", "end"} => ~success
    /\ waiting /\ success => next \notin Objects

\* A TTL armed by the attempt has run for no longer than the attempt.
Armed ==
    phase # "idle" /\ expireSet /\ expiry # NoKey => expiry + age >= StreamTTL

\* While the attempt has time left, the key it armed is there.
Kept ==
    phase # "idle" /\ expireSet /\ ~raced /\ age < TaskTimeout => expiry # NoKey /\ expiry # Never

Excused == expiry = Never => ~expireSet \/ raced \/ age >= TaskTimeout

\* What the attempt uploaded is no older than the attempt.
Fresh == waiting => \A o \in Objects : o < next => life[o] + age >= FilerTTL

\* What was complete at the end of the attempt has aged no more than its result.
Lasting ==
    job = "completed" => \A o \in Objects : life[o] + TaskTimeout + (ResultTTL - left) >= FilerTTL

IInv == Clocks /\ Attended /\ Armed /\ Kept /\ Excused /\ Fresh /\ Lasting

LEMMA Constants ==
    /\ StreamTTL \in Nat /\ TaskTimeout \in Nat /\ FilerTTL \in Nat /\ ResultTTL \in Nat
    /\ NumRenders \in Nat
    /\ 0 < TaskTimeout /\ TaskTimeout < StreamTTL /\ TaskTimeout < FilerTTL
BY RetentionAssumption, PublisherAssumption

-----------------------------------------------------------------------------
LEMMA InitInv == Init => IInv
<1> SUFFICES ASSUME Init PROVE IInv
  OBVIOUS
<1> USE Constants DEF Init, PublisherInit
<1>1. Clocks
  <2>1. PublisherTypeOK
    <3>1. expiry \in 0..StreamTTL + 1 /\ publish = "idle"
      BY DEF NoKey
    <3>2. expireSet \in BOOLEAN /\ raced \in BOOLEAN
      BY Zenon
    <3> QED
      BY ONLY <3>1, <3>2 DEF PublisherTypeOK
  <2>2. age \in 0..StreamTTL /\ next \in Nat /\ left \in 0..ResultTTL
    OBVIOUS
  <2>3. life \in [Objects -> 0..FilerTTL]
    OBVIOUS
  <2> QED
    BY ONLY <2>1, <2>2, <2>3 DEF Clocks
<1>2. Attended
  BY DEF Attended
<1>3. Armed /\ Kept /\ Excused
  BY DEF Armed, Kept, Excused, NoKey, Never
<1>4. Fresh /\ Lasting
  BY DEF Fresh, Lasting
<1> QED
  BY <1>1, <1>2, <1>3, <1>4 DEF IInv

LEMMA ClocksStep == IInv /\ [Next]_vars => Clocks'
<1> SUFFICES ASSUME IInv, [Next]_vars PROVE Clocks'
  OBVIOUS
<1> USE Constants DEF IInv, Clocks, PublisherTypeOK, NoKey, Never
<1>1. CASE Dequeue
  <2>1. /\ UNCHANGED <<expiry, publish, raced, left, life>>
        /\ expireSet' = FALSE /\ age' = 0 /\ next' = 0
    BY <1>1 DEF Dequeue, NewPublisher
  <2>2. 0 \in 0..StreamTTL
    BY ONLY Constants
  <2> QED
    BY <2>1, <2>2 DEF Objects
<1>2. CASE Begin \/ CopyOutput \/ OutputEnds \/ StartUpload
  BY <1>2 DEF Begin, CopyOutput, OutputEnds, StartUpload, CallPublish, publisherVars, taskVars, handlerVars
<1>3. CASE Upload
  BY <1>3 DEF Upload, publisherVars, taskVars, Objects
<1>4. CASE Report \/ Fail \/ End
  BY <1>4 DEF Report, Fail, End, CallPublish, publisherVars, taskVars
<1>5. CASE Publish
  <2>1. UNCHANGED <<age, next, life, left>>
    BY <1>5 DEF Publish, taskVars, handlerVars
  <2>2. PublisherTypeOK'
    <3>1. CASE XAdd
      BY <3>1 DEF XAdd, Added
    <3>2. CASE XAddFails
      BY <3>2 DEF XAddFails, Added
    <3>3. CASE Expire
      <4>1. expiry' \in 0..StreamTTL + 1 /\ expireSet' \in BOOLEAN /\ publish' = "idle"
        BY <3>3 DEF Expire
      <4>2. raced' \in BOOLEAN
        BY <3>3, Zenon DEF Expire
      <4> QED
        BY <4>1, <4>2
    <3>4. CASE ExpireFails
      BY <3>4 DEF ExpireFails
    <3> QED
      BY <1>5, <3>1, <3>2, <3>3, <3>4 DEF Publish, PublisherStep
  <2> QED
    BY ONLY <2>1, <2>2, IInv DEF IInv, Clocks, Objects
<1>6. CASE Return \/ GiveUp
  BY <1>6 DEF Return, GiveUp, Settled, publisherVars, handlerVars
<1>7. CASE Exit
  BY <1>7 DEF Exit, Settled
<1>8. CASE Tick
  BY <1>8 DEF Tick, KeyAges, FilesAge, handlerVars
<1>9. CASE UNCHANGED vars
  BY <1>9 DEF vars, publisherVars, taskVars, handlerVars
<1> QED
  BY <1>1, <1>2, <1>3, <1>4, <1>5, <1>6, <1>7, <1>8, <1>9 DEF Next, Handler

LEMMA AttendedStep == IInv /\ [Next]_vars => Attended'
<1> SUFFICES ASSUME IInv, [Next]_vars PROVE Attended'
  OBVIOUS
<1> USE Constants DEF IInv, Attended
<1>1. CASE Dequeue
  BY <1>1 DEF Dequeue, NewPublisher, IInv, Attended
<1>2. CASE Begin \/ CopyOutput \/ OutputEnds \/ StartUpload
  <2>1. /\ UNCHANGED <<waiting, age, job, success, next>>
        /\ phase \in {"start", "kbplacer", "built"}
        /\ phase' \in {"kbplacer", "built", "upload"}
    BY <1>2 DEF Begin, CopyOutput, OutputEnds, StartUpload, At, taskVars, handlerVars
  <2> QED
    BY <2>1
<1>3. CASE Upload
  BY <1>3 DEF Upload, At, publisherVars, taskVars
<1>4. CASE Report \/ Fail \/ End
  <2>1. UNCHANGED <<waiting, age, job, next>> /\ phase # "idle" /\ phase' \in {"return", "end"}
    BY <1>4 DEF Report, Fail, End, At, taskVars
  <2>2. success' = success \/ next \notin Objects
    BY <1>4 DEF Report, Fail, End
  <2>3. UNCHANGED Objects
    BY DEF Objects
  <2> QED
    BY <2>1, <2>2, <2>3
<1>5. CASE Publish
  BY <1>5 DEF Publish, PublisherStep, XAdd, XAddFails, Expire, ExpireFails, taskVars, handlerVars
<1>6. CASE Return \/ GiveUp
  BY <1>6 DEF Return, GiveUp, At, Settled, publisherVars, handlerVars
<1>7. CASE Exit
  BY <1>7 DEF Exit, Settled
<1>8. CASE Tick
  BY <1>8 DEF Tick, handlerVars, Clocks
<1>9. CASE UNCHANGED vars
  BY <1>9 DEF vars, publisherVars, taskVars, handlerVars
<1> QED
  BY <1>1, <1>2, <1>3, <1>4, <1>5, <1>6, <1>7, <1>8, <1>9 DEF Next, Handler

-----------------------------------------------------------------------------
(* The log                                                                 *)

\* Steps that leave the key alone, of an attempt or without one.
KeyAlone ==
    /\ UNCHANGED <<expiry, expireSet, raced, age>>
    /\ phase' # "idle" => phase # "idle"

LEMMA KeySteps == IInv /\ [Next]_vars => Dequeue \/ Publish \/ Tick \/ KeyAlone
<1> SUFFICES ASSUME IInv, [Next]_vars, ~Dequeue, ~Publish, ~Tick PROVE KeyAlone
  OBVIOUS
<1> USE DEF KeyAlone, publisherVars, taskVars, handlerVars, CallPublish
<1>1. CASE Begin \/ CopyOutput \/ OutputEnds \/ StartUpload
  BY <1>1 DEF Begin, CopyOutput, OutputEnds, StartUpload, At
<1>2. CASE Upload \/ Report \/ Fail \/ End
  BY <1>2 DEF Upload, Report, Fail, End, At
<1>3. CASE Return \/ GiveUp \/ Exit
  BY <1>3 DEF Return, GiveUp, Exit, Settled, NewWriter
<1>4. CASE UNCHANGED vars
  BY <1>4 DEF vars
<1> QED
  BY <1>1, <1>2, <1>3, <1>4 DEF Next, Handler

LEMMA LogStep == IInv /\ [Next]_vars => Armed' /\ Kept' /\ Excused'
<1> SUFFICES ASSUME IInv, [Next]_vars PROVE Armed' /\ Kept' /\ Excused'
  OBVIOUS
<1> USE Constants DEF IInv, Clocks, PublisherTypeOK, Armed, Kept, Excused, NoKey, Never
<1>1. CASE Dequeue
  BY <1>1 DEF Dequeue, NewPublisher
<1>2. CASE Publish
  <2>1. phase # "idle" /\ UNCHANGED <<phase, age>>
    BY <1>2 DEF Publish, PublisherStep, XAdd, XAddFails, Expire, ExpireFails, Attended, handlerVars
  <2>2. CASE XAdd \/ XAddFails
    <3>1. UNCHANGED <<expireSet, raced>>
      BY <2>2 DEF XAdd, XAddFails
    <3>2. expiry' = expiry \/ (expiry = 0 /\ expiry' = StreamTTL + 1)
      BY <2>2 DEF XAdd, XAddFails, Added
    <3> QED
      BY <2>1, <3>1, <3>2
  <2>3. CASE Expire
    <3>1. CASE expiry = 0
      <4>1. expiry' = 0 /\ raced'
        BY <2>3, <3>1 DEF Expire
      <4> QED
        BY <4>1
    <3>2. CASE expiry # 0
      <4>1. expiry' = StreamTTL
        BY <2>3, <3>2 DEF Expire
      <4> QED
        BY <2>1, <4>1
    <3> QED
      BY <3>1, <3>2
  <2>4. CASE ExpireFails
    <3>1. UNCHANGED <<expireSet, raced>>
      BY <2>4 DEF ExpireFails
    <3>2. expiry' = expiry \/ (expiry # 0 /\ expiry' = StreamTTL)
      BY <2>4 DEF ExpireFails
    <3> QED
      BY <2>1, <3>1, <3>2
  <2> QED
    BY <1>2, <2>2, <2>3, <2>4 DEF Publish, PublisherStep
<1>3. CASE Tick
  <2>1. /\ UNCHANGED <<expireSet, raced, phase>>
        /\ age' = IF phase # "idle" /\ age < StreamTTL THEN age + 1 ELSE age
        /\ expiry' = IF expiry \in 1..StreamTTL THEN expiry - 1 ELSE expiry
    BY <1>3 DEF Tick, KeyAges, handlerVars
  <2> QED
    BY <2>1
<1>4. CASE KeyAlone
  BY <1>4 DEF KeyAlone
<1> QED
  BY <1>1, <1>2, <1>3, <1>4, KeySteps

-----------------------------------------------------------------------------
(* The files                                                               *)

LEMMA FreshStep == IInv /\ [Next]_vars => Fresh'
<1> SUFFICES ASSUME IInv, [Next]_vars PROVE Fresh'
  OBVIOUS
<1> USE Constants DEF IInv, Clocks, Fresh, Objects
<1>1. CASE Dequeue
  BY <1>1 DEF Dequeue
<1>2. CASE Begin \/ CopyOutput \/ OutputEnds \/ StartUpload
  BY <1>2 DEF Begin, CopyOutput, OutputEnds, StartUpload, taskVars, handlerVars
<1>3. CASE Upload
  BY <1>3 DEF Upload, taskVars
<1>4. CASE Report \/ Fail \/ End \/ Publish
  BY <1>4 DEF Report, Fail, End, Publish, taskVars, handlerVars
<1>5. CASE Return \/ GiveUp \/ Exit
  BY <1>5 DEF Return, GiveUp, Exit, Settled
<1>6. CASE Tick
  <2>1. waiting' => waiting /\ age < TaskTimeout /\ phase # "idle"
    BY <1>6 DEF Tick, Attended
  <2>2. waiting' => age' = age + 1
    BY <1>6, <2>1 DEF Tick
  <2>3. \A o \in Objects : life'[o] + 1 >= life[o] /\ life'[o] \in Nat
    BY <1>6 DEF Tick, FilesAge
  <2>4. next' = next
    BY <1>6 DEF Tick, handlerVars
  <2> QED
    BY <2>1, <2>2, <2>3, <2>4
<1>7. CASE UNCHANGED vars
  BY <1>7 DEF vars, taskVars, handlerVars
<1> QED
  BY <1>1, <1>2, <1>3, <1>4, <1>5, <1>6, <1>7 DEF Next, Handler

LEMMA LastingStep == IInv /\ [Next]_vars => Lasting'
<1> SUFFICES ASSUME IInv, [Next]_vars PROVE Lasting'
  OBVIOUS
<1> USE Constants DEF IInv, Clocks, Lasting
<1>1. CASE Dequeue
  BY <1>1 DEF Dequeue
<1>2. CASE Begin \/ CopyOutput \/ OutputEnds \/ StartUpload
  BY <1>2 DEF Begin, CopyOutput, OutputEnds, StartUpload, taskVars
<1>3. CASE Upload
  BY <1>3 DEF Upload, taskVars, Live, Attended
<1>4. CASE Report \/ Fail \/ End \/ Publish
  BY <1>4 DEF Report, Fail, End, Publish, taskVars
<1>5. CASE Return
  <2>1. CASE waiting /\ success
    <3>1. \A o \in Objects : o < next
      BY <2>1 DEF Attended, Objects
    <3>2. \A o \in Objects : life[o] + age >= FilerTTL
      BY <2>1, <3>1 DEF Fresh
    <3>3. age <= TaskTimeout /\ life' = life /\ left' = ResultTTL
      BY <1>5, <2>1 DEF Return, Settled, Attended
    <3> QED
      BY <3>2, <3>3
  <2>2. CASE ~(waiting /\ success)
    <3>1. life' = life /\ (job' = "completed" => job = "completed" /\ left' = left)
      BY <1>5, <2>2 DEF Return, Settled, Attended
    <3> QED
      BY <3>1
  <2> QED
    BY <2>1, <2>2
<1>6. CASE GiveUp \/ Exit
  BY <1>6 DEF GiveUp, Exit, Settled
<1>7. CASE Tick
  <2>1. \A o \in Objects : life'[o] + 1 >= life[o] /\ life'[o] \in Nat /\ life[o] \in Nat
    BY <1>7 DEF Tick, FilesAge
  <2>2. job' = "completed" => job = "completed" /\ left > 0 /\ left' = left - 1
    BY <1>7 DEF Tick
  <2> QED
    BY <2>1, <2>2
<1>8. CASE UNCHANGED vars
  BY <1>8 DEF vars, taskVars
<1> QED
  BY <1>1, <1>2, <1>3, <1>4, <1>5, <1>6, <1>7, <1>8 DEF Next, Handler

LEMMA StepInv == IInv /\ [Next]_vars => IInv'
BY ClocksStep, AttendedStep, LogStep, FreshStep, LastingStep DEF IInv

-----------------------------------------------------------------------------
\* filer.go:42 and main.go:453-455: with a task timeout below the files' TTL, a
\* listed file can be downloaded for the difference of the two after completion,
\* for all TTLs and any number of attempts.
THEOREM DownloadsLast == Spec => []FilesOutlive
<1>1. IInv => FilesOutlive
  <2> SUFFICES ASSUME IInv, NEW o \in Files, ResultTTL - left < FilerTTL - TaskTimeout
               PROVE  FilerProxy(FilerAnswer(o)) = 200
    BY DEF FilesOutlive
  <2>1. o \in Objects /\ life[o] + TaskTimeout + (ResultTTL - left) >= FilerTTL
    BY DEF Files, IInv, Lasting
  <2>2. life[o] > 0
    BY <2>1, Constants DEF IInv, Clocks
  <2> QED
    BY <2>2 DEF FilerProxy, FilerAnswer
<1> QED
  BY <1>1, InitInv, StepInv, PTL DEF Spec

\* logstream.go:29-35: a streamTTL above the task timeout need not be armed again.
THEOREM OneTTLSuffices == Spec => BuildKeepsItsLog
<1>1. IInv /\ [Next]_vars =>
        [phase # "idle" /\ expireSet /\ expiry # NoKey /\ expiry' = NoKey => age >= TaskTimeout]_vars
  <2> SUFFICES ASSUME IInv, [Next]_vars, phase # "idle", expireSet, expiry # NoKey, expiry' = NoKey
               PROVE  age >= TaskTimeout
    OBVIOUS
  <2> USE Constants DEF IInv, Clocks, PublisherTypeOK, NoKey, Never
  <2>1. CASE Tick
    BY <2>1 DEF Tick, KeyAges, Armed
  <2>2. CASE Publish
    <3>1. expiry' = expiry \/ expiry' = StreamTTL
      BY <2>2 DEF Publish, PublisherStep, XAdd, XAddFails, Expire, ExpireFails, Added
    <3> QED
      BY <3>1
  <2>3. CASE Dequeue
    BY <2>3 DEF Dequeue, NewPublisher
  <2>4. CASE KeyAlone
    BY <2>4 DEF KeyAlone
  <2> QED
    BY <2>1, <2>2, <2>3, <2>4, KeySteps
<1> QED
  BY <1>1, InitInv, StepInv, PTL DEF Spec, BuildKeepsItsLog

\* logstream.go:104-111: what can leave a log without a TTL is what LogExpires names.
THEOREM LogsAreCleanedUp == Spec => []LogExpires
<1>1. IInv => LogExpires
  BY DEF IInv, Excused, LogExpires
<1> QED
  BY <1>1, InitInv, StepInv, PTL DEF Spec
-----------------------------------------------------------------------------
(* The output of kbplacer                                                  *)

LEMMA WriterInvStep == WriterInv /\ [Next]_vars => WriterInv'
<1> SUFFICES ASSUME WriterInv, [Next]_vars PROVE WriterInv'
  OBVIOUS
<1>1. CASE Begin \/ StartUpload \/ Fail \/ Exit
  BY <1>1, NewWriterStep DEF Begin, StartUpload, Fail, Exit
<1>2. CASE CopyOutput
  BY <1>2, WriteStep, EmitLineStep, WriteReturnsStep DEF CopyOutput
<1>3. CASE OutputEnds
  BY <1>3, CloseWriterStep DEF OutputEnds
<1>4. CASE Dequeue \/ Upload \/ Report \/ End \/ Publish \/ Return \/ GiveUp \/ Tick
  BY <1>4, WriterStands DEF Dequeue, Upload, Report, End, Publish, Return, GiveUp, Tick
<1>5. CASE UNCHANGED vars
  BY <1>5, WriterStands DEF vars
<1> QED
  BY <1>1, <1>2, <1>3, <1>4, <1>5 DEF Next, Handler

LEMMA WriterInvariant == Spec => []WriterInv
<1>1. Init => WriterInv
  BY EmptyWriter DEF Init
<1> QED
  BY <1>1, WriterInvStep, PTL DEF Spec

\* logstream.go:142-164: output of any length, cut up in any way, is published as its
\* lines, none of them lost, joined or split, each without the CR of its line end.
THEOREM LinesAreTheOutput == Spec => []EmittedIsSplit
BY WriterInvariant, SplitSoFar, PTL

\* The rest of the types: what no clock counts.
Stages ==
    /\ job \in {"pending", "active", "completed", "archived", "gone"}
    /\ attempt \in 0..MaxAttempts
    /\ phase \in {"idle", "start", "kbplacer", "built", "upload", "return", "end"}
    /\ next \in 0..NumRenders + 1

Flags == waiting \in BOOLEAN /\ success \in BOOLEAN /\ listed \in BOOLEAN

LEMMA StagesStep == Stages /\ [Next]_vars => Stages'
<1> SUFFICES ASSUME Stages, [Next]_vars PROVE Stages'
  OBVIOUS
<1> USE RetentionAssumption DEF Stages, taskVars, handlerVars
<1>1. CASE Dequeue
  BY <1>1 DEF Dequeue
<1>2. CASE Begin \/ CopyOutput \/ OutputEnds \/ StartUpload
  BY <1>2 DEF Begin, CopyOutput, OutputEnds, StartUpload
<1>3. CASE Upload
  BY <1>3 DEF Upload, Objects
<1>4. CASE Report \/ Fail \/ End \/ Publish
  BY <1>4 DEF Report, Fail, End, Publish
<1>5. CASE Return \/ GiveUp \/ Exit
  BY <1>5 DEF Return, GiveUp, Exit, Settled
<1>6. CASE Tick
  BY <1>6 DEF Tick
<1>7. CASE UNCHANGED vars
  BY <1>7 DEF vars
<1> QED
  BY <1>1, <1>2, <1>3, <1>4, <1>5, <1>6, <1>7 DEF Next, Handler

LEMMA FlagsStep == Flags /\ [Next]_vars => Flags'
<1> SUFFICES ASSUME Flags, [Next]_vars PROVE Flags'
  OBVIOUS
<1> USE DEF Flags, taskVars, handlerVars
<1>1. CASE Dequeue
  BY <1>1, Zenon DEF Dequeue
<1>2. CASE Begin \/ StartUpload \/ Fail
  <2>1. waiting' = waiting /\ success' = success
    BY <1>2, Zenon DEF Begin, StartUpload, Fail
  <2>2. listed' = FALSE \/ listed' = listed
    BY <1>2, Zenon DEF Begin, StartUpload, Fail, WriteResult
  <2> QED
    BY ONLY <2>1, <2>2, Flags, Zenon DEF Flags
<1>3. CASE CopyOutput \/ OutputEnds \/ Upload \/ End \/ Publish
  BY <1>3, Zenon DEF CopyOutput, OutputEnds, Upload, End, Publish
<1>4. CASE Report
  <2>1. waiting' = waiting /\ success' = TRUE /\ (listed' = TRUE \/ listed' = listed)
    BY <1>4, Zenon DEF Report, WriteResult
  <2> QED
    BY ONLY <2>1, Flags, Zenon DEF Flags
<1>5. CASE Return \/ GiveUp \/ Exit
  <2>1. waiting' = FALSE /\ listed' = listed /\ success' = success
    BY <1>5, Zenon DEF Return, GiveUp, Exit, Settled
  <2> QED
    BY ONLY <2>1, Flags, Zenon DEF Flags
<1>6. CASE Tick
  BY <1>6, Zenon DEF Tick
<1>7. CASE UNCHANGED vars
  BY <1>7, Zenon DEF vars
<1> QED
  BY <1>1, <1>2, <1>3, <1>4, <1>5, <1>6, <1>7, Zenon DEF Next, Handler

\* The types, for all bounds.
THEOREM TypeCorrect == Spec => []TypeOK
<1>1. Init => Stages
  BY RetentionAssumption DEF Init, Stages
<1>2. Init => Flags
  BY Zenon DEF Init, Flags
<1>3. WriterInv /\ IInv /\ Stages /\ Flags => TypeOK
  BY DEF WriterInv, IInv, Clocks, Stages, Flags, TypeOK
<1> QED
  BY <1>1, <1>2, <1>3, InitInv, StepInv, StagesStep, FlagsStep, WriterInvariant, PTL DEF Spec
=============================================================================
