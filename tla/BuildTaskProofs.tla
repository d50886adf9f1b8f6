-------------------------- MODULE BuildTaskProofs --------------------------
(* Theorems about BuildTask, for every number of attempts and renders and   *)
(* every combination of panics, faults, deadlines and shutdowns.            *)
EXTENDS BuildTask, Integers, TLAPS

-----------------------------------------------------------------------------
(* Types                                                                   *)

LEMMA TypeInit == Init => TypeOK
<1> SUFFICES ASSUME Init PROVE TypeOK
  OBVIOUS
<1>1. 0 \in 0..MaxAttempts /\ 0 \in 0..NumRenders + 1 /\ 0 \in 0..MaxLines
  BY BoundsAssumption
<1>2. <<>> \in Seq([att : Attempts, kind : {"line", "success", "failure"}])
  OBVIOUS
<1> QED
  BY <1>1, <1>2 DEF Init, TypeOK

LEMMA AppendType ==
    ASSUME TypeOK, NEW a \in Attempts, NEW kind \in {"line", "success", "failure"}
    PROVE  Append(stream, [att |-> a, kind |-> kind])
                \in Seq([att : Attempts, kind : {"line", "success", "failure"}])
BY DEF TypeOK

\* An entry of a longer stream is an entry of the stream, or the new one.
LEMMA AppendEntries ==
    ASSUME TypeOK, NEW e \in [att : Attempts, kind : {"line", "success", "failure"}],
           NEW i \in DOMAIN Append(stream, e)
    PROVE  (i \in DOMAIN stream /\ Append(stream, e)[i] = stream[i]) \/ Append(stream, e)[i] = e
BY DEF TypeOK

\* A "success" in the stream was there before, or is what was just appended.
LEMMA AppendedSuccess ==
    ASSUME TypeOK, NEW a \in Attempts, NEW kind \in {"line", "success", "failure"},
           Append1(a, kind), NEW i \in DOMAIN stream', stream'[i].kind = "success"
    PROVE  kind = "success" \/ \E j \in DOMAIN stream : stream[j].kind = "success"
<1> DEFINE e == [att |-> a, kind |-> kind]
<1>1. e \in [att : Attempts, kind : {"line", "success", "failure"}] /\ e.kind = kind
  OBVIOUS
<1>2. stream' = Append(stream, e)
  BY DEF Append1
<1> HIDE DEF e
<1>3. (i \in DOMAIN stream /\ stream'[i] = stream[i]) \/ stream'[i] = e
  BY <1>1, <1>2, AppendEntries
<1> QED
  BY <1>1, <1>3

LEMMA DequeueFresh ==
    ASSUME TypeOK, Attended, NEW a \in Attempts, Dequeue(a)
    PROVE  pc[a] = "unborn" /\ ~ctxDone[a] /\ ret[a] = "none"
<1>1. last \in Nat /\ a = last + 1
  BY BoundsAssumption DEF TypeOK, Dequeue
<1> QED
  BY <1>1 DEF Attended

LEMMA TypeStep == TypeOK /\ [Next]_vars => TypeOK'
<1> SUFFICES ASSUME TypeOK, [Next]_vars PROVE TypeOK'
  OBVIOUS
<1> USE DEF TypeOK, Running, Settled, brokerVars, outputVars, handlerVars, procVars
<1>1. ASSUME NEW a \in Attempts, Begin(a) PROVE TypeOK'
  BY <1>1 DEF Begin, At, Goto, WriteResult
<1>2. ASSUME NEW a \in Attempts, Log(a) PROVE TypeOK'
  <2>1. lines' \in 0..MaxLines
    BY <1>2, BoundsAssumption DEF Log
  <2> QED
    BY <1>2, <2>1 DEF Log, PublishLine
<1>3. ASSUME NEW a \in Attempts, Generated(a) PROVE TypeOK'
  BY <1>3 DEF Generated, At, Goto, WriteResult
<1>4. ASSUME NEW a \in Attempts, Upload(a) PROVE TypeOK'
  <2>1. next[a] \in Objects
    BY <1>4 DEF Upload
  <2>2. next[a] + 1 \in 0..NumRenders + 1
    BY <2>1, BoundsAssumption DEF Objects
  <2> QED
    BY <1>4, <2>2 DEF Upload
<1>5. ASSUME NEW a \in Attempts, Uploaded(a) PROVE TypeOK'
  BY <1>5 DEF Uploaded, At, Goto
<1>6. ASSUME NEW a \in Attempts, Fail(a) PROVE TypeOK'
  BY <1>6 DEF Fail, At, Goto, WriteResult
<1>7. ASSUME NEW a \in Attempts, Panic(a) PROVE TypeOK'
  BY <1>7 DEF Panic, At, Goto, WriteResult
<1>8. ASSUME NEW a \in Attempts, Report(a) PROVE TypeOK'
  BY <1>8 DEF Report, At, Goto, WriteResult
<1>9. ASSUME NEW a \in Attempts, Succeed(a) PROVE TypeOK'
  BY <1>9 DEF Succeed, At, Goto
<1>10. ASSUME NEW a \in Attempts, End(a) PROVE TypeOK'
  <2>0. status[a] \in {"line", "success", "failure"}
    OBVIOUS
  <2>1. stream' \in Seq([att : Attempts, kind : {"line", "success", "failure"}])
    <3>1. CASE Append1(a, status[a])
      BY <2>0, <3>1, AppendType DEF Append1
    <3>2. CASE UNCHANGED stream
      BY <3>2
    <3> QED
      BY <1>10, <3>1, <3>2 DEF End, PublishEnd
  <2> QED
    BY <1>10, <2>1 DEF End, At, Goto
<1>11. ASSUME NEW a \in Attempts, Dequeue(a) PROVE TypeOK'
  <2>1. last' \in 0..MaxAttempts
    BY <1>11, BoundsAssumption DEF Dequeue, Attempts
  <2> QED
    BY <1>11, <2>1 DEF Dequeue, Goto
<1>12. ASSUME NEW a \in Attempts, Settle(a) PROVE TypeOK'
  BY <1>12 DEF Settle, At, Leave, Settled
<1>13. ASSUME NEW a \in Attempts, Expire(a) PROVE TypeOK'
  BY <1>13 DEF Expire
<1>14. ASSUME NEW a \in Attempts, GiveUp(a) PROVE TypeOK'
  BY <1>14 DEF GiveUp, Leave, Settled
<1>15. ASSUME NEW a \in Attempts, Requeue(a) PROVE TypeOK'
  BY <1>15 DEF Requeue, Leave
<1>16. ASSUME NEW a \in Attempts, Exit(a) PROVE TypeOK'
  BY <1>16 DEF Exit, Goto
<1>17. ASSUME NEW a \in Attempts, Recover(a) PROVE TypeOK'
  BY <1>17 DEF Recover, Settled
<1>18. CASE UNCHANGED vars
  BY <1>18 DEF vars
<1>19. ASSUME NEW a \in Attempts, Post(a) PROVE TypeOK'
  BY <1>19 DEF Post
<1>20. ASSUME NEW a \in Attempts, Land(a) PROVE TypeOK'
  BY <1>20 DEF Land
<1>21. ASSUME NEW a \in Attempts, Write(a) PROVE TypeOK'
  <2>1. stream' \in Seq([att : Attempts, kind : {"line", "success", "failure"}])
    <3>1. CASE Append1(a, "line")
      BY <3>1, AppendType DEF Append1
    <3>2. CASE UNCHANGED stream
      BY <3>2
    <3> QED
      BY <1>21, <3>1, <3>2 DEF Write
  <2>2. result' \in {"none", "progress", "manifest"}
    BY <1>21 DEF Write
  <2> QED
    BY <1>21, <2>1, <2>2 DEF Write
<1>22. ASSUME NEW a \in Attempts, Cancel(a) PROVE TypeOK'
  BY <1>22 DEF Cancel
<1> QED
  BY <1>1, <1>2, <1>3, <1>4, <1>5, <1>6, <1>7, <1>8, <1>9, <1>10, <1>11,
     <1>12, <1>13, <1>14, <1>15, <1>16, <1>17, <1>18, <1>19, <1>20,
     <1>21, <1>22
  DEF Next, Written, WrittenLate, Handler, Advance, Processor

\* Every variable keeps its type: no upload runs past the manifest, and every
\* entry of the stream is one attempt's.
THEOREM TypeCorrect == Spec => []TypeOK
BY TypeInit, TypeStep, PTL DEF Spec

-----------------------------------------------------------------------------
(* Who may still change the task                                           *)

LEMMA AttendedInit == Init => Attended
BY BoundsAssumption DEF Init, Attended, Running, Attempts

LEMMA AttendedStep == TypeOK /\ Attended /\ [Next]_vars => Attended'
<1> SUFFICES ASSUME TypeOK, Attended, [Next]_vars PROVE Attended'
  OBVIOUS
<1> USE DEF TypeOK, Attended, Running, Attempts, brokerVars, outputVars, handlerVars, procVars
<1>1. ASSUME NEW a \in Attempts, Begin(a) PROVE Attended'
  BY <1>1 DEF Begin, At, Goto, WriteResult
<1>2. ASSUME NEW a \in Attempts, Log(a) PROVE Attended'
  BY <1>2 DEF Log, At, PublishLine
<1>3. ASSUME NEW a \in Attempts, Generated(a) PROVE Attended'
  BY <1>3 DEF Generated, At, Goto, WriteResult
<1>4. ASSUME NEW a \in Attempts, Upload(a) PROVE Attended'
  BY <1>4 DEF Upload, At
<1>5. ASSUME NEW a \in Attempts, Uploaded(a) PROVE Attended'
  BY <1>5 DEF Uploaded, At, Goto
<1>6. ASSUME NEW a \in Attempts, Fail(a) PROVE Attended'
  BY <1>6 DEF Fail, At, Goto, WriteResult
<1>7. ASSUME NEW a \in Attempts, Panic(a) PROVE Attended'
  BY <1>7 DEF Panic, At, Goto, WriteResult
<1>8. ASSUME NEW a \in Attempts, Report(a) PROVE Attended'
  BY <1>8 DEF Report, At, Goto, WriteResult
<1>9. ASSUME NEW a \in Attempts, Succeed(a) PROVE Attended'
  BY <1>9 DEF Succeed, At, Goto
<1>10. ASSUME NEW a \in Attempts, End(a) PROVE Attended'
  BY <1>10 DEF End, At, Goto, PublishEnd, Append1
<1>11. ASSUME NEW a \in Attempts, Dequeue(a) PROVE Attended'
  BY <1>11 DEF Dequeue, Goto
<1>12. ASSUME NEW a \in Attempts, Settle(a) PROVE Attended'
  BY <1>12 DEF Settle, At, Leave, Settled
<1>13. ASSUME NEW a \in Attempts, Expire(a) PROVE Attended'
  BY <1>13 DEF Expire
<1>14. ASSUME NEW a \in Attempts, GiveUp(a) PROVE Attended'
  BY <1>14 DEF GiveUp, Leave, Settled
<1>15. ASSUME NEW a \in Attempts, Requeue(a) PROVE Attended'
  BY <1>15 DEF Requeue, Leave
<1>16. ASSUME NEW a \in Attempts, Exit(a) PROVE Attended'
  BY <1>16 DEF Exit, Goto
<1>17. ASSUME NEW a \in Attempts, Recover(a) PROVE Attended'
  BY <1>17 DEF Recover, Settled
<1>18. CASE UNCHANGED vars
  BY <1>18 DEF vars
<1>19. ASSUME NEW a \in Attempts, Post(a) PROVE Attended'
  BY <1>19 DEF Post, At
<1>20. ASSUME NEW a \in Attempts, Land(a) PROVE Attended'
  BY <1>20 DEF Land
<1>21. ASSUME NEW a \in Attempts, Write(a) PROVE Attended'
  <2>1. /\ UNCHANGED <<job, last, pc, ret, ctxDone, proc>>
        /\ \A b \in Attempts : call'[b] = call[b] \/ call'[b] = "none"
    BY <1>21 DEF Write
  <2> QED
    BY ONLY Attended, <2>1 DEF Attended, Running, Attempts
<1>22. ASSUME NEW a \in Attempts, Cancel(a) PROVE Attended'
  BY <1>22 DEF Cancel
<1> QED
  BY <1>1, <1>2, <1>3, <1>4, <1>5, <1>6, <1>7, <1>8, <1>9, <1>10, <1>11,
     <1>12, <1>13, <1>14, <1>15, <1>16, <1>17, <1>18, <1>19, <1>20,
     <1>21, <1>22
  DEF Next, Written, WrittenLate, Handler, Advance, Processor

-----------------------------------------------------------------------------
(* What an active task waits for                                           *)

\* What the fair actions of a task ask for: a handler that can go on or has
\* returned, with a processor that waits for it, or a worker found dead.
Expected(a) ==
    \/ proc[a] = "waiting" /\ pc[a] \in Running \cup {"returned"}
    \/ pc[a] = "dead"

ActiveIsExpected == job = "active" => last \in Attempts /\ Expected(last)

LEMMA ExpectedStep ==
    TypeOK /\ Attended /\ ActiveIsExpected /\ [Next]_vars => ActiveIsExpected'
<1> SUFFICES ASSUME TypeOK, Attended, ActiveIsExpected, [Next]_vars PROVE ActiveIsExpected'
  OBVIOUS
<1> USE DEF TypeOK, ActiveIsExpected, Expected, Running, Settled, brokerVars, outputVars,
      handlerVars, procVars
<1>1. ASSUME NEW a \in Attempts, Begin(a) \/ Generated(a) \/ Uploaded(a) PROVE ActiveIsExpected'
  BY <1>1 DEF Begin, Generated, Uploaded, At, Goto
<1>2. ASSUME NEW a \in Attempts, Post(a) \/ Upload(a) \/ Log(a) \/ Land(a) PROVE ActiveIsExpected'
  BY <1>2 DEF Post, Upload, Log, Land
<1>3. ASSUME NEW a \in Attempts, Fail(a) \/ Panic(a) \/ Report(a) PROVE ActiveIsExpected'
  BY <1>3 DEF Fail, Panic, Report, At, Goto
<1>4. ASSUME NEW a \in Attempts, Succeed(a) \/ End(a) PROVE ActiveIsExpected'
  BY <1>4 DEF Succeed, End, At, Goto
<1>5. ASSUME NEW a \in Attempts, Dequeue(a) PROVE ActiveIsExpected'
  BY <1>5 DEF Dequeue, Goto
<1>6. ASSUME NEW a \in Attempts, Settle(a) \/ GiveUp(a) \/ Requeue(a) PROVE ActiveIsExpected'
  BY <1>6 DEF Settle, GiveUp, Requeue, Leave
<1>7. ASSUME NEW a \in Attempts, Expire(a) \/ Cancel(a) \/ Recover(a) PROVE ActiveIsExpected'
  BY <1>7 DEF Expire, Cancel, Recover
<1>8. ASSUME NEW a \in Attempts, Exit(a) PROVE ActiveIsExpected'
  BY <1>8 DEF Exit, Goto
<1>9. CASE UNCHANGED vars
  BY <1>9 DEF vars
<1>10. ASSUME NEW a \in Attempts, Write(a) PROVE ActiveIsExpected'
  BY <1>10 DEF Write
<1> QED
  BY <1>1, <1>2, <1>3, <1>4, <1>5, <1>6, <1>7, <1>8, <1>9, <1>10
  DEF Next, Written, WrittenLate, Handler, Advance, Processor

\* task_handler.go:27, worker.go:46-93: no active task is ever left with nobody to
\* settle it, at any moment of a deadline, a shutdown or a death.
THEOREM ActiveAlwaysExpected == Spec => []ActiveIsExpected
<1>1. Init => ActiveIsExpected
  BY DEF Init, ActiveIsExpected
<1> QED
  BY <1>1, TypeInit, AttendedInit, TypeStep, AttendedStep, ExpectedStep, PTL DEF Spec

-----------------------------------------------------------------------------
(* A success is backed by files                                            *)

LEMMA BackedInit == Init => Backed
BY DEF Init, Backed, SuccessIsStored

LEMMA BackedStep == TypeOK /\ Attended /\ Backed /\ [Next]_vars => Backed'
<1> SUFFICES ASSUME TypeOK, Attended, Backed, [Next]_vars PROVE Backed'
  OBVIOUS
<1> USE DEF TypeOK, Attended, Backed, SuccessIsStored, Running, brokerVars, outputVars, handlerVars, procVars
<1>1. ASSUME NEW a \in Attempts, Begin(a) PROVE Backed'
  BY <1>1 DEF Begin, At, Goto, WriteResult
<1>2. ASSUME NEW a \in Attempts, Log(a) PROVE Backed'
  BY <1>2 DEF Log, PublishLine
<1>3. ASSUME NEW a \in Attempts, Generated(a) PROVE Backed'
  <2>1. 0..next[a] - 1 = {}
    BY <1>3 DEF Generated, At
  <2> QED
    BY <1>3, <2>1 DEF Generated, At, Goto, WriteResult
<1>4. ASSUME NEW a \in Attempts, Upload(a) PROVE Backed'
  <2>1. next[a] \in Nat /\ next[a] \in stored /\ 0..next[a] - 1 \subseteq stored
    BY <1>4, BoundsAssumption DEF Upload, At
  <2>2. 0..next'[a] - 1 \subseteq stored
    BY <1>4, <2>1 DEF Upload
  <2> QED
    BY <1>4, <2>2 DEF Upload, At
<1>5. ASSUME NEW a \in Attempts, Uploaded(a) PROVE Backed'
  <2>1. 0..next[a] - 1 \subseteq stored /\ next[a] = NumRenders + 1
    BY <1>5, BoundsAssumption DEF Uploaded, At, Objects
  <2>2. 0..next[a] - 1 = Objects
    BY <2>1, BoundsAssumption DEF Objects
  <2>3. stored \subseteq Objects
    OBVIOUS
  <2>4. stored = Objects
    BY ONLY <2>1, <2>2, <2>3
  <2> QED
    BY <1>5, <2>4 DEF Uploaded, At, Goto
<1>6. ASSUME NEW a \in Attempts, Fail(a) PROVE Backed'
  BY <1>6 DEF Fail, At, Goto, WriteResult
<1>7. ASSUME NEW a \in Attempts, Panic(a) PROVE Backed'
  BY <1>7 DEF Panic, At, Goto, WriteResult
<1>8. ASSUME NEW a \in Attempts, Report(a) PROVE Backed'
  BY <1>8 DEF Report, At, Goto, WriteResult
<1>9. ASSUME NEW a \in Attempts, Succeed(a) PROVE Backed'
  BY <1>9 DEF Succeed, At, Goto
<1>10. ASSUME NEW a \in Attempts, End(a) PROVE Backed'
  <2>1. \A i \in DOMAIN stream' : stream'[i].kind = "success" =>
            status[a] = "success" \/ \E j \in DOMAIN stream : stream[j].kind = "success"
    <3>1. CASE Append1(a, status[a])
      BY <3>1, AppendedSuccess
    <3>2. CASE UNCHANGED stream
      BY <3>2
    <3> QED
      BY <1>10, <3>1, <3>2 DEF End, PublishEnd
  <2> QED
    BY <1>10, <2>1 DEF End, At, Goto
<1>11. ASSUME NEW a \in Attempts, Dequeue(a) PROVE Backed'
  BY <1>11, DequeueFresh DEF Dequeue, Goto
<1>12. ASSUME NEW a \in Attempts, Settle(a) PROVE Backed'
  BY <1>12 DEF Settle, At, Leave, Settled
<1>13. ASSUME NEW a \in Attempts, Expire(a) PROVE Backed'
  BY <1>13 DEF Expire
<1>14. ASSUME NEW a \in Attempts, GiveUp(a) PROVE Backed'
  BY <1>14 DEF GiveUp, Leave, Settled
<1>15. ASSUME NEW a \in Attempts, Requeue(a) PROVE Backed'
  BY <1>15 DEF Requeue, Leave
<1>16. ASSUME NEW a \in Attempts, Exit(a) PROVE Backed'
  BY <1>16 DEF Exit, Goto
<1>17. ASSUME NEW a \in Attempts, Recover(a) PROVE Backed'
  BY <1>17 DEF Recover, Settled
<1>18. CASE UNCHANGED vars
  BY <1>18 DEF vars
<1>19. ASSUME NEW a \in Attempts, Post(a) PROVE Backed'
  BY <1>19 DEF Post, At
<1>20. ASSUME NEW a \in Attempts, Land(a) PROVE Backed'
  <2>1. stored \subseteq stored' /\ stored' \subseteq Objects
    BY <1>20 DEF Land
  <2>2. stored = Objects => stored' = Objects
    BY ONLY <2>1
  <2> QED
    BY <1>20, <2>1, <2>2 DEF Land
<1>21. ASSUME NEW a \in Attempts, Write(a) PROVE Backed'
  <2>1. \A i \in DOMAIN stream' : stream'[i].kind = "success" =>
            \E j \in DOMAIN stream : stream[j].kind = "success"
    <3>1. CASE Append1(a, "line")
      BY <3>1, AppendedSuccess
    <3>2. CASE UNCHANGED stream
      BY <3>2
    <3> QED
      BY <1>21, <3>1, <3>2 DEF Write
  <2>2. result' = "manifest" => stored = Objects
    BY <1>21 DEF Write
  <2> QED
    BY <1>21, <2>1, <2>2 DEF Write
<1>22. ASSUME NEW a \in Attempts, Cancel(a) PROVE Backed'
  BY <1>22 DEF Cancel
<1> QED
  BY <1>1, <1>2, <1>3, <1>4, <1>5, <1>6, <1>7, <1>8, <1>9, <1>10, <1>11,
     <1>12, <1>13, <1>14, <1>15, <1>16, <1>17, <1>18, <1>19, <1>20,
     <1>21, <1>22
  DEF Next, Written, WrittenLate, Handler, Advance, Processor

LEMMA BackedInvariant == Spec => [](TypeOK /\ Attended /\ Backed)
<1>1. Init => TypeOK /\ Attended /\ Backed
  BY TypeInit, AttendedInit, BackedInit
<1>2. TypeOK /\ Attended /\ Backed /\ [Next]_vars => (TypeOK /\ Attended /\ Backed)'
  BY TypeStep, AttendedStep, BackedStep
<1> QED
  BY <1>1, <1>2, PTL DEF Spec

\* task_handler.go:111-120: no attempt writes a manifest or ends the stream with
\* "success" before the Filer holds every object of the build.
THEOREM SuccessAlwaysStored == Spec => []SuccessIsStored
<1>1. Backed => SuccessIsStored
  BY DEF Backed
<1> QED
  BY <1>1, BackedInvariant, PTL

\* A cancelled attempt starts no write, and a step that changes the result is the
\* arrival of one.
LEMMA SilentStep ==
    ASSUME TypeOK, Next
    PROVE  /\ \A a \in Attempts : ctxDone[a] =>
                ctxDone'[a] /\ (call'[a] = call[a] \/ call'[a] = "none" \/ call'[a] = "line")
           /\ result' # result => \E a \in Attempts :
                call[a] \in {"progress", "manifest"} /\ call'[a] = "none"
<1> USE DEF TypeOK, brokerVars, outputVars, handlerVars, procVars
<1>1. ASSUME NEW b \in Attempts, Write(b)
      PROVE  /\ call' = [call EXCEPT ![b] = "none"] /\ ctxDone' = ctxDone
             /\ result' # result => call[b] \in {"progress", "manifest"}
  BY <1>1 DEF Write
<1>2. ASSUME NEW b \in Attempts,
             Begin(b) \/ Generated(b) \/ Fail(b) \/ Panic(b) \/ Report(b) \/ Log(b)
      PROVE  UNCHANGED <<result, ctxDone>> /\ \A a \in Attempts : ctxDone[a] => call'[a] = call[a]
  BY <1>2 DEF Begin, Generated, Fail, Panic, Report, Log, WriteResult, PublishLine
<1>3. ASSUME NEW b \in Attempts,
             \/ Dequeue(b) \/ Land(b) \/ Post(b) \/ Upload(b) \/ Uploaded(b) \/ Succeed(b) \/ End(b)
             \/ Settle(b) \/ Expire(b) \/ GiveUp(b) \/ Requeue(b) \/ Cancel(b) \/ Exit(b) \/ Recover(b)
      PROVE  UNCHANGED <<result, call>> /\ \A a \in Attempts : ctxDone[a] => ctxDone'[a]
  BY <1>3 DEF Dequeue, Land, Post, Upload, Uploaded, Succeed, End, Settle, Expire, GiveUp,
              Requeue, Cancel, Exit, Recover, Leave
<1> QED
  BY <1>1, <1>2, <1>3 DEF Next, Handler, Advance, Processor, Written, WrittenLate

\* task_handler.go:124-138, 140-156: for any number of attempts, however their
\* contexts end and their writes are delayed, an attempt that has lost its context
\* writes the result once more at most, and no attempt but one that was given back
\* writes that of a completed task.
THEOREM LateHandlersAreMute == Spec => LateHandlerIsMute
<1>1. TypeOK /\ Attended /\ [Next]_vars => [MutedWrites]_vars
  <2> SUFFICES ASSUME TypeOK, Attended, Next PROVE MutedWrites
    OBVIOUS
  <2>1. \A a \in Attempts : Silent(a) => Silent(a)'
    BY SilentStep DEF Silent
  <2>2. ASSUME result' # result
        PROVE  \E a \in Attempts :
                 ~Silent(a) /\ (ctxDone[a] => Silent(a)') /\ (job = "completed" => a < last)
    <3>1. PICK a \in Attempts : call[a] \in {"progress", "manifest"} /\ call'[a] = "none"
      BY <2>2, SilentStep
    <3>2. ~Silent(a) /\ (ctxDone[a] => Silent(a)')
      BY <3>1, SilentStep DEF Silent
    <3>3. ASSUME job = "completed" PROVE a < last
      <4>1. a # last /\ ~(a > last)
        BY <3>1, <3>3 DEF Attended
      <4> QED
        BY <4>1, BoundsAssumption DEF TypeOK, Attempts
    <3> QED
      BY <3>2, <3>3
  <2> QED
    BY <2>1, <2>2 DEF MutedWrites
<1> QED
  BY <1>1, BackedInvariant, PTL DEF Spec, LateHandlerIsMute

-----------------------------------------------------------------------------
(* How much a handler has before it                                        *)

\* Steps of a handler that are still to come at most, but for its writes: a request
\* and an answer for each object, and what is before and behind the upload.
StepsLeft(a) ==
    CASE pc[a] \in {"unborn", "start"} -> 2 * NumRenders + 8
      [] pc[a] = "generate" -> 2 * NumRenders + 7
      [] pc[a] = "upload" /\ next[a] \notin posted[a] -> 2 * (NumRenders + 1 - next[a]) + 4
      [] pc[a] = "upload" /\ next[a] \in posted[a] -> 2 * (NumRenders + 1 - next[a]) + 3
      [] pc[a] = "report" -> 3
      [] pc[a] = "done" -> 2
      [] pc[a] = "end" -> 1
      [] pc[a] \in {"returned", "dead"} -> 0

LinesLeft == MaxLines - lines

Open(a) == IF call[a] = "none" THEN 0 ELSE 1

\* A step or a line begins one write at most, whose return is a call of its own.
CallsLeft(a) == 2 * (StepsLeft(a) + LinesLeft) + Open(a)

CallsMost == 2 * (2 * NumRenders + 8 + MaxLines) + 1

HandlerAdvances ==
    \A a \in Attempts :
        /\ CallsLeft(a) \in 0..CallsMost
        /\ CallsLeft(a)' <= CallsLeft(a)
        /\ Advance(a) => CallsLeft(a)' < CallsLeft(a)

LEMMA StepsBounded ==
    ASSUME TypeOK, NEW a \in Attempts
    PROVE  StepsLeft(a) \in 0..2 * NumRenders + 8
<1>1. next[a] \in 0..NumRenders + 1 /\ NumRenders \in Nat
  BY BoundsAssumption DEF TypeOK
<1>2. pc[a] \in Running \cup {"unborn", "returned", "dead"}
  BY DEF TypeOK
<1> QED
  BY <1>1, <1>2 DEF StepsLeft, Running

LEMMA SameSteps ==
    ASSUME NEW a \in Attempts, pc'[a] = pc[a], next'[a] = next[a], posted'[a] = posted[a]
    PROVE  StepsLeft(a)' = StepsLeft(a)
BY DEF StepsLeft

LEMMA StepCounts ==
    ASSUME TypeOK, Backed, NEW a \in Attempts, Advance(a), ~Written(a)
    PROVE  StepsLeft(a)' < StepsLeft(a) /\ UNCHANGED lines
<1>0. /\ NumRenders \in Nat /\ next[a] \in 0..NumRenders + 1 /\ posted[a] \subseteq Objects
      /\ pc \in [Attempts -> Running \cup {"unborn", "returned", "dead"}]
      /\ next \in [Attempts -> 0..NumRenders + 1] /\ posted \in [Attempts -> SUBSET Objects]
  BY BoundsAssumption DEF TypeOK
<1> USE <1>0 DEF brokerVars, outputVars, handlerVars, procVars
<1>1. ASSUME Begin(a) PROVE StepsLeft(a)' < StepsLeft(a)
  <2>1. pc[a] = "start" /\ pc'[a] = "generate"
    BY <1>1 DEF Begin, At, Goto
  <2> QED
    BY <2>1 DEF StepsLeft
<1>2. ASSUME Generated(a) PROVE StepsLeft(a)' < StepsLeft(a)
  <2>1. next'[a] = 0 /\ posted'[a] = {} /\ pc[a] = "generate" /\ pc'[a] = "upload"
    BY <1>2 DEF Generated, At, Goto, Backed
  <2> QED
    BY <2>1 DEF StepsLeft
<1>3. ASSUME Post(a) PROVE StepsLeft(a)' < StepsLeft(a)
  <2>1. /\ pc[a] = "upload" /\ pc'[a] = "upload" /\ next'[a] = next[a]
        /\ next[a] \notin posted[a] /\ next[a] \in posted'[a]
    BY <1>3 DEF Post, At
  <2> QED
    BY <2>1 DEF StepsLeft
<1>4. ASSUME Upload(a) PROVE StepsLeft(a)' < StepsLeft(a)
  <2>1. /\ pc[a] = "upload" /\ pc'[a] = "upload" /\ next'[a] = next[a] + 1
        /\ next[a] \in posted[a] /\ posted'[a] = posted[a]
    BY <1>4 DEF Upload, At
  <2>2. StepsLeft(a) = 2 * (NumRenders + 1 - next[a]) + 3
    BY <2>1 DEF StepsLeft
  <2>3. StepsLeft(a)' \in {2 * (NumRenders + 1 - (next[a] + 1)) + 4,
                          2 * (NumRenders + 1 - (next[a] + 1)) + 3}
    BY <2>1 DEF StepsLeft
  <2> QED
    BY ONLY <1>0, <2>2, <2>3
<1>5. ASSUME Uploaded(a) PROVE StepsLeft(a)' < StepsLeft(a)
  <2>1. pc[a] = "upload" /\ pc'[a] = "report" /\ next[a] \notin posted[a]
    BY <1>5 DEF Uploaded, At, Goto
  <2> QED
    BY <2>1 DEF StepsLeft
<1>6. ASSUME Fail(a) PROVE StepsLeft(a)' < StepsLeft(a)
  <2>1. pc[a] \in {"generate", "upload"} /\ pc'[a] = "end"
    BY <1>6 DEF Fail, At, Goto
  <2> QED
    BY <2>1 DEF StepsLeft
<1>7. ASSUME Report(a) \/ Succeed(a) \/ End(a) PROVE StepsLeft(a)' < StepsLeft(a)
  BY <1>7 DEF Report, Succeed, End, At, Goto, StepsLeft
<1>8. UNCHANGED lines
  BY DEF Advance, Begin, Generated, Post, Upload, Uploaded, Fail, Report, Succeed, End
<1> QED
  BY <1>1, <1>2, <1>3, <1>4, <1>5, <1>6, <1>7, <1>8 DEF Advance

LEMMA RankFalls ==
    ASSUME NEW s \in Int, NEW t \in Int, NEW o \in {0, 1}, NEW p \in {0, 1}
    PROVE  /\ t < s => 2 * t + p < 2 * s + o
           /\ t <= s => 2 * t + o <= 2 * s + o
           /\ 2 * t + 0 < 2 * t + 1
OBVIOUS

\* What makes a handler's calls fewer, or leaves them as many.
LEMMA CallsFall ==
    ASSUME TypeOK, TypeOK', NEW a \in Attempts
    PROVE  /\ StepsLeft(a)' < StepsLeft(a) /\ lines' = lines => CallsLeft(a)' < CallsLeft(a)
           /\ StepsLeft(a)' = StepsLeft(a) /\ lines' = lines + 1 => CallsLeft(a)' < CallsLeft(a)
           /\ StepsLeft(a)' = StepsLeft(a) /\ lines' = lines /\ call[a] # "none" /\ call'[a] = "none"
                => CallsLeft(a)' < CallsLeft(a)
           /\ /\ StepsLeft(a)' = StepsLeft(a) \/ StepsLeft(a)' <= StepsLeft(a)
              /\ lines' = lines \/ lines' = lines + 1
              /\ call'[a] = call[a]
              => CallsLeft(a)' <= CallsLeft(a)
           /\ CallsLeft(a) \in 0..CallsMost /\ CallsLeft(a)' \in Int
<1>0. NumRenders \in Nat /\ MaxLines \in Nat
  BY BoundsAssumption
<1>1. StepsLeft(a) \in 0..2 * NumRenders + 8 /\ lines \in 0..MaxLines /\ lines' \in Int
  BY StepsBounded, BoundsAssumption DEF TypeOK
<1>2. StepsLeft(a)' \in Int
  <2>1. next'[a] \in 0..NumRenders + 1 /\ pc'[a] \in Running \cup {"unborn", "returned", "dead"}
    BY ONLY TypeOK', a \in Attempts DEF TypeOK
  <2> QED
    BY ONLY <2>1, BoundsAssumption DEF StepsLeft, Running
<1> DEFINE s == StepsLeft(a) + LinesLeft
           t == StepsLeft(a)' + (MaxLines - lines')
           o == Open(a)
           p == IF call'[a] = "none" THEN 0 ELSE 1
<1>3. s \in Int /\ t \in Int
  BY <1>0, <1>1, <1>2 DEF LinesLeft
<1>4. o \in {0, 1} /\ p \in {0, 1}
  BY DEF Open
<1>5. CallsLeft(a) = 2 * s + o /\ CallsLeft(a)' = 2 * t + p
  BY DEF CallsLeft, LinesLeft, Open
<1>6. /\ StepsLeft(a)' < StepsLeft(a) /\ lines' = lines => t < s
      /\ StepsLeft(a)' = StepsLeft(a) /\ lines' = lines + 1 => t < s
      /\ StepsLeft(a)' = StepsLeft(a) /\ lines' = lines => t = s
      /\ /\ StepsLeft(a)' = StepsLeft(a) \/ StepsLeft(a)' <= StepsLeft(a)
         /\ lines' = lines \/ lines' = lines + 1
         => t <= s
  BY <1>0, <1>1, <1>2 DEF LinesLeft
<1>7. call'[a] = call[a] => p = o
  BY DEF Open
<1>8. call[a] # "none" /\ call'[a] = "none" => p = 0 /\ o = 1
  BY DEF Open
<1>9. s \in 0..2 * NumRenders + 8 + MaxLines
  BY <1>0, <1>1 DEF LinesLeft
<1> HIDE DEF s, t, o, p
<1>10. 2 * s + o \in 0..CallsMost /\ 2 * t + p \in Int
  BY ONLY <1>0, <1>3, <1>4, <1>9 DEF CallsMost
<1>11. t < s => 2 * t + p < 2 * s + o
  BY ONLY <1>3, <1>4, RankFalls
<1>12. t <= s => 2 * t + o <= 2 * s + o
  BY ONLY <1>3, <1>4, RankFalls
<1>13. 2 * s + 0 < 2 * s + 1
  BY ONLY <1>3
<1> QED
  BY ONLY <1>5, <1>6, <1>7, <1>8, <1>10, <1>11, <1>12, <1>13

LEMMA CallsKeep ==
    ASSUME TypeOK, TypeOK', NEW a \in Attempts,
           StepsLeft(a)' = StepsLeft(a) \/ StepsLeft(a)' <= StepsLeft(a),
           lines' = lines \/ lines' = lines + 1, call'[a] = call[a]
    PROVE  CallsLeft(a)' <= CallsLeft(a)
BY CallsFall

LEMMA CallsStep ==
    ASSUME TypeOK, TypeOK', Attended, Backed, Next, NEW a \in Attempts
    PROVE  /\ CallsLeft(a)' = CallsLeft(a) \/ CallsLeft(a)' <= CallsLeft(a) \/ CallsLeft(a)' < CallsLeft(a)
           /\ Advance(a) => CallsLeft(a)' < CallsLeft(a)
<1> USE BoundsAssumption DEF TypeOK, brokerVars, outputVars, handlerVars, procVars
<1>1. ASSUME NEW b \in Attempts \ {a},
             Dequeue(b) \/ Handler(b) \/ Land(b) \/ WrittenLate(b) \/ Processor(b)
      PROVE  /\ pc'[a] = pc[a] /\ next'[a] = next[a] /\ posted'[a] = posted[a] /\ call'[a] = call[a]
             /\ lines' = lines \/ lines' = lines + 1
  <2>1. CASE Handler(b) \/ WrittenLate(b)
    BY <2>1 DEF Handler, Advance, Begin, Log, Generated, Post, Upload, Uploaded, Fail, Panic, Report,
        Succeed, End, Written, WrittenLate, Write, Goto, WriteResult, PublishLine
  <2>2. CASE Dequeue(b) \/ Land(b) \/ Processor(b)
    BY <2>2 DEF Processor, Land, Dequeue, Settle, Expire, GiveUp, Requeue, Cancel, Exit, Recover,
        Leave, Goto
  <2> QED
    BY <1>1, <2>1, <2>2
<1>2. ASSUME Dequeue(a) PROVE CallsLeft(a)' <= CallsLeft(a)
  <2>1. StepsLeft(a)' = StepsLeft(a) /\ UNCHANGED <<lines, call>>
    BY <1>2, DequeueFresh DEF Dequeue, Goto, StepsLeft
  <2> QED
    BY <2>1, CallsKeep
<1>3. ASSUME Advance(a), ~Written(a) PROVE CallsLeft(a)' < CallsLeft(a)
  BY <1>3, StepCounts, CallsFall
<1>4. ASSUME Written(a) \/ WrittenLate(a) PROVE CallsLeft(a)' < CallsLeft(a)
  <2>1. UNCHANGED <<pc, next, posted, lines>> /\ call[a] # "none" /\ call'[a] = "none"
    BY <1>4 DEF Written, WrittenLate, Write
  <2> QED
    BY <2>1, SameSteps, CallsFall
<1>5. ASSUME Log(a) PROVE CallsLeft(a)' < CallsLeft(a)
  <2>1. UNCHANGED <<pc, next, posted>> /\ lines' = lines + 1
    BY <1>5 DEF Log
  <2> QED
    BY <2>1, SameSteps, CallsFall
<1>6. ASSUME Land(a) \/ Settle(a) \/ Expire(a) \/ GiveUp(a) \/ Requeue(a) \/ Cancel(a) \/ Recover(a)
      PROVE CallsLeft(a)' <= CallsLeft(a)
  <2>1. UNCHANGED <<pc, next, posted, lines, call>>
    BY <1>6 DEF Land, Settle, Expire, GiveUp, Requeue, Cancel, Recover, Leave
  <2>2. StepsLeft(a)' = StepsLeft(a)
    BY <2>1, SameSteps
  <2> QED
    BY <2>1, <2>2, CallsKeep
<1>7. ASSUME Panic(a) PROVE CallsLeft(a)' < CallsLeft(a)
  <2>1. pc[a] \in {"generate", "upload"} /\ pc'[a] = "end" /\ lines' = lines
    BY <1>7 DEF Panic, At, Goto
  <2>2. next[a] \in 0..NumRenders + 1 /\ NumRenders \in Nat
    OBVIOUS
  <2>3. StepsLeft(a)' < StepsLeft(a)
    BY ONLY <2>1, <2>2 DEF StepsLeft
  <2> QED
    BY <2>1, <2>3, CallsFall
<1>8. ASSUME Exit(a) PROVE CallsLeft(a)' <= CallsLeft(a)
  <2>1. StepsLeft(a)' = 0 /\ UNCHANGED <<lines, call>>
    BY <1>8 DEF Exit, Goto, StepsLeft
  <2>2. StepsLeft(a)' <= StepsLeft(a)
    BY ONLY <2>1, StepsBounded, TypeOK, a \in Attempts, BoundsAssumption
  <2> QED
    BY <2>1, <2>2, CallsKeep
<1>9. ASSUME ~Advance(a)
      PROVE  CallsLeft(a)' = CallsLeft(a) \/ CallsLeft(a)' <= CallsLeft(a) \/ CallsLeft(a)' < CallsLeft(a)
  <2>1. ASSUME NEW b \in Attempts \ {a},
               Dequeue(b) \/ Handler(b) \/ Land(b) \/ WrittenLate(b) \/ Processor(b)
        PROVE  CallsLeft(a)' <= CallsLeft(a)
    <3>1. StepsLeft(a)' = StepsLeft(a)
      BY <1>1, <2>1, SameSteps
    <3>2. call'[a] = call[a] /\ (lines' = lines \/ lines' = lines + 1)
      BY <1>1, <2>1
    <3> QED
      BY <3>1, <3>2, CallsKeep
  <2> QED
    BY <1>2, <1>4, <1>5, <1>6, <1>7, <1>8, <1>9, <2>1 DEF Next, Handler, Processor
<1> QED
  BY <1>3, <1>4, <1>9

\* task_handler.go:26-122: whatever else goes on, each call of a handler leaves it
\* fewer to make, and no more than a number that its renders and lines fix: no two of
\* its steps wait for each other, and no retry, requeue or late answer gives it work
\* back.
THEOREM HandlersAdvance == Spec => [][HandlerAdvances]_vars
<1>1. TypeOK /\ Attended /\ Backed /\ [Next]_vars => [HandlerAdvances]_vars
  <2> SUFFICES ASSUME TypeOK, Attended, Backed, Next PROVE HandlerAdvances
    OBVIOUS
  <2> SUFFICES ASSUME NEW a \in Attempts
               PROVE  /\ CallsLeft(a) \in 0..CallsMost
                      /\ CallsLeft(a)' <= CallsLeft(a)
                      /\ Advance(a) => CallsLeft(a)' < CallsLeft(a)
    BY DEF HandlerAdvances
  <2>0. TypeOK'
    BY TypeStep
  <2>1. CallsLeft(a) \in 0..CallsMost /\ CallsLeft(a)' \in Int
    BY <2>0, CallsFall
  <2>2. /\ CallsLeft(a)' = CallsLeft(a) \/ CallsLeft(a)' <= CallsLeft(a) \/ CallsLeft(a)' < CallsLeft(a)
        /\ Advance(a) => CallsLeft(a)' < CallsLeft(a)
    BY <2>0, CallsStep
  <2>3. CallsLeft(a) \in Int
    BY ONLY <2>1, BoundsAssumption
  <2> HIDE DEF CallsLeft
  <2> QED
    BY ONLY <2>1, <2>2, <2>3
<1> QED
  BY <1>1, BackedInvariant, PTL DEF Spec

-----------------------------------------------------------------------------
(* The status endpoint's promise                                           *)

LEMMA ManifestedInit == Init => Manifested
BY DEF Init, Manifested

\* A handler that goes on before its report, or fails, disturbs no other.
LEMMA ManifestedKept ==
    ASSUME Manifested, UNCHANGED <<proc, ctxDone, result>>, NEW a \in Attempts,
           pc'[a] # "done", ret'[a] # "nil",
           \A b \in Attempts \ {a} : pc'[b] = pc[b] /\ ret'[b] = ret[b] /\ call'[b] = call[b]
    PROVE  Manifested'
<1>1. ASSUME ~Degraded, ~Overlap, NEW b \in Attempts, proc'[b] = "waiting"
      PROVE  /\ ~ctxDone'[b]
             /\ pc'[b] = "done" =>
                  call'[b] = "manifest" \/ (call'[b] \in {"none", "line"} /\ result' = "manifest")
             /\ ret'[b] = "nil" => call'[b] = "none" /\ result' = "manifest"
  <2>1. /\ ~ctxDone[b]
        /\ pc[b] = "done" =>
             call[b] = "manifest" \/ (call[b] \in {"none", "line"} /\ result = "manifest")
        /\ ret[b] = "nil" => call[b] = "none" /\ result = "manifest"
    BY <1>1 DEF Manifested
  <2>2. CASE b = a
    BY <2>1, <2>2
  <2>3. CASE b # a
    BY <2>1, <2>3
  <2> QED
    BY ONLY <2>2, <2>3
<1> QED
  BY <1>1 DEF Manifested, Degraded, Overlap

\* The four actions of a handler that the lemma is for.
LEMMA ManifestedWrites ==
    ASSUME TypeOK, Attended, Manifested, NEW a \in Attempts, ~Panics,
           Begin(a) \/ Generated(a) \/ Fail(a) \/ Panic(a)
    PROVE  Manifested'
<1> USE DEF brokerVars, outputVars, handlerVars, procVars
<1>1. UNCHANGED <<proc, ctxDone, result>>
  BY DEF Begin, Generated, Fail, Panic
<1>2. pc[a] \in {"start", "generate", "upload"}
  BY DEF Begin, Generated, Fail, Panic, At
<1>3. PICK p \in {"generate", "upload", "end"} : pc' = [pc EXCEPT ![a] = p]
  BY DEF Begin, Generated, Fail, Panic, Goto
<1>4. PICK value \in {"progress"} : WriteResult(a, value)
  BY DEF Begin, Generated, Fail, Panic
<1>5. ret' = ret \/ ret' = [ret EXCEPT ![a] = "error"]
  BY DEF Begin, Generated, Fail, Panic
<1>6. call' = call \/ call' = [call EXCEPT ![a] = "progress"]
  BY <1>4 DEF WriteResult
<1>7. ret[a] = "none"
  BY <1>2 DEF Attended
<1>8. pc'[a] # "done" /\ \A b \in Attempts \ {a} : pc'[b] = pc[b]
  BY <1>3 DEF TypeOK
<1>9. ret'[a] # "nil" /\ \A b \in Attempts \ {a} : ret'[b] = ret[b]
  BY <1>5, <1>7 DEF TypeOK
<1>10. \A b \in Attempts \ {a} : call'[b] = call[b]
  BY <1>6 DEF TypeOK
<1> QED
  BY ONLY <1>1, <1>8, <1>9, <1>10, Manifested, a \in Attempts, ManifestedKept

LEMMA ManifestedStep == TypeOK /\ Attended /\ Manifested /\ [Next]_vars => Manifested'
<1> SUFFICES ASSUME TypeOK, Attended, Manifested, [Next]_vars PROVE Manifested'
  OBVIOUS
<1> USE DEF TypeOK, Attended, Manifested, Degraded, Overlap, Running, brokerVars, outputVars, handlerVars, procVars
<1>0. Manifested' \/ ~Panics
  BY DEF Manifested
<1>1. ASSUME NEW a \in Attempts, Begin(a) PROVE Manifested'
  BY <1>0, <1>1, ManifestedWrites
<1>2. ASSUME NEW a \in Attempts, Log(a) PROVE Manifested'
  <2>1. UNCHANGED <<proc, ctxDone, ret, result, pc>> /\ call[a] = "none"
    BY <1>2 DEF Log, At
  <2>2. call' = call \/ call' = [call EXCEPT ![a] = "line"]
    BY <1>2 DEF Log, PublishLine
  <2>3. pc[a] \notin {"end", "returned", "dead"} \/ ret[a] = "none"
    BY <1>2 DEF Log, At
  <2>4. ret[a] = "none"
    BY <2>3
  <2>5. \A b \in Attempts \ {a} : call'[b] = call[b]
    BY ONLY <2>2, TypeOK, a \in Attempts DEF TypeOK
  <2>6. call'[a] \in {"none", "line"}
    BY ONLY <2>1, <2>2, TypeOK, a \in Attempts DEF TypeOK
  <2> QED
    BY ONLY <2>1, <2>4, <2>5, <2>6, Manifested DEF Manifested, Degraded, Overlap
<1>3. ASSUME NEW a \in Attempts, Generated(a) PROVE Manifested'
  BY <1>0, <1>3, ManifestedWrites
<1>4. ASSUME NEW a \in Attempts, Upload(a) PROVE Manifested'
  BY <1>4 DEF Upload, At
<1>5. ASSUME NEW a \in Attempts, Uploaded(a) PROVE Manifested'
  BY <1>5 DEF Uploaded, At, Goto
<1>6. ASSUME NEW a \in Attempts, Fail(a) PROVE Manifested'
  BY <1>0, <1>6, ManifestedWrites
<1>7. ASSUME NEW a \in Attempts, Panic(a) PROVE Manifested'
  BY <1>0, <1>7, ManifestedWrites
<1>8. ASSUME NEW a \in Attempts, Report(a) PROVE Manifested'
  <2>1. /\ UNCHANGED <<proc, ctxDone, ret, result>> /\ pc'[a] = "done" /\ ret[a] = "none"
        /\ \A b \in Attempts \ {a} : pc'[b] = pc[b] /\ call'[b] = call[b]
        /\ ~ctxDone[a] => call'[a] = "manifest"
    <3>1. UNCHANGED <<proc, ctxDone, ret, result>>
      BY <1>8 DEF Report
    <3>2. pc[a] = "report" /\ pc' = [pc EXCEPT ![a] = "done"]
      BY <1>8 DEF Report, At, Goto
    <3>3. call' = call \/ call' = [call EXCEPT ![a] = "manifest"]
      BY <1>8 DEF Report, WriteResult
    <3>4. ~ctxDone[a] => call' = [call EXCEPT ![a] = "manifest"]
      BY <1>8 DEF Report, WriteResult
    <3>5. pc'[a] = "done" /\ \A b \in Attempts \ {a} : pc'[b] = pc[b]
      BY ONLY <3>2, TypeOK, a \in Attempts DEF TypeOK
    <3>6. \A b \in Attempts \ {a} : call'[b] = call[b]
      BY ONLY <3>3, TypeOK, a \in Attempts DEF TypeOK
    <3>7. [call EXCEPT ![a] = "manifest"][a] = "manifest"
      BY ONLY TypeOK, a \in Attempts DEF TypeOK
    <3>8. ~ctxDone[a] => call'[a] = "manifest"
      BY <3>4, <3>7, Zenon
    <3>9. ret[a] = "none"
      BY <3>2
    <3> QED
      BY ONLY <3>1, <3>5, <3>6, <3>8, <3>9
  <2>2. CASE ~Degraded /\ ~Overlap
    <3>1. ASSUME NEW b \in Attempts, proc'[b] = "waiting"
          PROVE  /\ ~ctxDone'[b]
                 /\ pc'[b] = "done" =>
                      call'[b] = "manifest" \/ (call'[b] \in {"none", "line"} /\ result' = "manifest")
                 /\ ret'[b] = "nil" => call'[b] = "none" /\ result' = "manifest"
      <4>1. CASE b = a
        BY <2>1, <2>2, <3>1, <4>1
      <4>2. CASE b # a
        BY <2>1, <2>2, <3>1, <4>2
      <4> QED
        BY ONLY <4>1, <4>2
    <3> QED
      BY ONLY <3>1 DEF Manifested
  <2>3. CASE Degraded \/ Overlap
    BY ONLY <2>3 DEF Manifested, Degraded, Overlap
  <2> QED
    BY ONLY <2>2, <2>3
<1>9. ASSUME NEW a \in Attempts, Succeed(a) PROVE Manifested'
  BY <1>9 DEF Succeed, At, Goto
<1>10. ASSUME NEW a \in Attempts, End(a) PROVE Manifested'
  BY <1>10 DEF End, At, Goto, PublishEnd, Append1
<1>11. ASSUME NEW a \in Attempts, Dequeue(a) PROVE Manifested'
  <2>1. pc'[a] = "start" /\ ~ctxDone'[a] /\ ret'[a] = "none"
    BY <1>11, DequeueFresh DEF Dequeue, Goto
  <2>2. \A b \in Attempts : proc'[b] = "waiting" => b = a
    BY <1>11 DEF Dequeue
  <2> QED
    BY ONLY <2>1, <2>2 DEF Manifested
<1>12. ASSUME NEW a \in Attempts, Settle(a) PROVE Manifested'
  BY <1>12 DEF Settle, At, Leave, Settled
<1>13. ASSUME NEW a \in Attempts, Expire(a) PROVE Manifested'
  BY <1>13 DEF Expire
<1>14. ASSUME NEW a \in Attempts, GiveUp(a) PROVE Manifested'
  BY <1>14 DEF GiveUp, Leave, Settled
<1>15. ASSUME NEW a \in Attempts, Requeue(a) PROVE Manifested'
  BY <1>15 DEF Requeue, Leave
<1>16. ASSUME NEW a \in Attempts, Exit(a) PROVE Manifested'
  BY <1>16 DEF Exit, Goto
<1>17. ASSUME NEW a \in Attempts, Recover(a) PROVE Manifested'
  BY <1>17 DEF Recover, Settled
<1>18. CASE UNCHANGED vars
  BY <1>18 DEF vars
<1>19. ASSUME NEW a \in Attempts, Post(a) PROVE Manifested'
  BY <1>19 DEF Post, At
<1>20. ASSUME NEW a \in Attempts, Land(a) PROVE Manifested'
  BY <1>20 DEF Land
<1>21. ASSUME NEW a \in Attempts, Write(a) PROVE Manifested'
  <2>1. /\ UNCHANGED <<pc, ret, ctxDone, proc>>
        /\ call[a] # "none" /\ call'[a] = "none"
        /\ \/ call[a] = "line" /\ result' = result
           \/ call[a] # "line" /\ result' = call[a]
           \/ Faults
    BY <1>21 DEF Write
  <2>2. ASSUME ~Degraded, ~Overlap, NEW b \in Attempts, proc[b] = "waiting"
        PROVE  b = a
    <3>1. b = last /\ job = "active" /\ last \in 0..MaxAttempts
      BY <2>2
    <3>2. ~(a > last) /\ a \in 1..MaxAttempts
      BY ONLY <2>1, Attended, a \in Attempts DEF Attended, Attempts
    <3>3. ~Shutdowns \/ ~(MaxAttempts > 1)
      BY <2>2, ProfileAssumption
    <3>4. CASE ~Shutdowns
      <4>1. last = 1
        BY <3>1, <3>4
      <4> QED
        BY ONLY <3>1, <3>2, <4>1
    <3>5. CASE ~(MaxAttempts > 1)
      BY ONLY <3>1, <3>2, <3>5, b \in 1..MaxAttempts, BoundsAssumption
    <3> QED
      BY <3>3, <3>4, <3>5
  <2>3. ASSUME ~Degraded, ~Overlap, proc[a] = "waiting"
        PROVE  /\ ~ctxDone'[a]
               /\ pc'[a] = "done" => call'[a] = "none" /\ result' = "manifest"
               /\ ret'[a] = "nil" => call'[a] = "none" /\ result' = "manifest"
    BY <2>1, <2>3
  <2>4. CASE ~Degraded /\ ~Overlap
    <3>1. \A b \in Attempts : proc[b] = "waiting" => b = a
      BY <2>2, <2>4
    <3>2. proc[a] = "waiting" =>
            /\ ~ctxDone'[a]
            /\ pc'[a] = "done" => call'[a] = "none" /\ result' = "manifest"
            /\ ret'[a] = "nil" => call'[a] = "none" /\ result' = "manifest"
      BY <2>3, <2>4
    <3> QED
      BY ONLY <2>1, <3>1, <3>2 DEF Manifested
  <2>5. CASE Degraded \/ Overlap
    BY ONLY <2>5 DEF Manifested, Degraded, Overlap
  <2> QED
    BY ONLY <2>4, <2>5
<1>22. ASSUME NEW a \in Attempts, Cancel(a) PROVE Manifested'
  BY <1>22 DEF Cancel
<1> QED
  BY <1>1, <1>2, <1>3, <1>4, <1>5, <1>6, <1>7, <1>8, <1>9, <1>10, <1>11,
     <1>12, <1>13, <1>14, <1>15, <1>16, <1>17, <1>18, <1>19, <1>20,
     <1>21, <1>22
  DEF Next, Written, WrittenLate, Handler, Advance, Processor

LEMMA OutcomeStep ==
    TypeOK /\ Attended /\ Backed /\ Manifested /\ [Next]_vars => [Outcome!Next]_(Outcome!vars)
<1> SUFFICES ASSUME TypeOK, Attended, Backed, Manifested, [Next]_vars
             PROVE  [Outcome!Next]_(Outcome!vars)
  OBVIOUS
<1> USE DEF Outcome!vars, brokerVars, outputVars, handlerVars, procVars
<1>1. ASSUME NEW a \in Attempts, Handler(a), ~Written(a) PROVE UNCHANGED Outcome!vars
  <2>1. UNCHANGED <<job, stored, result>>
    BY <1>1 DEF Handler, Advance, Begin, Log, Generated, Post, Upload, Uploaded, Fail, Panic,
                Report, Succeed, End
  <2> QED
    BY <2>1 DEF View
\* A write shows in the status of a completed task only, and only an attempt that was
\* given back may still bring one there.
<1>9. ASSUME NEW a \in Attempts, Write(a) PROVE [Outcome!Next]_(Outcome!vars)
  <2>1. UNCHANGED <<job, stored>>
    BY <1>9 DEF Write
  <2>2. CASE job # "completed" \/ result' = result
    BY <2>1, <2>2 DEF View
  <2>3. CASE job = "completed" /\ result' # result
    <3>1. call[a] \in {"progress", "manifest"} /\ result' = call[a]
      BY <1>9, <2>3 DEF Write, TypeOK
    <3>2. Overlap
      <4>1. a # last /\ last \in Attempts /\ ~(a > last)
        BY <2>3, <3>1 DEF Attended
      <4>2. last > 1 /\ MaxAttempts > 1
        BY <4>1, BoundsAssumption DEF Attempts
      <4> QED
        BY <4>2, ProfileAssumption DEF Attended, Overlap
    <3>3. result' = "manifest" => stored = Objects
      BY <3>1 DEF Backed
    <3> QED
      BY <2>1, <2>3, <3>1, <3>2, <3>3 DEF View, Outcome!Next, Outcome!LoseFiles,
        Outcome!RegainFiles, Outcome!Move
  <2> QED
    BY <2>2, <2>3
<1>2. ASSUME NEW a \in Attempts, Land(a) PROVE \E o \in Objects : Outcome!Store(o)
  BY <1>2 DEF TypeOK, Land, View, Outcome!Store
<1>3. ASSUME NEW a \in Attempts, Dequeue(a) PROVE Outcome!Start
  BY <1>3 DEF Dequeue, View, Outcome!Start, Outcome!Move
<1>4. ASSUME NEW a \in Attempts, Settle(a) PROVE Outcome!Next
  <2>1. job = "active" /\ proc[a] = "waiting" /\ UNCHANGED <<stored, result>>
    BY <1>4 DEF Settle, Leave, Attended
  <2>2. CASE ret[a] # "nil"
    BY <1>4, <2>1, <2>2 DEF Settle, Leave, View, Outcome!Next, Outcome!Fail, Outcome!Move
  <2>3. CASE ret[a] = "nil" /\ result = "manifest"
    BY <1>4, <2>1, <2>3 DEF Settle, Leave, View, Backed, SuccessIsStored, Outcome!Next,
                            Outcome!Succeed, Outcome!Move
  <2>4. CASE ret[a] = "nil" /\ result # "manifest"
    <3>1. Degraded \/ Overlap
      BY <2>1, <2>4 DEF Manifested
    <3> QED
      BY <1>4, <2>1, <2>4, <3>1 DEF Settle, Leave, View, Outcome!Next, Outcome!SucceedBare,
                                    Outcome!Move
  <2> QED
    BY <2>2, <2>3, <2>4
<1>5. ASSUME NEW a \in Attempts, GiveUp(a) \/ Recover(a) PROVE Outcome!Fail
  BY <1>5 DEF GiveUp, Recover, Leave, Attended, View, Outcome!Fail, Outcome!Move
<1>6. ASSUME NEW a \in Attempts, Requeue(a) PROVE Outcome!GiveBack
  BY <1>6 DEF Requeue, Leave, Attended, View, Outcome!GiveBack, Outcome!Move
<1>7. ASSUME NEW a \in Attempts, Expire(a) \/ Cancel(a) \/ Exit(a) PROVE UNCHANGED Outcome!vars
  BY <1>7 DEF Expire, Cancel, Exit, View
<1>8. CASE UNCHANGED vars
  BY <1>8 DEF vars, View
<1> QED
  BY <1>1, <1>2, <1>3, <1>4, <1>5, <1>6, <1>7, <1>8, <1>9
  DEF Next, Written, WrittenLate, Processor, Outcome!Next

\* Whatever happens to its attempts, a client sees a task go from PENDING through
\* PROGRESS to one verdict, and a SUCCESS with files only over a full Filer; a
\* SUCCESS without them takes a panic, a failing write, a deadline or an attempt
\* that was given back.
THEOREM Refinement == Spec => ImplementsOutcome
<1> DEFINE IInv == TypeOK /\ Attended /\ Backed /\ Manifested
<1>1. Init => IInv /\ Outcome!Init
  BY TypeInit, AttendedInit, BackedInit, ManifestedInit DEF Init, View, Outcome!Init
<1>2. IInv /\ [Next]_vars => IInv'
  BY TypeStep, AttendedStep, BackedStep, ManifestedStep
<1>3. IInv /\ [Next]_vars => [Outcome!Next]_(Outcome!vars)
  BY OutcomeStep
<1> HIDE DEF IInv
<1> QED
  BY <1>1, <1>2, <1>3, PTL DEF Spec, ImplementsOutcome, Outcome!Spec

-----------------------------------------------------------------------------
(* The build and its Filer                                                 *)

PhaseMap == [a \in Attempts |-> Phase(a)]

\* An attempt's phase moves with its program point and its next object only.
LEMMA OnePhase ==
    ASSUME NEW a \in Attempts, NEW p, Phase(a)' = p,
           \A b \in Attempts \ {a} : pc'[b] = pc[b] /\ next'[b] = next[b]
    PROVE  PhaseMap' = [PhaseMap EXCEPT ![a] = p]
BY DEF PhaseMap, Phase

LEMMA SamePhases ==
    ASSUME UNCHANGED next, UNCHANGED pc
    PROVE  UNCHANGED PhaseMap
BY DEF PhaseMap, Phase

LEMMA PhaseStays ==
    ASSUME NEW a \in Attempts, Phase(a)' = Phase(a),
           \A b \in Attempts \ {a} : pc'[b] = pc[b] /\ next'[b] = next[b]
    PROVE  UNCHANGED PhaseMap
BY DEF PhaseMap, Phase

LEMMA StillPhases ==
    ASSUME UNCHANGED PhaseMap, UNCHANGED <<next, posted, ctxDone, stored>>
    PROVE  UNCHANGED Phases!vars
BY DEF PhaseMap, Phases!vars

\* The build moves with its attempt: what the worker does besides is a stutter.
LEMMA PhasesStep ==
    TypeOK /\ Attended /\ Backed /\ [Next]_vars => [Phases!Next]_(Phases!vars)
<1> SUFFICES ASSUME TypeOK, Attended, Backed, [Next]_vars
             PROVE  [Phases!Next]_(Phases!vars)
  OBVIOUS
<1> USE DEF TypeOK, Phases!vars, brokerVars, outputVars, handlerVars, procVars
<1>0. \A a \in Attempts : pc[a] \in {"unborn", "start", "generate"} => next[a] \in Objects
  BY BoundsAssumption DEF Backed, Objects
<1>1. ASSUME NEW a \in Attempts, Begin(a) PROVE UNCHANGED Phases!vars
  <2>1. Phase(a)' = Phase(a)
    BY <1>1 DEF Begin, At, Goto, Phase
  <2>2. \A b \in Attempts \ {a} : pc'[b] = pc[b] /\ next'[b] = next[b]
    BY <1>1 DEF Begin, Goto
  <2>3. UNCHANGED PhaseMap
    BY ONLY <2>1, <2>2, a \in Attempts, PhaseStays
  <2>4. UNCHANGED <<next, posted, ctxDone, stored>>
    BY <1>1 DEF Begin
  <2> QED
    BY ONLY <2>3, <2>4, StillPhases
<1>2. ASSUME NEW a \in Attempts, Generated(a) PROVE Phases!Generated(a)
  <2>1. Phase(a) = "generate" /\ Phase(a)' = "upload"
    BY <1>0, <1>2 DEF Generated, At, Goto, Phase
  <2>2. PhaseMap' = [PhaseMap EXCEPT ![a] = "upload"]
    BY <1>2, <2>1, OnePhase DEF Generated, Goto
  <2>3. NumRenders + 1 \in Nat \ {0}
    BY BoundsAssumption
  <2> QED
    BY <1>2, <2>1, <2>2, <2>3 DEF Generated, Phases!Generated, PhaseMap
<1>3. ASSUME NEW a \in Attempts, Post(a) PROVE Phases!Send(a)
  <2>1. Phase(a) = "upload" /\ UNCHANGED PhaseMap
    BY <1>3, SamePhases DEF Post, At, Phase
  <2> QED
    BY <1>3, <2>1 DEF Post, Phases!Send, PhaseMap
<1>4. ASSUME NEW a \in Attempts, Land(a) PROVE Phases!Land(a)
  BY <1>4, SamePhases DEF Land, Phases!Land, PhaseMap
<1>5. ASSUME NEW a \in Attempts, Upload(a) PROVE Phases!Answered(a)
  <2>1. next[a] \in Objects /\ next'[a] = next[a] + 1 /\ pc'[a] = "upload"
    BY <1>5 DEF Upload, At
  <2>2. Phase(a) = "upload"
    BY <1>5, <2>1 DEF Upload, At, Phase
  <2>3. next[a] + 1 \in Objects <=> next[a] + 1 # NumRenders + 1
    BY ONLY <2>1, BoundsAssumption DEF Objects
  <2>4. Phase(a)' = IF next[a] + 1 = NumRenders + 1 THEN "nil" ELSE "upload"
    BY <2>1, <2>3 DEF Phase
  <2>5. PhaseMap' = [PhaseMap EXCEPT ![a] = IF next[a] + 1 = NumRenders + 1 THEN "nil" ELSE "upload"]
    BY <1>5, <2>4, OnePhase DEF Upload
  <2> QED
    BY <1>5, <2>2, <2>5 DEF Upload, Phases!Answered, PhaseMap
<1>6. ASSUME NEW a \in Attempts, Log(a) \/ Write(a) \/ Settle(a) \/ GiveUp(a) \/ Requeue(a) \/ Recover(a)
      PROVE  UNCHANGED Phases!vars
  BY <1>6, SamePhases DEF Log, Write, Settle, GiveUp, Requeue, Leave, Recover, PhaseMap
<1>7. ASSUME NEW a \in Attempts, Uploaded(a) \/ Report(a) \/ Succeed(a) \/ End(a)
      PROVE  UNCHANGED Phases!vars
  <2>1. Phase(a)' = Phase(a) /\ \A b \in Attempts \ {a} : pc'[b] = pc[b] /\ next'[b] = next[b]
    BY <1>7 DEF Uploaded, Report, Succeed, End, At, Goto, Phase
  <2>2. UNCHANGED <<next, posted, ctxDone, stored>>
    BY <1>7 DEF Uploaded, Report, Succeed, End
  <2> QED
    BY ONLY <2>1, <2>2, PhaseStays, StillPhases, a \in Attempts
<1>8. ASSUME NEW a \in Attempts, Dequeue(a) PROVE UNCHANGED Phases!vars
  <2>1. Phase(a)' = Phase(a)
    BY <1>8, DequeueFresh DEF Dequeue, Goto, Phase
  <2> QED
    BY <1>8, <2>1, OnePhase DEF Dequeue, Goto, PhaseMap
\* A handler that fails once everything is acknowledged has a build that did not.
<1>9. ASSUME NEW a \in Attempts, Fail(a) \/ Panic(a)
      PROVE  UNCHANGED Phases!vars \/ Phases!Fails(a)
  <2>1. \/ Phase(a) \in {"generate", "upload"} /\ Phase(a)' = "error"
        \/ Phase(a)' = Phase(a)
    BY <1>0, <1>9 DEF Fail, Panic, At, Goto, Phase
  <2>2. PhaseMap' = [PhaseMap EXCEPT ![a] = Phase(a)']
    BY <1>9, OnePhase DEF Fail, Panic, Goto
  <2>3. UNCHANGED <<next, posted, ctxDone, stored>>
    BY <1>9 DEF Fail, Panic
  <2>4. CASE Phase(a)' = Phase(a)
    <3>1. \A b \in Attempts \ {a} : pc'[b] = pc[b] /\ next'[b] = next[b]
      BY <1>9 DEF Fail, Panic, Goto
    <3> QED
      BY ONLY <2>3, <2>4, <3>1, PhaseStays, StillPhases, a \in Attempts
  <2>5. CASE Phase(a) \in {"generate", "upload"} /\ Phase(a)' = "error"
    BY <2>2, <2>3, <2>5 DEF Phases!Fails, PhaseMap
  <2> QED
    BY <2>1, <2>4, <2>5
<1>10. ASSUME NEW a \in Attempts, Expire(a) \/ Cancel(a)
       PROVE  Phases!Cancel(a)
  BY <1>10, SamePhases DEF Expire, Cancel, Phases!Cancel, PhaseMap
<1>11. ASSUME NEW a \in Attempts, Exit(a) PROVE Phases!Fails(a) \/ Phases!Cancel(a)
  <2>1. \/ Phase(a) \in {"generate", "upload"} /\ Phase(a)' = "error"
        \/ Phase(a)' = Phase(a)
    BY <1>0, <1>11 DEF Exit, Goto, Phase, Running
  <2>2. PhaseMap' = [PhaseMap EXCEPT ![a] = Phase(a)']
    BY <1>11, OnePhase DEF Exit, Goto
  <2>3. UNCHANGED <<next, posted, stored>> /\ ctxDone' = [ctxDone EXCEPT ![a] = TRUE]
    BY <1>11 DEF Exit
  <2>4. CASE Phase(a)' = Phase(a)
    <3>1. \A b \in Attempts \ {a} : pc'[b] = pc[b] /\ next'[b] = next[b]
      BY <1>11 DEF Exit, Goto
    <3>2. UNCHANGED PhaseMap
      BY ONLY <2>4, <3>1, PhaseStays, a \in Attempts
    <3> QED
      BY ONLY <2>3, <3>2 DEF Phases!Cancel, PhaseMap
  <2>5. CASE Phase(a) \in {"generate", "upload"} /\ Phase(a)' = "error"
    BY ONLY <2>2, <2>3, <2>5, a \in Attempts DEF Phases!Fails, PhaseMap
  <2> QED
    BY ONLY <2>1, <2>4, <2>5
<1>12. CASE UNCHANGED vars
  BY <1>12, SamePhases DEF vars, PhaseMap
<1> QED
  BY <1>1, <1>2, <1>3, <1>4, <1>5, <1>6, <1>7, <1>8, <1>9, <1>10, <1>11, <1>12
  DEF Next, Written, WrittenLate, Handler, Advance, Processor, Phases!Next, Phases!Step

\* task_handler.go:86-107: for every number of attempts and renders, and however they
\* overlap, the builds of a task's attempts meet on the Filer as BuildPhases says:
\* whatever comes of a build is what Project leaves of it.
THEOREM BuildsArePhases == Spec => ImplementsPhases
<1> DEFINE IInv == TypeOK /\ Attended /\ Backed
<1>1. Init => IInv
  BY TypeInit, AttendedInit, BackedInit
<1>2. Init => Phases!Init
  BY BoundsAssumption DEF Init, Phases!Init, Phase, Objects
<1>3. IInv /\ [Next]_vars => IInv'
  BY TypeStep, AttendedStep, BackedStep
<1>4. IInv /\ [Next]_vars => [Phases!Next]_(Phases!vars)
  BY PhasesStep
<1> HIDE DEF IInv
<1> QED
  BY <1>1, <1>2, <1>3, <1>4, PTL DEF Spec, ImplementsPhases, Phases!Spec

-----------------------------------------------------------------------------
(* The end of the stream                                                   *)

Over == {"returned", "dead"}

\* An end entry is followed by the return of its attempt, which has no line on its way.
EndCloses ==
    \A i \in DOMAIN stream : stream[i].kind # "line" =>
        pc[stream[i].att] \in Over /\ call[stream[i].att] = "none"

\* It is over, and what it had to say is said.
Closed(a) == pc[a] \in Over /\ call[a] = "none"

Said(a, kind) ==
    /\ a \in Attempts
    /\ kind \in {"line", "success", "failure"}
    /\ ~Closed(a)
    /\ Append1(a, kind)
    /\ kind # "line" => pc'[a] = "returned" /\ call'[a] = "none"

\* A step says nothing, or one entry of an attempt that is not closed; an attempt
\* that is closed stays so, and none returns without its end, unless Redis fails.
StreamMoves ==
    /\ \A b \in Attempts : Closed(b) => Closed(b)'
    /\ UNCHANGED stream \/ \E a \in Attempts, kind \in {"line", "success", "failure"} : Said(a, kind)
    /\ \A b \in Attempts : ~Faults /\ pc'[b] = "returned" /\ pc[b] # "returned" =>
            Said(b, status[b]) /\ status[b] # "line"

LEMMA StreamStep == TypeOK /\ Attended /\ [Next]_vars => StreamMoves
<1> SUFFICES ASSUME TypeOK, Attended, [Next]_vars PROVE StreamMoves
  OBVIOUS
<1> USE DEF TypeOK, Running, Over, Closed, brokerVars, outputVars, handlerVars, procVars
<1>1. ASSUME NEW a \in Attempts, Begin(a) \/ Generated(a) \/ Post(a) \/ Upload(a) \/ Uploaded(a)
      PROVE  StreamMoves
  BY <1>1 DEF Begin, Generated, Post, Upload, Uploaded, At, Goto, WriteResult, StreamMoves
<1>2. ASSUME NEW a \in Attempts, Fail(a) \/ Panic(a) \/ Report(a) \/ Succeed(a) PROVE StreamMoves
  BY <1>2 DEF Fail, Panic, Report, Succeed, At, Goto, WriteResult, StreamMoves
<1>3. ASSUME NEW a \in Attempts, Log(a) PROVE StreamMoves
  BY <1>3 DEF Log, At, PublishLine, StreamMoves
<1>4. ASSUME NEW a \in Attempts, End(a) PROVE StreamMoves
  <2>1. /\ pc[a] = "end" /\ pc' = [pc EXCEPT ![a] = "returned"] /\ status[a] \in {"success", "failure"}
        /\ call[a] = "none" /\ call' = call
    BY <1>4 DEF End, At, Goto
  <2>2. Said(a, status[a]) \/ (Faults /\ UNCHANGED stream)
    BY <1>4, <2>1 DEF End, PublishEnd, Said
  <2> QED
    BY <2>1, <2>2 DEF StreamMoves
<1>5. ASSUME NEW a \in Attempts, Dequeue(a) PROVE StreamMoves
  <2>1. pc[a] = "unborn" /\ pc' = [pc EXCEPT ![a] = "start"] /\ UNCHANGED <<stream, call>>
    BY <1>5, DequeueFresh DEF Dequeue, Goto
  <2> QED
    BY <2>1 DEF StreamMoves
<1>6. ASSUME NEW a \in Attempts, Settle(a) \/ GiveUp(a) \/ Requeue(a) PROVE StreamMoves
  BY <1>6 DEF Settle, GiveUp, Requeue, Leave, StreamMoves
<1>7. ASSUME NEW a \in Attempts, Land(a) \/ Expire(a) \/ Cancel(a) \/ Recover(a) PROVE StreamMoves
  BY <1>7 DEF Land, Expire, Cancel, Recover, StreamMoves
<1>8. ASSUME NEW a \in Attempts, Exit(a) PROVE StreamMoves
  BY <1>8 DEF Exit, Goto, StreamMoves
<1>9. CASE UNCHANGED vars
  BY <1>9 DEF vars, StreamMoves
<1>10. ASSUME NEW a \in Attempts, Write(a) PROVE StreamMoves
  <2>1. pc' = pc /\ call[a] # "none" /\ call' = [call EXCEPT ![a] = "none"]
    BY <1>10 DEF Write
  <2>2. UNCHANGED stream \/ Said(a, "line")
    BY <1>10, <2>1 DEF Write, Said
  <2> QED
    BY <2>1, <2>2 DEF StreamMoves
<1> QED
  BY <1>1, <1>2, <1>3, <1>4, <1>5, <1>6, <1>7, <1>8, <1>9, <1>10
  DEF Next, Written, WrittenLate, Handler, Advance, Processor

LEMMA ElementType == ASSUME NEW S, NEW s \in Seq(S), NEW i \in DOMAIN s PROVE s[i] \in S
OBVIOUS

\* Where the entries of a longer stream come from.
LEMMA SaidEntries ==
    ASSUME TypeOK, NEW a, NEW kind, Said(a, kind)
    PROVE  /\ Len(stream) \in Nat /\ DOMAIN stream = 1..Len(stream)
           /\ DOMAIN stream' = 1..Len(stream) + 1 /\ Len(stream') = Len(stream) + 1
           /\ \A i \in DOMAIN stream : stream'[i] = stream[i] /\ stream[i].att \in Attempts
           /\ stream'[Len(stream) + 1].att = a /\ stream'[Len(stream) + 1].kind = kind
<1> DEFINE e == [att |-> a, kind |-> kind]
           E == [att : Attempts, kind : {"line", "success", "failure"}]
<1>1. stream \in Seq(E) /\ e \in E /\ stream' = Append(stream, e) /\ e.att = a /\ e.kind = kind
  BY DEF TypeOK, Said, Append1
<1>2. \A x \in E : x.att \in Attempts
  OBVIOUS
<1> HIDE DEF e, E
<1> QED
  BY ONLY <1>1, <1>2

LEMMA EndInit == Init => EndCloses /\ EndIsLast /\ ReturnedHasEnded
BY DEF Init, EndCloses, EndIsLast, ReturnedHasEnded

LEMMA EndStep ==
    TypeOK /\ TypeOK' /\ StreamMoves /\ EndCloses /\ EndIsLast /\ ReturnedHasEnded =>
        (EndCloses /\ EndIsLast /\ ReturnedHasEnded)'
<1> SUFFICES ASSUME TypeOK, TypeOK', StreamMoves, EndCloses, EndIsLast, ReturnedHasEnded
             PROVE  (EndCloses /\ EndIsLast /\ ReturnedHasEnded)'
  OBVIOUS
<1>1. CASE UNCHANGED stream
  <2>1. \A i \in DOMAIN stream : stream[i].att \in Attempts
    <3>1. stream \in Seq([att : Attempts, kind : {"line", "success", "failure"}])
      BY DEF TypeOK
    <3>2. \A i \in DOMAIN stream : stream[i] \in [att : Attempts, kind : {"line", "success", "failure"}]
      BY <3>1, ElementType
    <3> QED
      BY ONLY <3>2
  <2>2. EndCloses'
    BY <1>1, <2>1 DEF EndCloses, StreamMoves, Closed
  <2>3. EndIsLast'
    BY ONLY <1>1, EndIsLast DEF EndIsLast
  <2>4. ReturnedHasEnded'
    <3> SUFFICES ASSUME ~Faults, NEW b \in Attempts, pc'[b] = "returned" PROVE Ends(b)' # {}
      BY DEF ReturnedHasEnded
    <3>1. pc[b] = "returned"
      <4>1. pc[b] # "returned" => Said(b, status[b])
        BY DEF StreamMoves
      <4>2. ~Said(b, status[b])
        BY <1>1, SaidEntries
      <4> QED
        BY <4>1, <4>2
    <3> QED
      BY <1>1, <3>1 DEF ReturnedHasEnded, Ends
  <2> QED
    BY <2>2, <2>3, <2>4
<1>2. ASSUME NEW a \in Attempts, NEW kind \in {"line", "success", "failure"}, Said(a, kind)
      PROVE  (EndCloses /\ EndIsLast /\ ReturnedHasEnded)'
  <2> DEFINE n == Len(stream) + 1
  <2>1. /\ Len(stream) \in Nat /\ DOMAIN stream = 1..Len(stream) /\ DOMAIN stream' = 1..n
        /\ \A i \in DOMAIN stream : stream'[i] = stream[i] /\ stream[i].att \in Attempts
        /\ stream'[n].att = a /\ stream'[n].kind = kind
    BY <1>2, SaidEntries
  <2>2. \A i \in DOMAIN stream' : i = n \/ i \in DOMAIN stream
    BY ONLY <2>1
  <2>3. \A i \in DOMAIN stream : stream[i].att = a => stream[i].kind = "line"
    BY <1>2 DEF EndCloses, Said, Closed
  <2>4. EndCloses'
    <3> SUFFICES ASSUME NEW i \in DOMAIN stream', stream'[i].kind # "line"
                 PROVE  pc'[stream'[i].att] \in Over /\ call'[stream'[i].att] = "none"
      BY DEF EndCloses
    <3>1. CASE i = n
      BY <1>2, <2>1, <3>1 DEF Said, Over
    <3>2. CASE i \in DOMAIN stream
      BY <2>1, <3>2 DEF EndCloses, StreamMoves, Closed
    <3> QED
      BY <2>2, <3>1, <3>2
  <2>5. EndIsLast'
    <3> SUFFICES ASSUME NEW i \in DOMAIN stream', NEW j \in DOMAIN stream',
                        i < j, stream'[i].att = stream'[j].att
                 PROVE  stream'[i].kind = "line"
      BY DEF EndIsLast
    <3>1. i \in DOMAIN stream
      BY ONLY <2>1, i \in DOMAIN stream', j \in DOMAIN stream', i < j
    <3>2. CASE j = n
      BY <2>1, <2>3, <3>1, <3>2
    <3>3. CASE j \in DOMAIN stream
      BY <2>1, <3>1, <3>3 DEF EndIsLast
    <3> QED
      BY <2>2, <3>2, <3>3
  <2>6. ReturnedHasEnded'
    <3> SUFFICES ASSUME ~Faults, NEW b \in Attempts, pc'[b] = "returned" PROVE Ends(b)' # {}
      BY DEF ReturnedHasEnded
    <3>1. CASE pc[b] = "returned"
      <4>1. PICK i \in DOMAIN stream : stream[i].att = b /\ stream[i].kind # "line"
        BY <3>1 DEF ReturnedHasEnded, Ends
      <4>2. i \in DOMAIN stream' /\ stream'[i] = stream[i]
        BY ONLY <2>1, i \in DOMAIN stream
      <4> QED
        BY <4>1, <4>2 DEF Ends
    <3>2. CASE pc[b] # "returned"
      <4>1. Said(b, status[b]) /\ status[b] # "line"
        BY <3>2 DEF StreamMoves
      <4>2. stream'[n].att = b /\ stream'[n].kind = status[b] /\ n \in DOMAIN stream'
        BY <4>1, <2>1, SaidEntries
      <4> QED
        BY <4>1, <4>2 DEF Ends
    <3> QED
      BY <3>1, <3>2
  <2> QED
    BY <2>4, <2>5, <2>6
<1> QED
  BY <1>1, <1>2 DEF StreamMoves

LEMMA EndInvariant == Spec => [](EndCloses /\ EndIsLast /\ ReturnedHasEnded)
<1> DEFINE IInv == TypeOK /\ Attended /\ EndCloses /\ EndIsLast /\ ReturnedHasEnded
<1>1. Init => IInv
  BY TypeInit, AttendedInit, EndInit
<1>2. IInv /\ [Next]_vars => IInv'
  BY TypeStep, AttendedStep, StreamStep, EndStep
<1> QED
  BY <1>1, <1>2, PTL DEF Spec

\* task_handler.go:42-53: for every number of attempts and whatever ends them, an
\* attempt's end entry is the last it writes.
THEOREM EndsAreLast == Spec => []EndIsLast
BY EndInvariant, PTL

\* task_handler.go:49-53: no way out of the handler leaves its stream open, the
\* panic and the passed deadline included.
THEOREM ReturnsHaveEnded == Spec => []ReturnedHasEnded
BY EndInvariant, PTL
=============================================================================
