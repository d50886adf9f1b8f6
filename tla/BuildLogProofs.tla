--------------------------- MODULE BuildLogProofs ---------------------------
(* Theorems about BuildLog: what was proved of the worker (BuildTaskProofs) *)
(* and of the socket (LogTailProofs) put together.                          *)
EXTENDS BuildLog, BuildTaskProofs

Feed == INSTANCE LogTailProofs WITH
    added <- Len(stream), ends <- EndEntries, finished <- StreamFinished, ctxDone <- socketDone

-----------------------------------------------------------------------------
(* The worker is a task as LogTail knows it                                *)

LEMMA LogSteps == [LogNext]_logVars => [Next]_vars
BY DEF LogNext, Build, PumpStep, WriterStep, ReaderStep, SurroundStep, logVars

\* A verdict is final, and an entry is written while there is none to come.
LEMMA JobStep ==
    TypeOK /\ Attended /\ Next =>
        /\ job \in Settled => job' \in Settled
        /\ ~UNCHANGED stream => UNCHANGED job
<1> SUFFICES ASSUME TypeOK, Attended, Next
             PROVE  /\ job \in Settled => job' \in Settled
                    /\ ~UNCHANGED stream => UNCHANGED job
  OBVIOUS
<1> USE DEF Settled, brokerVars, outputVars, handlerVars, procVars
<1>1. ASSUME NEW a \in Attempts, Handler(a) \/ WrittenLate(a)
      PROVE  UNCHANGED job
  BY <1>1 DEF Handler, Advance, Begin, Generated, Post, Upload, Uploaded, Fail, Report, Succeed,
              End, Log, Panic, Written, WrittenLate, Write
<1>2. ASSUME NEW a \in Attempts, Dequeue(a)
      PROVE  UNCHANGED stream /\ job \notin Settled
  BY <1>2 DEF Dequeue
<1>3. ASSUME NEW a \in Attempts, Settle(a) \/ GiveUp(a) \/ Requeue(a)
      PROVE  UNCHANGED stream /\ job \notin Settled
  BY <1>3 DEF Settle, GiveUp, Requeue, Leave, Attended
<1>4. ASSUME NEW a \in Attempts, Land(a) \/ Expire(a) \/ Cancel(a) \/ Exit(a) \/ Recover(a)
      PROVE  UNCHANGED stream /\ (job \in Settled => UNCHANGED job)
  BY <1>4 DEF Land, Expire, Cancel, Exit, Recover
<1> QED
  BY <1>1, <1>2, <1>3, <1>4 DEF Next, Processor

LEMMA BuildIsTask ==
    TypeOK /\ Attended /\ Build => [Tailing!Task]_(Tailing!vars)
<1> SUFFICES ASSUME TypeOK, Attended, Build PROVE [Tailing!Task]_(Tailing!vars)
  OBVIOUS
<1>1. /\ Next /\ Len(stream') <= MaxEntries
      /\ UNCHANGED <<first, pump, lastID, batch, from, frames, writer, reader, socketDone,
                     client, sent, closed, failed, expired>>
  BY DEF Build, tailVars
<1>2. (job \in Settled => job' \in Settled) /\ (~UNCHANGED stream => UNCHANGED job)
  BY <1>1, JobStep
<1>3. CASE UNCHANGED stream
  <2>1. Len(stream') = Len(stream) /\ EndEntries' = EndEntries
    BY <1>3 DEF EndEntries
  <2>2. CASE StreamFinished' = StreamFinished
    BY <1>1, <2>1, <2>2 DEF Tailing!vars, Tailing!streamVars, Tailing!pumpVars,
      Tailing!socketVars, Tailing!historyVars
  <2>3. CASE ~StreamFinished /\ StreamFinished'
    BY <1>1, <2>1, <2>3 DEF Tailing!Task, Tailing!Finish, Tailing!pumpVars,
      Tailing!socketVars, Tailing!historyVars
  <2> QED
    BY <1>2, <2>2, <2>3 DEF StreamFinished
<1>4. CASE ~UNCHANGED stream
  <2>1. PICK a \in Attempts, kind \in {"line", "success", "failure"} : Said(a, kind)
    BY <1>1, <1>4, StreamStep DEF StreamMoves
  <2>2. /\ Len(stream) \in Nat /\ Len(stream') = Len(stream) + 1
        /\ DOMAIN stream = 1..Len(stream) /\ DOMAIN stream' = 1..Len(stream) + 1
        /\ \A i \in DOMAIN stream : stream'[i] = stream[i]
    BY <2>1, SaidEntries
  <2>3. Len(stream) < MaxEntries
    BY ONLY <1>1, <2>2, TailAssumption
  <2>4. EndEntries' \in {EndEntries, EndEntries \cup {Len(stream) + 1}}
    <3>1. \A i : i \in DOMAIN stream' <=> i \in DOMAIN stream \/ i = Len(stream) + 1
      BY ONLY <2>2
    <3>2. Len(stream) + 1 \notin DOMAIN stream
      BY ONLY <2>2
    <3>3. CASE stream'[Len(stream) + 1].kind = "line"
      BY <2>2, <3>1, <3>2, <3>3 DEF EndEntries
    <3>4. CASE stream'[Len(stream) + 1].kind # "line"
      BY <2>2, <3>1, <3>2, <3>4 DEF EndEntries
    <3> QED
      BY <3>3, <3>4
  <2>5. StreamFinished' = StreamFinished
    BY <1>2, <1>4 DEF StreamFinished
  <2> QED
    BY <1>1, <2>2, <2>3, <2>4, <2>5 DEF Tailing!Task, Tailing!Publish, Tailing!pumpVars,
      Tailing!socketVars, Tailing!historyVars
<1> QED
  BY <1>3, <1>4

LEMMA TailStep ==
    TypeOK /\ Attended /\ [LogNext]_logVars => [Tailing!Next]_(Tailing!vars)
<1> SUFFICES ASSUME TypeOK, Attended, [LogNext]_logVars PROVE [Tailing!Next]_(Tailing!vars)
  OBVIOUS
<1>1. CASE Build
  BY <1>1, BuildIsTask DEF Tailing!Next
<1>2. CASE PumpStep \/ WriterStep \/ ReaderStep \/ SurroundStep
  BY <1>2 DEF PumpStep, WriterStep, ReaderStep, SurroundStep, Tailing!Next, Tailing!Task
<1>3. CASE UNCHANGED logVars
  <2>1. UNCHANGED vars /\ UNCHANGED tailVars
    BY <1>3 DEF logVars
  <2>2. UNCHANGED <<stream, job>> /\ UNCHANGED tailVars
    BY <2>1 DEF vars, outputVars, brokerVars
  <2> QED
    BY <2>2 DEF tailVars, EndEntries, StreamFinished, Tailing!vars, Tailing!streamVars,
      Tailing!pumpVars, Tailing!socketVars, Tailing!historyVars
<1> QED
  BY <1>1, <1>2, <1>3 DEF LogNext

LEMMA TailInit == LogInit => Tailing!Init
BY DEF LogInit, Init, Tailing!Init, EndEntries, StreamFinished, Settled

\* The worker writes the stream as a task may: whatever LogTail says of every
\* stream, it says of a build's, for any number of attempts and any of their ends.
THEOREM BuildImplementsTail == LogSpec => ImplementsTail
<1> DEFINE IInv == TypeOK /\ Attended
<1>1. LogInit => IInv
  BY TypeInit, AttendedInit DEF LogInit
<1>2. IInv /\ [LogNext]_logVars => IInv'
  BY LogSteps, TypeStep, AttendedStep
<1>3. IInv /\ [LogNext]_logVars => [Tailing!Next]_(Tailing!vars)
  BY TailStep
<1> HIDE DEF IInv
<1> QED
  BY <1>1, <1>2, <1>3, TailInit, PTL DEF LogSpec, ImplementsTail, Tailing!Spec

\* logs.go only reads Redis: a build that is watched is a build, so that its status
\* and its stream promise what they do unwatched, however slow the client.
THEOREM WatchedIsBuild ==
    LogSpec => /\ Spec /\ ImplementsOutcome /\ ImplementsPhases
               /\ [](SuccessIsStored /\ EndIsLast /\ ReturnedHasEnded)
<1>1. LogInit => Init
  BY DEF LogInit
<1>2. LogSpec => Spec
  BY <1>1, LogSteps, PTL DEF LogSpec, Spec
<1> QED
  BY <1>2, Refinement, BuildsArePhases, SuccessAlwaysStored, EndsAreLast, ReturnsHaveEnded, PTL

-----------------------------------------------------------------------------
(* The end and the whole                                                   *)

\* LogTail's definitions are the same by either name.
LEMMA SameNext == [Tailing!Next]_(Tailing!vars) => [Feed!Next]_(Feed!vars)
BY Zenon
  DEF Tailing!Next, Tailing!Task, Tailing!Pump, Tailing!Writer, Tailing!Publish,
    Tailing!Finish, Tailing!Trim, Tailing!PumpCheck, Tailing!ReadEntries, Tailing!ReadNil,
    Tailing!ReadError, Tailing!AskFinished, Tailing!Send, Tailing!WriteFrame,
    Tailing!WriteClose, Tailing!WriterStops, Tailing!ReaderStops, Tailing!ClientLeaves,
    Tailing!Expire, Tailing!PumpReturns, Tailing!WriterReturns, Tailing!Stored,
    Tailing!Entries, Tailing!vars, Tailing!streamVars, Tailing!pumpVars,
    Tailing!socketVars, Tailing!historyVars, Feed!Next, Feed!Task, Feed!Pump, Feed!Writer,
    Feed!Publish, Feed!Finish, Feed!Trim, Feed!PumpCheck, Feed!ReadEntries, Feed!ReadNil,
    Feed!ReadError, Feed!AskFinished, Feed!Send, Feed!WriteFrame, Feed!WriteClose,
    Feed!WriterStops, Feed!ReaderStops, Feed!ClientLeaves, Feed!Expire, Feed!PumpReturns,
    Feed!WriterReturns, Feed!Stored, Feed!Entries, Feed!vars, Feed!streamVars,
    Feed!pumpVars, Feed!socketVars, Feed!historyVars

LEMMA WholeAtEnd ==
    ASSUME EndIsLast, Tailing!FaithfulFeed, sent \in Seq(Nat), Len(stream) \in Nat,
           DOMAIN stream = 1..Len(stream)
    PROVE  EndMeansWhole
<1> SUFFICES ASSUME NEW e \in DOMAIN sent, sent[e] \in EndEntries,
                    NEW i \in DOMAIN stream, stream[i].att = stream[sent[e]].att
             PROVE  i < first \/ \E j \in DOMAIN sent : sent[j] = i
  BY DEF EndMeansWhole
<1>1. DOMAIN sent = 1..Len(sent) /\ Len(sent) \in Nat /\ (sent = <<>> <=> Len(sent) = 0)
  OBVIOUS
<1>2. e = Len(sent)
  <2>1. e \in 1..Len(sent) - 1 => sent[e] \notin EndEntries
    BY DEF Tailing!FaithfulFeed
  <2> QED
    BY ONLY <1>1, <2>1, e \in DOMAIN sent, sent[e] \in EndEntries
<1>3. sent[e] = Tailing!Last0(sent)
  BY ONLY <1>1, <1>2, e \in DOMAIN sent DEF Tailing!Last0
<1>4. sent[e] \in DOMAIN stream /\ stream[sent[e]].kind # "line"
  BY DEF EndEntries
<1>5. ~(sent[e] < i)
  BY <1>4 DEF EndIsLast
<1>6. i \in 1..sent[e]
  BY ONLY <1>4, <1>5, i \in DOMAIN stream, DOMAIN stream = 1..Len(stream), Len(stream) \in Nat
<1> QED
  BY ONLY Tailing!FaithfulFeed, <1>3, <1>6 DEF Tailing!FaithfulFeed

\* No definition of the properties depends on the name either.
LEMMA SameFeed ==
    Feed!CloseInv => Tailing!FaithfulFeed /\ Tailing!CloseDrains /\ Tailing!CloseIsJustified
BY DEF Feed!CloseInv, Feed!FeedInv, Feed!FaithfulFeed, Tailing!FaithfulFeed, Feed!CloseDrains,
  Tailing!CloseDrains, Feed!CloseIsJustified, Tailing!CloseIsJustified, Feed!Last0, Tailing!Last0

\* logs.go:103-109, 155-219 over the stream of task_handler.go: the socket of a build
\* feeds its entries in order and without a gap of its own making, loses none that
\* the pump took, and closes only on a build that is over or a stream at its end,
\* unless Redis fails it or its lifetime elapses.
THEOREM BuildIsFed ==
    LogSpec => [](Tailing!FaithfulFeed /\ Tailing!CloseDrains /\ Tailing!CloseIsJustified)
<1> DEFINE IInv == TypeOK /\ Attended
<1>0. Feed!BoundsAssumption
  BY TailAssumption DEF Feed!BoundsAssumption
<1>1. LogInit => IInv /\ Feed!CloseInv
  <2>1. LogInit => Feed!Init
    BY TailInit DEF Tailing!Init, Feed!Init
  <2>2. Feed!Init => Feed!CloseInv
    BY <1>0, Feed!CloseInit
  <2> QED
    BY <2>1, <2>2, TypeInit, AttendedInit DEF LogInit
<1>2. IInv /\ [LogNext]_logVars => IInv'
  BY LogSteps, TypeStep, AttendedStep
<1>3. IInv /\ Feed!CloseInv /\ [LogNext]_logVars => Feed!CloseInv'
  <2>1. IInv /\ [LogNext]_logVars => [Feed!Next]_(Feed!vars)
    BY TailStep, SameNext
  <2>2. Feed!CloseInv /\ [Feed!Next]_(Feed!vars) => Feed!CloseInv'
    BY <1>0, Feed!CloseStep
  <2> QED
    BY <2>1, <2>2
<1> HIDE DEF IInv
<1> QED
  BY <1>1, <1>2, <1>3, SameFeed, PTL DEF LogSpec

\* A client that sees a build end has seen all of the attempt that Redis kept: what
\* was proved of the writer alone and of the reader alone suffices for the pair.
THEOREM EndIsWhole == LogSpec => []EndMeansWhole
<1> DEFINE WInv == TypeOK /\ Attended /\ EndCloses /\ EndIsLast /\ ReturnedHasEnded
<1>0. Feed!BoundsAssumption
  BY TailAssumption DEF Feed!BoundsAssumption
<1>1. LogInit => WInv /\ Feed!FeedInv
  <2>1. LogInit => Feed!Init
    BY TailInit DEF Tailing!Init, Feed!Init
  <2>2. Feed!Init => Feed!FeedInv
    BY <1>0, Feed!FeedInit
  <2> QED
    BY <2>1, <2>2, TypeInit, AttendedInit, EndInit DEF LogInit
<1>2. WInv /\ [LogNext]_logVars => WInv'
  BY LogSteps, TypeStep, AttendedStep, StreamStep, EndStep
<1>3. WInv /\ Feed!FeedInv /\ [LogNext]_logVars => Feed!FeedInv'
  <2>1. WInv /\ [LogNext]_logVars => [Feed!Next]_(Feed!vars)
    BY TailStep, SameNext
  <2>2. Feed!FeedInv /\ [Feed!Next]_(Feed!vars) => Feed!FeedInv'
    BY <1>0, Feed!FeedStep
  <2> QED
    BY <2>1, <2>2
<1>4. WInv /\ Feed!FeedInv => EndMeansWhole
  <2> SUFFICES ASSUME WInv, Feed!FeedInv PROVE EndMeansWhole
    OBVIOUS
  <2>1. Tailing!FaithfulFeed
    BY DEF Feed!FeedInv, Feed!FaithfulFeed, Tailing!FaithfulFeed, Feed!Last0, Tailing!Last0
  <2>2. sent \in Seq(Nat)
    BY <1>0, Feed!Numbers DEF Feed!FeedInv
  <2>3. stream \in Seq([att : Attempts, kind : {"line", "success", "failure"}])
    BY DEF TypeOK
  <2>4. Len(stream) \in Nat /\ DOMAIN stream = 1..Len(stream)
    BY ONLY <2>3
  <2> QED
    BY <2>1, <2>2, <2>4, WholeAtEnd
<1> HIDE DEF WInv
<1> QED
  BY <1>1, <1>2, <1>3, <1>4, PTL DEF LogSpec
=============================================================================
