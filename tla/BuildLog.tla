------------------------------ MODULE BuildLog ------------------------------
(***************************************************************************)
(* A build watched over a log socket: the worker of BuildTask writes the   *)
(* stream that the socket of LogTail reads while the task's state, which   *)
(* the socket asks for, moves on.  The two share the task's stream and its *)
(* state in Redis and nothing else.                                        *)
(***************************************************************************)
EXTENDS BuildTask

CONSTANTS
    MaxEntries, \* bound: entries of the stream
    ReadCount,  \* wsReadCount
    ChanCap     \* capacity of the frames channel

ASSUME TailAssumption ==
    /\ MaxEntries \in Nat
    /\ ReadCount \in Nat \ {0}
    /\ ChanCap \in Nat \ {0}

VARIABLES
    first,      \* number of the oldest entry still stored
    pump, lastID, batch, from, frames, writer, reader,
    socketDone, \* the context of the socket is cancelled
    client, sent, closed, failed, expired

tailVars == <<first, pump, lastID, batch, from, frames, writer, reader, socketDone,
              client, sent, closed, failed, expired>>
logVars == <<vars, tailVars>>

\* What the socket makes of the stream: its terminal entries are the "end" events.
EndEntries == {i \in DOMAIN stream : stream[i].kind # "line"}

\* taskStreamFinished
StreamFinished == job \in Settled

Tailing == INSTANCE LogTail WITH
    added <- Len(stream), ends <- EndEntries, finished <- StreamFinished, ctxDone <- socketDone

-----------------------------------------------------------------------------
LogInit ==
    /\ Init
    /\ first = 1
    /\ pump = "check"
    /\ lastID = 0
    /\ batch = 0
    /\ from = 1
    /\ frames = <<>>
    /\ writer = "loop"
    /\ reader = "loop"
    /\ socketDone = FALSE
    /\ client = TRUE
    /\ sent = <<>>
    /\ closed = FALSE
    /\ failed = FALSE
    /\ expired = FALSE

\* MaxAttempts * (MaxLines + 1) entries are all the attempts can write.
Build == Next /\ Len(stream') <= MaxEntries /\ UNCHANGED tailVars

PumpStep == UNCHANGED vars /\ Tailing!Pump

WriterStep == UNCHANGED vars /\ Tailing!Writer

ReaderStep == UNCHANGED vars /\ Tailing!ReaderStops

\* The stream is trimmed, the client leaves, the socket's lifetime elapses.
SurroundStep == UNCHANGED vars /\ (Tailing!Trim \/ Tailing!ClientLeaves \/ Tailing!Expire)

LogNext == Build \/ PumpStep \/ WriterStep \/ ReaderStep \/ SurroundStep

LogSpec == LogInit /\ [][LogNext]_logVars

FairLogSpec ==
    /\ LogSpec
    /\ Fairness
    /\ WF_logVars(PumpStep) /\ WF_logVars(WriterStep) /\ WF_logVars(ReaderStep)

-----------------------------------------------------------------------------
(* Properties                                                              *)

\* The worker, whatever becomes of it, is to the socket no more than LogTail lets
\* a task be: what holds there of every stream holds of the stream of a build.
ImplementsTail == Tailing!Spec

\* A client that is sent the end of an attempt has been sent every line of it,
\* but for what Redis had trimmed: the worker publishes nothing after the end,
\* and the socket skips nothing before it.
EndMeansWhole ==
    \A e \in DOMAIN sent : sent[e] \in EndEntries =>
        \A i \in DOMAIN stream : stream[i].att = stream[sent[e]].att =>
            i < first \/ \E j \in DOMAIN sent : sent[j] = i

\* Nobody waits in vain: once a worker took the task, its handler returns, is
\* given up or is found dead, and then the socket is closed, unless the task is
\* given back to the queue.
SocketFollowsTask == job = "active" ~> writer = "gone" \/ job = "pending"

-----------------------------------------------------------------------------
(* What the comments say, and the code does not do                         *)

\* logs.go:171: the worker publishes its terminal "end" entry before asynq marks
\* the task done, "so a finished task whose stream is present would have been
\* drained (and returned) above".
FinishedIsDrained ==
    closed /\ ~failed /\ ~expired /\ first <= Len(stream)
        => sent # <<>> /\ sent[Len(sent)] \in EndEntries

=============================================================================
