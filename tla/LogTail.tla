------------------------------ MODULE LogTail ------------------------------
(***************************************************************************)
(* One WebSocket of GET /api/pcb/{task_id}/logs                            *)
(* (backend/cmd/server/logs.go): the Redis pump that reads a task's log    *)
(* stream from its start and then tails it, the write loop that owns the   *)
(* connection, the read pump that notices a dead client, the channel       *)
(* between the pumps and the context that ends all three.                  *)
(*                                                                         *)
(* The stream is a run of numbered entries: XADD numbers upwards, MAXLEN   *)
(* trims from the old end, the key's TTL drops all of them.                *)
(***************************************************************************)
EXTENDS Naturals, Sequences

CONSTANTS
    MaxEntries,  \* bound: entries ever published
    ReadCount,   \* wsReadCount: entries of one XREAD
    ChanCap      \* capacity of the frames channel

ASSUME BoundsAssumption ==
    /\ MaxEntries \in Nat
    /\ ReadCount \in Nat \ {0}
    /\ ChanCap \in Nat \ {0}

VARIABLES
    added,     \* number of the newest entry, 0 for none
    first,     \* number of the oldest entry still stored
    ends,      \* the terminal entries
    finished,  \* the task is completed, archived or gone
    pump,      \* where the Redis pump stands
    lastID,    \* the pump's lastID
    batch,     \* newest entry of the messages it works through
    from,      \* oldest of them not yet handed on
    frames,    \* the channel
    writer,    \* the write loop: "loop" or "gone"
    reader,    \* the read pump: "loop" or "gone"
    ctxDone,   \* the context is cancelled
    client,    \* the client listens
    sent,      \* entries written to the socket, in order
    closed,    \* a normal close frame has been written
    failed,    \* history: a Redis call made the pump return
    expired    \* history: wsMaxLifetime has elapsed

streamVars == <<added, first, ends, finished>>
pumpVars == <<pump, lastID, batch, from>>
socketVars == <<client, sent, closed>>
historyVars == <<failed, expired>>
vars == <<streamVars, pumpVars, frames, writer, reader, ctxDone, socketVars, historyVars>>

Entries == 1..MaxEntries

Stored(i) == first <= i /\ i <= added

-----------------------------------------------------------------------------
Init ==
    /\ added = 0
    /\ first = 1
    /\ ends = {}
    /\ finished = FALSE
    /\ pump = "check"
    /\ lastID = 0
    /\ batch = 0
    /\ from = 1
    /\ frames = <<>>
    /\ writer = "loop"
    /\ reader = "loop"
    /\ ctxDone = FALSE
    /\ client = TRUE
    /\ sent = <<>>
    /\ closed = FALSE
    /\ failed = FALSE
    /\ expired = FALSE

-----------------------------------------------------------------------------
(* The task and its stream                                                 *)

\* Entries may follow an end (a second attempt) and the end of the task (a
\* handler that outlives its deadline): BuildLog puts the worker here.
Publish ==
    /\ added < MaxEntries
    /\ added' = added + 1
    /\ ends' \in {ends, ends \cup {added'}}
    /\ UNCHANGED <<first, finished, pumpVars, frames, writer, reader, ctxDone, socketVars, historyVars>>

Finish ==
    /\ ~finished
    /\ finished' = TRUE
    /\ UNCHANGED <<added, first, ends, pumpVars, frames, writer, reader, ctxDone, socketVars, historyVars>>

\* MAXLEN keeps the newest entry; the TTL keeps none.
Trim ==
    /\ first' \in first + 1..added + 1
    /\ UNCHANGED <<added, ends, finished, pumpVars, frames, writer, reader, ctxDone, socketVars, historyVars>>

-----------------------------------------------------------------------------
(* pumpLogStream                                                           *)

PumpReturns ==
    /\ pump' = "gone"
    /\ UNCHANGED <<lastID, batch, from, frames>>

\* The test of ctx.Err() at the head of the loop.
PumpCheck ==
    /\ pump = "check"
    /\ IF ctxDone THEN PumpReturns
                  ELSE pump' = "read" /\ UNCHANGED <<lastID, batch, from, frames>>
    /\ UNCHANGED <<streamVars, writer, reader, ctxDone, socketVars, historyVars>>

\* Mutant: the tail starts at the newest entry, without the backfill.
ReadNewest ==
    /\ pump = "read"
    /\ \E i \in Entries : i > lastID /\ Stored(i)
    /\ from' = added
    /\ batch' = added
    /\ pump' = "send"
    /\ UNCHANGED <<streamVars, lastID, frames, writer, reader, ctxDone, socketVars, historyVars>>

\* XREAD answers with the entries after lastID, ReadCount of them at most.
ReadEntries ==
    /\ pump = "read"
    /\ \E i \in Entries : i > lastID /\ Stored(i)
    /\ from' = IF lastID < first THEN first ELSE lastID + 1
    /\ batch' = IF from' + ReadCount - 1 < added THEN from' + ReadCount - 1 ELSE added
    /\ pump' = "send"
    /\ UNCHANGED <<streamVars, lastID, frames, writer, reader, ctxDone, socketVars, historyVars>>

\* XREAD blocked for wsRedisBlock without a new entry.
ReadNil ==
    /\ pump = "read"
    /\ ~\E i \in Entries : i > lastID /\ Stored(i)
    /\ pump' = "nil"
    /\ UNCHANGED <<streamVars, lastID, batch, from, frames, writer, reader, ctxDone, socketVars, historyVars>>

\* XREAD failed, or was cut short with the context.
ReadError ==
    /\ pump = "read"
    /\ \/ ctxDone /\ UNCHANGED failed
       \/ failed' = TRUE
    /\ PumpReturns
    /\ UNCHANGED <<streamVars, writer, reader, ctxDone, socketVars, expired>>

\* Mutant: a read that times out ends the tail.
AskNothing ==
    /\ pump = "nil"
    /\ PumpReturns
    /\ UNCHANGED <<streamVars, writer, reader, ctxDone, socketVars, historyVars>>

\* Mutant: the tail ends only with the end entry.
AskNever ==
    /\ pump = "nil"
    /\ pump' = "check"
    /\ UNCHANGED <<streamVars, lastID, batch, from, frames, writer, reader, ctxDone, socketVars, historyVars>>

\* taskStreamFinished: a lookup error counts as finished.
AskFinished ==
    /\ pump = "nil"
    /\ \/ finished /\ PumpReturns /\ UNCHANGED failed
       \/ ~finished /\ PumpReturns /\ failed' = TRUE
       \/ ~finished /\ pump' = "check" /\ UNCHANGED <<lastID, batch, from, frames, failed>>
    /\ UNCHANGED <<streamVars, writer, reader, ctxDone, socketVars, expired>>

\* Mutant: the frames are queued without a limit.
SendUnlimited ==
    /\ pump = "send"
    /\ lastID' = from
    /\ from' = from + 1
    /\ frames' = Append(frames, from)
    /\ pump' = IF from \in ends THEN "gone" ELSE IF from = batch THEN "check" ELSE "send"
    /\ UNCHANGED <<streamVars, batch, writer, reader, ctxDone, socketVars, historyVars>>

\* Mutant: the channel is waited for whatever became of the context.
SendBlocking ==
    /\ pump = "send"
    /\ Len(frames) < ChanCap
    /\ lastID' = from
    /\ from' = from + 1
    /\ frames' = Append(frames, from)
    /\ pump' = IF from \in ends THEN "gone" ELSE IF from = batch THEN "check" ELSE "send"
    /\ UNCHANGED <<streamVars, batch, writer, reader, ctxDone, socketVars, historyVars>>

\* Hand the next message on: the select takes either ready branch.  After the
\* end entry, or with the context cancelled, the pump returns.
Send ==
    /\ pump = "send"
    /\ lastID' = from
    /\ from' = from + 1
    /\ \/ /\ Len(frames) < ChanCap
          /\ frames' = Append(frames, from)
          /\ pump' = IF from \in ends THEN "gone" ELSE IF from = batch THEN "check" ELSE "send"
       \/ ctxDone /\ pump' = "gone" /\ UNCHANGED frames
    /\ UNCHANGED <<streamVars, batch, writer, reader, ctxDone, socketVars, historyVars>>

-----------------------------------------------------------------------------
(* KicadGetTaskLogs: the write loop                                        *)

\* The deferred cancel and conn.Close run.
WriterReturns == writer' = "gone" /\ ctxDone' = TRUE

WriteFrame ==
    /\ writer = "loop"
    /\ frames # <<>>
    /\ frames' = Tail(frames)
    /\ IF client THEN sent' = Append(sent, Head(frames)) /\ UNCHANGED <<writer, ctxDone>>
                 ELSE UNCHANGED sent /\ WriterReturns
    /\ UNCHANGED <<streamVars, pumpVars, reader, client, closed, historyVars>>

\* Mutant: the socket is closed as soon as the pump returned.
WriteCloseEarly ==
    /\ writer = "loop"
    /\ pump = "gone"
    /\ closed' = client
    /\ WriterReturns
    /\ UNCHANGED <<streamVars, pumpVars, frames, reader, client, sent, historyVars>>

\* The channel is closed and drained.
WriteClose ==
    /\ writer = "loop"
    /\ pump = "gone"
    /\ frames = <<>>
    /\ closed' = client
    /\ WriterReturns
    /\ UNCHANGED <<streamVars, pumpVars, frames, reader, client, sent, historyVars>>

\* ctx.Done(), or a ping that cannot be written.
WriterStops ==
    /\ writer = "loop"
    /\ ctxDone \/ ~client
    /\ WriterReturns
    /\ UNCHANGED <<streamVars, pumpVars, frames, reader, socketVars, historyVars>>

\* ReadMessage fails: the client is gone or silent for wsPongWait, or the write
\* loop closed the connection.
ReaderStops ==
    /\ reader = "loop"
    /\ ~client \/ writer = "gone"
    /\ reader' = "gone"
    /\ ctxDone' = TRUE
    /\ UNCHANGED <<streamVars, pumpVars, frames, writer, socketVars, historyVars>>

-----------------------------------------------------------------------------
ClientLeaves ==
    /\ client
    /\ client' = FALSE
    /\ UNCHANGED <<streamVars, pumpVars, frames, writer, reader, ctxDone, sent, closed, historyVars>>

\* wsMaxLifetime elapses.
Expire ==
    /\ ctxDone' = TRUE
    /\ expired' = TRUE
    /\ UNCHANGED <<streamVars, pumpVars, frames, writer, reader, socketVars, failed>>

Task == Publish \/ Finish \/ Trim

Pump == PumpCheck \/ ReadEntries \/ ReadNil \/ ReadError \/ AskFinished \/ Send

Writer == WriteFrame \/ WriteClose \/ WriterStops

Next == Task \/ Pump \/ Writer \/ ReaderStops \/ ClientLeaves \/ Expire

Spec == Init /\ [][Next]_vars

\* Goroutines run; XREAD comes back, blocked or not.
Fairness == WF_vars(Pump) /\ WF_vars(Writer) /\ WF_vars(ReaderStops)

FairSpec == Spec /\ Fairness

-----------------------------------------------------------------------------
(* Properties                                                              *)

TypeOK ==
    /\ added \in 0..MaxEntries
    /\ first \in 1..MaxEntries + 1
    /\ ends \subseteq Entries
    /\ finished \in BOOLEAN
    /\ pump \in {"check", "read", "nil", "send", "gone"}
    /\ lastID \in 0..MaxEntries
    /\ batch \in 0..MaxEntries
    /\ from \in 1..MaxEntries + 1
    /\ frames \in Seq(Entries) /\ Len(frames) <= ChanCap
    /\ writer \in {"loop", "gone"}
    /\ reader \in {"loop", "gone"}
    /\ ctxDone \in BOOLEAN
    /\ client \in BOOLEAN
    /\ sent \in Seq(Entries)
    /\ closed \in BOOLEAN
    /\ failed \in BOOLEAN
    /\ expired \in BOOLEAN

Last0(s) == IF s = <<>> THEN 0 ELSE s[Len(s)]

\* Why: what the pump holds, what the channel holds and what was sent are parts
\* of the stream one after the other.
Numbered ==
    /\ first <= added + 1
    /\ ends \subseteq 1..added
    /\ lastID <= added
    /\ pump = "send" => /\ lastID < from /\ from <= batch /\ batch <= added
                        /\ \A i \in Entries : lastID < i /\ i < from => i < first

LastHanded == IF frames = <<>> THEN Last0(sent) ELSE frames[Len(frames)]

Ordered ==
    /\ \A i \in DOMAIN sent : sent[i] <= lastID
    /\ \A i \in DOMAIN frames : frames[i] <= lastID
    /\ \A i, j \in DOMAIN frames : i < j => frames[i] < frames[j] /\ frames[i] \notin ends
    /\ writer = "loop" /\ sent # <<>> /\ frames # <<>> =>
        sent[Len(sent)] < frames[1] /\ sent[Len(sent)] \notin ends
    /\ pump # "gone" => /\ lastID \notin ends
                        /\ frames # <<>> => frames[Len(frames)] = lastID
    /\ writer = "loop" /\ (pump # "gone" \/ ~ctxDone) => LastHanded = lastID

Gapless ==
    writer = "loop" => \A i \in 1..LastHanded :
        \/ i < first
        \/ \E j \in DOMAIN sent : sent[j] = i
        \/ \E j \in DOMAIN frames : frames[j] = i

Closing ==
    /\ ctxDone /\ client /\ ~expired => writer = "gone"
    /\ closed => pump = "gone" /\ writer = "gone"
    /\ pump = "gone" /\ ~failed /\ ~ctxDone => finished \/ lastID \in ends

\* The client sees the stream in order and without repetition, and nothing after
\* its end; between two lines it misses only what Redis had trimmed already.
FaithfulFeed ==
    /\ \A i \in 1..Len(sent) - 1 : sent[i] < sent[i + 1] /\ sent[i] \notin ends
    /\ \A i \in 1..Last0(sent) : i < first \/ \E j \in DOMAIN sent : sent[j] = i

\* A normal close comes after every entry the pump took from the stream: the
\* frames still in the channel when the pump returns are not lost, unless the
\* lifetime elapsed.
CloseDrains == closed /\ ~expired => Last0(sent) = lastID

\* The client is told that the log is over only when the task is, or when it got
\* the end entry, unless the lifetime elapsed or Redis failed.
CloseIsJustified == closed /\ ~failed /\ ~expired => finished \/ Last0(sent) \in ends

\* Once the task is over the socket is closed, without waiting for its lifetime to
\* elapse, even if the stream is trimmed, expired or was never written.
FinishedCloses == finished ~> writer = "gone"

\* When the lifetime elapses or the client goes, none of the socket's goroutines is
\* left behind: not the pump in XREAD or on the full channel, not the read pump.
NothingLeaks ==
    expired \/ ~client ~> writer = "gone" /\ pump = "gone" /\ reader = "gone"

=============================================================================
