----------------------------- MODULE LineWriter -----------------------------
(***************************************************************************)
(* LineWriter of backend/internal/logstream/logstream.go: what kbplacer    *)
(* prints reaches it in pieces of any length and leaves it line by line.   *)
(* A Write emits one line per step: between two of them the publisher      *)
(* talks to Redis.                                                         *)
(***************************************************************************)
EXTENDS Naturals, Sequences, FiniteSets

CONSTANT MaxOutput   \* bound: bytes that kbplacer prints

ASSUME OutputAssumption == MaxOutput \in Nat

VARIABLES
    output,   \* history: all that was written
    buf,      \* w.buf
    emitted,  \* lines given to emit
    call      \* "none", "write" while Write loops, "closed" after Close

writerVars == <<output, buf, emitted, call>>

Bytes == {"x", "CR", "LF"}

Pieces == UNION {[1..n -> Bytes] : n \in 1..MaxOutput}

Newlines(s) == {i \in DOMAIN s : s[i] = "LF"}

WriterInit ==
    /\ output = <<>>
    /\ buf = <<>>
    /\ emitted = <<>>
    /\ call = "none"

\* newLineWriter
NewWriter ==
    /\ output' = <<>>
    /\ buf' = <<>>
    /\ emitted' = <<>>
    /\ call' = "none"

trimCR(b) == IF b # <<>> /\ b[Len(b)] = "CR" THEN SubSeq(b, 1, Len(b) - 1) ELSE b

-----------------------------------------------------------------------------
Write(b) ==
    /\ call = "none"
    /\ Len(output) + Len(b) <= MaxOutput
    /\ output' = output \o b
    /\ buf' = buf \o b
    /\ call' = "write"
    /\ UNCHANGED emitted

\* Mutant: every piece is taken for the end of a line.
EmitPiece ==
    /\ call = "write"
    /\ buf # <<>>
    /\ LET i == IF Newlines(buf) = {} THEN Len(buf) + 1
                ELSE CHOOSE n \in Newlines(buf) : \A k \in Newlines(buf) : n <= k
       IN  /\ emitted' = Append(emitted, trimCR(SubSeq(buf, 1, i - 1)))
           /\ buf' = SubSeq(buf, i + 1, Len(buf))
    /\ UNCHANGED <<output, call>>

\* The loop of Write, once round: up to the first newline.
EmitLine ==
    /\ call = "write"
    /\ \E i \in Newlines(buf) :
        /\ \A k \in Newlines(buf) : i <= k
        /\ emitted' = Append(emitted, trimCR(SubSeq(buf, 1, i - 1)))
        /\ buf' = SubSeq(buf, i + 1, Len(buf))
    /\ UNCHANGED <<output, call>>

WriteReturns ==
    /\ call = "write"
    /\ Newlines(buf) = {}
    /\ call' = "none"
    /\ UNCHANGED <<output, buf, emitted>>

\* Close flushes what no newline ended.
CloseWriter ==
    /\ call = "none"
    /\ call' = "closed"
    /\ buf' = <<>>
    /\ emitted' = IF buf = <<>> THEN emitted ELSE Append(emitted, trimCR(buf))
    /\ UNCHANGED output

-----------------------------------------------------------------------------
(* Properties                                                              *)

WriterTypeOK ==
    /\ output \in Seq(Bytes) /\ Len(output) <= MaxOutput
    /\ buf \in Seq(Bytes)
    /\ emitted \in Seq(Seq(Bytes))
    /\ call \in {"none", "write", "closed"}

\* Where the lines of s end: at its newlines, and past its last byte if the
\* writer is closed on an unfinished one.
LineEnds(s, whole) ==
    Newlines(s) \cup IF whole /\ s # <<>> /\ s[Len(s)] # "LF" THEN {Len(s) + 1} ELSE {}

\* lines are those that end at ends in s, in their order: each starts past the end
\* of the one before it and lacks its one trailing CR.
IsSplit(s, ends, lines) ==
    /\ Len(lines) = Cardinality(ends)
    /\ \A e \in ends :
        \E d \in ends \cup {0} :
            /\ d < e /\ \A c \in ends : c < e => c <= d
            /\ lines[Cardinality({c \in ends : c <= e})] = trimCR(SubSeq(s, d + 1, e - 1))

\* The lines published are those of the output, however the pipe cut it up: also
\* where a piece ends between CR and LF, holds several lines, or is never ended.
EmittedIsSplit ==
    call # "write" => IsSplit(output, LineEnds(output, call = "closed"), emitted)

\* Why: the buffer is what is left of the output past the last line emitted.
Taken == Len(output) - Len(buf)

BufferIsRest ==
    /\ call # "closed" =>
        /\ Taken \in Nat /\ \A i \in DOMAIN buf : buf[i] = output[Taken + i]
        /\ Taken = 0 \/ output[Taken] = "LF"
        /\ IsSplit(output, {e \in Newlines(output) : e <= Taken}, emitted)
    /\ call = "none" => Newlines(buf) = {}
    /\ call = "closed" => EmittedIsSplit

=============================================================================
