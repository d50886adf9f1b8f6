-------------------------- MODULE LineWriterProofs --------------------------
(* Lemmas about LineWriter, for output of any length cut up in any way: what *)
(* one more line does to a split, and that each action keeps the buffer the  *)
(* rest of the output.                                                       *)
EXTENDS LineWriter, FiniteSetTheorems, TLAPS

-----------------------------------------------------------------------------
(* Split                                                                   *)

\* Where a line ends, and all that is asked of it.
EndsLine(s, ends, lines, e, d) ==
    /\ d \in ends \cup {0} /\ d < e /\ \A c \in ends : c < e => c <= d
    /\ lines[Cardinality({c \in ends : c <= e})] = trimCR(SubSeq(s, d + 1, e - 1))

\* One more line, from the last end so far to a new one.
LEMMA AddLine ==
    ASSUME NEW S, NEW s, NEW n \in Nat, NEW ends \in SUBSET (1..n), NEW lines \in Seq(S),
           NEW base \in Nat, base \in ends \cup {0}, \A c \in ends : c <= base,
           NEW e0 \in Nat, base < e0, NEW line \in S, line = trimCR(SubSeq(s, base + 1, e0 - 1)),
           IsSplit(s, ends, lines)
    PROVE  IsSplit(s, ends \cup {e0}, Append(lines, line))
<1> DEFINE more == ends \cup {e0}
           longer == Append(lines, line)
<1>1. IsFiniteSet(ends) /\ Cardinality(ends) \in Nat
  <2>1. IsFiniteSet(1..n) /\ ends \subseteq 1..n
    BY ONLY n \in Nat, ends \in SUBSET (1..n), FS_Interval
  <2>2. IsFiniteSet(ends)
    BY ONLY <2>1, FS_Subset
  <2> QED
    BY ONLY <2>2, FS_CardinalityType
<1>2. \A c \in ends : c \in Nat /\ c <= base /\ c < e0 /\ c # 0
  OBVIOUS
<1>3. e0 \notin ends
  BY <1>2
<1>4. Cardinality(more) = Cardinality(ends) + 1
  BY <1>1, <1>3, FS_AddElement
<1>5. Len(lines) = Cardinality(ends)
  BY DEF IsSplit
<1>6. /\ Len(longer) = Cardinality(more) /\ longer[Cardinality(more)] = line
      /\ \A i \in 1..Cardinality(ends) : longer[i] = lines[i]
  BY <1>1, <1>4, <1>5
<1>7. ASSUME NEW e \in ends PROVE \E d : EndsLine(s, more, longer, e, d)
  <2> DEFINE upTo == {c \in ends : c <= e}
  <2>1. PICK d \in ends \cup {0} : EndsLine(s, ends, lines, e, d)
    BY DEF IsSplit, EndsLine
  <2>2. {c \in more : c <= e} = upTo
    BY <1>2
  <2>3. upTo \subseteq ends /\ e \in upTo
    BY <1>2
  <2> HIDE DEF upTo
  <2>4. /\ Cardinality(upTo) \in Nat /\ Cardinality(upTo) <= Cardinality(ends)
        /\ Cardinality(upTo) # 0
    <3>1. /\ IsFiniteSet(upTo) /\ upTo # {}
          /\ Cardinality(upTo) <= Cardinality(ends)
      BY ONLY <1>1, <2>3, FS_Subset
    <3> QED
      BY ONLY <3>1, FS_CardinalityType, FS_EmptySet
  <2>5. longer[Cardinality(upTo)] = lines[Cardinality(upTo)]
    <3> DEFINE k == Cardinality(upTo)
               m == Cardinality(ends)
    <3>1. k \in Nat /\ m \in Nat /\ k <= m /\ k # 0
      BY <1>1, <2>4
    <3> HIDE DEF k
    <3>2. k \in 1..m
      BY ONLY <3>1
    <3> QED
      BY <1>6, <3>2 DEF k
  <2>6. lines[Cardinality(upTo)] = trimCR(SubSeq(s, d + 1, e - 1))
    BY <2>1 DEF EndsLine, upTo
  <2>7. \A c \in more : c < e => c <= d
    BY <1>2, <2>1 DEF EndsLine
  <2>8. d \in more \cup {0} /\ d < e
    BY <2>1 DEF EndsLine
  <2>9. EndsLine(s, more, longer, e, d)
    BY <2>2, <2>5, <2>6, <2>7, <2>8 DEF EndsLine
  <2> QED
    BY <2>9
<1>8. \E d : EndsLine(s, more, longer, e0, d)
  <2>1. {c \in more : c <= e0} = more
    <3>1. \A c \in more : c <= e0
      BY <1>2
    <3> QED
      BY ONLY <3>1
  <2>2. \A c \in more : c < e0 => c <= base
    BY <1>2
  <2>3. EndsLine(s, more, longer, e0, base)
    BY <1>6, <2>1, <2>2 DEF EndsLine
  <2> QED
    BY <2>3
<1>9. \A e \in more : \E d : EndsLine(s, more, longer, e, d)
  BY <1>7, <1>8
<1> QED
  BY <1>6, <1>9 DEF IsSplit, EndsLine

\* What comes after the last end does not matter.
LEMMA SplitGrows ==
    ASSUME NEW S, NEW s \in Seq(S), NEW t \in Seq(S), NEW ends \in SUBSET (1..Len(s)), NEW lines,
           IsSplit(s, ends, lines)
    PROVE  IsSplit(s \o t, ends, lines)
<1> DEFINE u == s \o t
<1>1. /\ Len(s) \in Nat /\ u \in Seq(S) /\ Len(u) \in Nat /\ Len(s) <= Len(u)
      /\ \A i \in 1..Len(s) : u[i] = s[i]
  OBVIOUS
<1>2. ASSUME NEW e \in ends, NEW d \in ends \cup {0}
      PROVE  SubSeq(u, d + 1, e - 1) = SubSeq(s, d + 1, e - 1)
  <2>1. e \in 1..Len(s) /\ d \in 0..Len(s)
    OBVIOUS
  <2> HIDE DEF u
  <2>2. \A i \in d + 1..e - 1 : u[i] = s[i]
    BY ONLY <1>1, <2>1
  <2> QED
    BY ONLY <1>1, <2>1, <2>2
<1> QED
  BY <1>2 DEF IsSplit

-----------------------------------------------------------------------------
(* The writer                                                              *)

WriterInv == WriterTypeOK /\ BufferIsRest

LEMMA TrimmedIsLine == \A b \in Seq(Bytes) : trimCR(b) \in Seq(Bytes)
BY DEF trimCR

\* A new writer has taken nothing and emitted nothing.
LEMMA EmptyWriter == WriterInit => WriterInv
<1> SUFFICES ASSUME WriterInit PROVE WriterInv
  OBVIOUS
<1>1. /\ output = <<>> /\ buf = <<>> /\ emitted = <<>> /\ call = "none"
      /\ Len(output) = 0 /\ Len(buf) = 0 /\ Len(emitted) = 0
      /\ DOMAIN output = {} /\ DOMAIN buf = {}
  BY DEF WriterInit
<1>2. WriterTypeOK
  BY <1>1, OutputAssumption DEF WriterTypeOK
<1>3. Newlines(output) = {} /\ Newlines(buf) = {}
  BY <1>1 DEF Newlines
<1>4. IsSplit(output, {e \in Newlines(output) : e <= Taken}, emitted)
  BY <1>1, <1>3, FS_EmptySet DEF IsSplit
<1>5. BufferIsRest
  BY <1>1, <1>3, <1>4 DEF BufferIsRest, Taken
<1> QED
  BY <1>2, <1>5 DEF WriterInv

LEMMA NewWriterStep == NewWriter => WriterInv'
<1>1. NewWriter => WriterInit'
  BY DEF NewWriter, WriterInit
<1>2. WriterInit' => WriterInv'
  BY EmptyWriter, PTL
<1> QED
  BY <1>1, <1>2

\* What the invariant says of a writer that is not closed, in numbers.
LEMMA OpenWriter ==
    ASSUME WriterInv, call # "closed"
    PROVE  /\ Len(output) \in Nat /\ Len(buf) \in Nat /\ Taken \in Nat /\ Taken + Len(buf) = Len(output)
           /\ DOMAIN output = 1..Len(output) /\ DOMAIN buf = 1..Len(buf)
           /\ \A i \in 1..Len(buf) : buf[i] = output[Taken + i]
           /\ Taken = 0 \/ output[Taken] = "LF"
           /\ IsSplit(output, {e \in Newlines(output) : e <= Taken}, emitted)
           /\ output \in Seq(Bytes) /\ buf \in Seq(Bytes) /\ emitted \in Seq(Seq(Bytes))
           /\ Len(output) <= MaxOutput
<1>1. output \in Seq(Bytes) /\ buf \in Seq(Bytes) /\ emitted \in Seq(Seq(Bytes))
  BY DEF WriterInv, WriterTypeOK
<1>2. Len(output) \in Nat /\ Len(buf) \in Nat /\ DOMAIN output = 1..Len(output) /\ DOMAIN buf = 1..Len(buf)
  BY <1>1
<1>3. /\ Taken \in Nat /\ \A i \in DOMAIN buf : buf[i] = output[Taken + i]
      /\ Taken = 0 \/ output[Taken] = "LF"
      /\ IsSplit(output, {e \in Newlines(output) : e <= Taken}, emitted)
  BY DEF WriterInv, BufferIsRest
<1>4. Taken + Len(buf) = Len(output)
  BY ONLY <1>2 DEF Taken
<1> QED
  BY <1>1, <1>2, <1>3, <1>4 DEF WriterInv, WriterTypeOK

LEMMA WriteStep ==
    ASSUME WriterInv, NEW b \in Pieces, Write(b)
    PROVE  WriterInv'
<1>1. b \in Seq(Bytes) /\ output \in Seq(Bytes) /\ buf \in Seq(Bytes)
  BY OutputAssumption DEF Pieces, WriterInv, WriterTypeOK
<1>2. /\ output' = output \o b /\ buf' = buf \o b /\ emitted' = emitted
      /\ call = "none" /\ call' = "write" /\ Len(output) + Len(b) <= MaxOutput
  BY DEF Write
<1>3. /\ Len(output') = Len(output) + Len(b) /\ Len(buf') = Len(buf) + Len(b)
      /\ Len(output) \in Nat /\ Len(buf) \in Nat /\ Len(b) \in Nat
  BY <1>1, <1>2
<1>4. /\ DOMAIN output' = 1..Len(output') /\ DOMAIN buf' = 1..Len(buf')
      /\ DOMAIN output = 1..Len(output) /\ DOMAIN buf = 1..Len(buf)
      /\ \A i \in 1..Len(output) : output'[i] = output[i]
      /\ \A i \in 1..Len(buf) : buf'[i] = buf[i]
      /\ \A i \in 1..Len(b) : output'[Len(output) + i] = b[i] /\ buf'[Len(buf) + i] = b[i]
  BY <1>1, <1>2
<1>5. WriterTypeOK'
  BY <1>1, <1>2, <1>3 DEF WriterInv, WriterTypeOK
<1>6. /\ Taken \in Nat /\ Taken + Len(buf) = Len(output)
      /\ \A i \in 1..Len(buf) : buf[i] = output[Taken + i]
      /\ Taken = 0 \/ output[Taken] = "LF"
      /\ IsSplit(output, {e \in Newlines(output) : e <= Taken}, emitted)
  BY <1>2, OpenWriter
<1>7. Taken' = Taken /\ Taken <= Len(output)
  <2>1. Taken' = Len(output') - Len(buf') /\ Taken = Len(output) - Len(buf)
    BY DEF Taken
  <2>2. Taken \in Nat /\ Taken + Len(buf) = Len(output)
    BY <1>6
  <2> QED
    BY ONLY <1>3, <2>1, <2>2
<1>8. ASSUME NEW i \in DOMAIN buf' PROVE buf'[i] = output'[Taken' + i]
  <2>1. i \in Nat /\ 1 <= i /\ i <= Len(buf) + Len(b)
    BY <1>3, <1>4
  <2>2. Taken \in Nat /\ Taken + Len(buf) = Len(output)
    BY <1>6
  <2>3. CASE i <= Len(buf)
    <3>1. i \in 1..Len(buf) /\ Taken + i \in 1..Len(output)
      BY ONLY <1>3, <2>1, <2>2, <2>3
    <3> QED
      BY <1>4, <1>6, <1>7, <3>1
  <2>4. CASE i > Len(buf)
    <3>1. /\ i - Len(buf) \in 1..Len(b) /\ Len(buf) + (i - Len(buf)) = i
          /\ Len(output) + (i - Len(buf)) = Taken + i
      BY ONLY <1>3, <2>1, <2>2, <2>4
    <3>2. /\ output'[Len(output) + (i - Len(buf))] = b[i - Len(buf)]
          /\ buf'[Len(buf) + (i - Len(buf))] = b[i - Len(buf)]
      BY ONLY <1>4, <3>1
    <3> QED
      BY ONLY <1>7, <3>1, <3>2
  <2> QED
    BY ONLY <1>3, <2>1, <2>3, <2>4
<1>9. Taken' = 0 \/ output'[Taken'] = "LF"
  <2>1. Taken # 0 => Taken \in 1..Len(output)
    BY ONLY <1>3, <1>6, <1>7
  <2> QED
    BY ONLY <1>4, <1>6, <1>7, <2>1
<1>10. {e \in Newlines(output') : e <= Taken'} = {e \in Newlines(output) : e <= Taken}
  <2>1. \A e \in 1..Len(output') : e <= Taken => e \in 1..Len(output)
    BY ONLY <1>3, <1>6, <1>7
  <2>2. 1..Len(output) \subseteq 1..Len(output')
    BY ONLY <1>3
  <2> QED
    BY ONLY <1>4, <1>7, <2>1, <2>2 DEF Newlines
<1>11. IsSplit(output', {e \in Newlines(output') : e <= Taken'}, emitted')
  <2>1. {e \in Newlines(output) : e <= Taken} \in SUBSET (1..Len(output))
    BY <1>4 DEF Newlines
  <2> QED
    BY <1>1, <1>2, <1>6, <1>10, <2>1, SplitGrows
<1>12. BufferIsRest'
  BY <1>2, <1>6, <1>7, <1>8, <1>9, <1>11 DEF BufferIsRest
<1> QED
  BY <1>5, <1>12 DEF WriterInv

\* line ends at e0, after the lines so far.
NextLine(line, e0) ==
    /\ line \in Seq(Bytes)
    /\ IsSplit(output, {e \in Newlines(output) : e <= Taken} \cup {e0}, Append(emitted, line))

\* The next line may be any of the first bytes of the buffer.
LEMMA TakeLine ==
    ASSUME WriterInv, call # "closed", NEW n \in 0..Len(buf)
    PROVE  NextLine(trimCR(SubSeq(buf, 1, n)), Taken + n + 1)
<1> DEFINE ends == {e \in Newlines(output) : e <= Taken}
           e0 == Taken + n + 1
           line == trimCR(SubSeq(buf, 1, n))
<1>1. /\ Len(output) \in Nat /\ Len(buf) \in Nat /\ Taken \in Nat /\ Taken + Len(buf) = Len(output)
      /\ DOMAIN output = 1..Len(output) /\ DOMAIN buf = 1..Len(buf)
      /\ \A i \in 1..Len(buf) : buf[i] = output[Taken + i]
      /\ Taken = 0 \/ output[Taken] = "LF"
      /\ IsSplit(output, {e \in Newlines(output) : e <= Taken}, emitted)
      /\ output \in Seq(Bytes) /\ buf \in Seq(Bytes) /\ emitted \in Seq(Seq(Bytes))
  BY OpenWriter
<1>2. SubSeq(buf, 1, n) = SubSeq(output, Taken + 1, e0 - 1)
  <2>1. e0 - 1 = Taken + n /\ n \in Nat /\ n <= Len(buf)
    BY <1>1
  <2>2. SubSeq(buf, 1, n) = [i \in 1..n |-> buf[i]]
    BY ONLY <1>1, <2>1
  <2>3. SubSeq(output, Taken + 1, Taken + n) = [i \in 1..n |-> output[Taken + i]]
    BY ONLY <1>1, <2>1
  <2>4. \A i \in 1..n : buf[i] = output[Taken + i]
    BY ONLY <1>1, <2>1
  <2> QED
    BY ONLY <2>1, <2>2, <2>3, <2>4
<1>3. line \in Seq(Bytes)
  <2>1. SubSeq(buf, 1, n) \in Seq(Bytes)
    BY <1>1
  <2> QED
    BY <2>1, TrimmedIsLine
<1>4. ends \in SUBSET (1..Len(output)) /\ Taken \in ends \cup {0} /\ \A c \in ends : c <= Taken
  BY <1>1 DEF Newlines
<1>5. e0 \in Nat /\ Taken < e0
  BY <1>1
<1>6. line = trimCR(SubSeq(output, Taken + 1, e0 - 1))
  BY <1>2
<1>7. IsSplit(output, ends, emitted)
  BY <1>1
<1> HIDE DEF ends, e0, line
<1>8. IsSplit(output, ends \cup {e0}, Append(emitted, line))
  BY <1>1, <1>3, <1>4, <1>5, <1>6, <1>7, AddLine
<1> QED
  BY <1>3, <1>8 DEF NextLine, ends, e0, line

LEMMA EmitLineStep ==
    ASSUME WriterInv, EmitLine
    PROVE  WriterInv'
<1>1. PICK i \in Newlines(buf) :
        /\ \A k \in Newlines(buf) : i <= k
        /\ emitted' = Append(emitted, trimCR(SubSeq(buf, 1, i - 1)))
        /\ buf' = SubSeq(buf, i + 1, Len(buf))
  BY DEF EmitLine
<1>2. call = "write" /\ call' = "write" /\ output' = output
  BY DEF EmitLine
<1>3. /\ Len(output) \in Nat /\ Len(buf) \in Nat /\ Taken \in Nat /\ Taken + Len(buf) = Len(output)
      /\ DOMAIN output = 1..Len(output) /\ DOMAIN buf = 1..Len(buf)
      /\ \A j \in 1..Len(buf) : buf[j] = output[Taken + j]
      /\ output \in Seq(Bytes) /\ buf \in Seq(Bytes) /\ emitted \in Seq(Seq(Bytes))
      /\ Len(output) <= MaxOutput
  BY <1>2, OpenWriter
<1>4. i \in 1..Len(buf) /\ buf[i] = "LF" /\ i - 1 \in 0..Len(buf) /\ Taken + (i - 1) + 1 = Taken + i
  BY <1>3 DEF Newlines
<1> DEFINE ends == {e \in Newlines(output) : e <= Taken}
           line == trimCR(SubSeq(buf, 1, i - 1))
<1>5. line \in Seq(Bytes) /\ IsSplit(output, ends \cup {Taken + i}, Append(emitted, line))
  <2>1. NextLine(line, Taken + (i - 1) + 1)
    BY <1>2, <1>4, TakeLine
  <2> QED
    BY <1>4, <2>1 DEF NextLine
<1>6. /\ buf' \in Seq(Bytes) /\ Len(buf') = Len(buf) - i /\ DOMAIN buf' = 1..Len(buf) - i
      /\ \A j \in 1..Len(buf) - i : buf'[j] = buf[i + j]
  <2>1. buf' = SubSeq(buf, i + 1, Len(buf)) /\ i \in Nat /\ i <= Len(buf)
    BY <1>1, <1>3, <1>4
  <2>2. \A b \in Seq(Bytes) : \A m \in Nat : m <= Len(b) =>
            LET c == SubSeq(b, m + 1, Len(b))
            IN  /\ c \in Seq(Bytes) /\ Len(c) = Len(b) - m /\ DOMAIN c = 1..Len(b) - m
                /\ \A j \in 1..Len(b) - m : c[j] = b[m + j]
    OBVIOUS
  <2> QED
    BY ONLY <1>3, <2>1, <2>2
<1>7. Taken' = Taken + i
  BY <1>2, <1>3, <1>4, <1>6 DEF Taken
<1>8. WriterTypeOK'
  BY <1>1, <1>2, <1>3, <1>5, <1>6 DEF WriterTypeOK
<1>9. \A j \in DOMAIN buf' : buf'[j] = output'[Taken' + j]
  <2>1. \A j \in 1..Len(buf) - i : /\ i + j \in 1..Len(buf)
                                  /\ Taken + (i + j) = (Taken + i) + j
    BY ONLY <1>3, <1>4
  <2> QED
    BY ONLY <1>2, <1>3, <1>6, <1>7, <2>1
<1>10. output'[Taken'] = "LF" /\ Taken' \in Nat
  BY <1>2, <1>3, <1>4, <1>7
<1>11. {e \in Newlines(output') : e <= Taken'} = ends \cup {Taken + i}
  <2>1. Taken + i \in Newlines(output)
    BY <1>2, <1>3, <1>4 DEF Newlines
  <2>2. ASSUME NEW e \in Newlines(output), e <= Taken + i, e > Taken PROVE e = Taken + i
    <3>1. e \in 1..Len(output) /\ output[e] = "LF"
      BY <1>3 DEF Newlines
    <3>2. e - Taken \in 1..Len(buf) /\ Taken + (e - Taken) = e
      BY ONLY <1>3, <2>2, <3>1
    <3>3. e - Taken \in Newlines(buf)
      BY <1>3, <3>1, <3>2 DEF Newlines
    <3>4. i <= e - Taken
      BY <1>1, <3>3
    <3> QED
      BY ONLY <1>3, <1>4, <2>2, <3>1, <3>4
  <2>3. \A e \in Newlines(output) : e \in Nat
    BY <1>3 DEF Newlines
  <2>4. Taken \in Nat /\ i \in Nat /\ \A e \in ends : e <= Taken
    BY <1>3, <1>4
  <2>5. \A e \in Newlines(output) : e <= Taken + i <=> e <= Taken \/ e = Taken + i
    BY ONLY <2>2, <2>3, <2>4
  <2> QED
    BY <1>2, <1>7, <2>1, <2>5
<1>12. IsSplit(output', {e \in Newlines(output') : e <= Taken'}, emitted')
  BY <1>1, <1>2, <1>5, <1>11
<1>13. BufferIsRest'
  BY <1>2, <1>9, <1>10, <1>12 DEF BufferIsRest
<1> QED
  BY <1>8, <1>13 DEF WriterInv

\* Between two calls of Write all newlines so far have ended a line.
LEMMA NothingPending ==
    ASSUME WriterInv, call = "none"
    PROVE  {e \in Newlines(output) : e <= Taken} = Newlines(output)
<1>1. /\ Len(output) \in Nat /\ Len(buf) \in Nat /\ Taken \in Nat /\ Taken + Len(buf) = Len(output)
      /\ DOMAIN output = 1..Len(output) /\ DOMAIN buf = 1..Len(buf)
      /\ \A i \in 1..Len(buf) : buf[i] = output[Taken + i]
  BY OpenWriter
<1>2. Newlines(buf) = {}
  BY DEF WriterInv, BufferIsRest
<1>3. ASSUME NEW e \in Newlines(output), ~(e <= Taken) PROVE FALSE
  <2>1. e \in 1..Len(output) /\ output[e] = "LF"
    BY <1>1 DEF Newlines
  <2>2. e - Taken \in 1..Len(buf) /\ Taken + (e - Taken) = e
    BY ONLY <1>1, <1>3, <2>1
  <2>3. e - Taken \in Newlines(buf)
    BY <1>1, <2>1, <2>2 DEF Newlines
  <2> QED
    BY <1>2, <2>3
<1> QED
  BY <1>3

LEMMA WriteReturnsStep ==
    ASSUME WriterInv, WriteReturns
    PROVE  WriterInv'
<1>1. /\ call = "write" /\ call' = "none" /\ Newlines(buf) = {}
      /\ output' = output /\ buf' = buf /\ emitted' = emitted
  BY DEF WriteReturns
<1>2. WriterTypeOK'
  BY <1>1 DEF WriterInv, WriterTypeOK
<1>3. BufferIsRest'
  BY <1>1 DEF WriterInv, BufferIsRest, Taken
<1> QED
  BY <1>2, <1>3 DEF WriterInv

LEMMA ClosedWriter ==
    ASSUME output' \in Seq(Bytes), Len(output') <= MaxOutput, buf' = <<>>, call' = "closed",
           emitted' \in Seq(Seq(Bytes)), IsSplit(output', LineEnds(output', TRUE), emitted')
    PROVE  WriterInv'
<1>1. WriterTypeOK'
  BY DEF WriterTypeOK
<1>2. EmittedIsSplit'
  BY DEF EmittedIsSplit
<1>3. Newlines(buf') = {}
  BY DEF Newlines
<1>4. BufferIsRest'
  BY <1>2, <1>3 DEF BufferIsRest
<1> QED
  BY <1>1, <1>4 DEF WriterInv

LEMMA CloseWriterStep ==
    ASSUME WriterInv, CloseWriter
    PROVE  WriterInv'
<1>1. /\ call = "none" /\ call' = "closed" /\ output' = output /\ buf' = <<>>
      /\ emitted' = IF buf = <<>> THEN emitted ELSE Append(emitted, trimCR(buf))
  BY DEF CloseWriter
<1>2. /\ Len(output) \in Nat /\ Len(buf) \in Nat /\ Taken \in Nat /\ Taken + Len(buf) = Len(output)
      /\ DOMAIN output = 1..Len(output) /\ DOMAIN buf = 1..Len(buf)
      /\ \A i \in 1..Len(buf) : buf[i] = output[Taken + i]
      /\ Taken = 0 \/ output[Taken] = "LF"
      /\ IsSplit(output, {e \in Newlines(output) : e <= Taken}, emitted)
      /\ output \in Seq(Bytes) /\ buf \in Seq(Bytes) /\ emitted \in Seq(Seq(Bytes))
      /\ Len(output) <= MaxOutput
  BY <1>1, OpenWriter
<1>3. {e \in Newlines(output) : e <= Taken} = Newlines(output) /\ Newlines(buf) = {}
  BY <1>1, NothingPending DEF WriterInv, BufferIsRest
<1>4. CASE buf = <<>>
  <2>0. /\ Len(output) \in Nat /\ Taken \in Nat /\ Len(buf) = 0
        /\ Taken + Len(buf) = Len(output)
    BY <1>2, <1>4
  <2>1. Taken = Len(output)
    BY ONLY <2>0
  <2>2. output # <<>> => output[Len(output)] = "LF"
    BY <1>2, <2>1
  <2>3. LineEnds(output, TRUE) = Newlines(output)
    BY <2>2 DEF LineEnds
  <2>4. IsSplit(output', LineEnds(output', TRUE), emitted') /\ emitted' \in Seq(Seq(Bytes))
    BY <1>1, <1>2, <1>3, <1>4, <2>3
  <2> QED
    BY <1>1, <1>2, <2>4, ClosedWriter
<1>5. CASE buf # <<>>
  <2>0. /\ Len(buf) \in Nat /\ Len(buf) # 0 /\ Len(output) \in Nat /\ Taken \in Nat
        /\ Taken + Len(buf) = Len(output)
    BY <1>2, <1>5
  <2>1. /\ Len(buf) \in 1..Len(buf) /\ Len(buf) \in 0..Len(buf)
        /\ Taken + Len(buf) + 1 = Len(output) + 1 /\ Len(output) # 0
    BY ONLY <2>0
  <2>2. output # <<>> /\ output[Len(output)] # "LF"
    <3>1. Len(buf) \notin Newlines(buf)
      BY <1>3
    <3>2. buf[Len(buf)] # "LF"
      BY <1>2, <2>1, <3>1 DEF Newlines
    <3>3. output[Len(output)] = buf[Len(buf)]
      BY <1>2, <2>0, <2>1
    <3>4. output # <<>>
      BY <2>1
    <3> QED
      BY <3>2, <3>3, <3>4
  <2>3. LineEnds(output, TRUE) = Newlines(output) \cup {Len(output) + 1}
    BY <2>2 DEF LineEnds
  <2>4. SubSeq(buf, 1, Len(buf)) = buf
    BY <1>2
  <2>5. /\ trimCR(buf) \in Seq(Bytes)
        /\ IsSplit(output, Newlines(output) \cup {Len(output) + 1}, Append(emitted, trimCR(buf)))
    <3>1. NextLine(trimCR(SubSeq(buf, 1, Len(buf))), Taken + Len(buf) + 1)
      BY <1>1, <2>1, TakeLine
    <3> QED
      BY <1>3, <2>1, <2>4, <3>1 DEF NextLine
  <2>6. IsSplit(output', LineEnds(output', TRUE), emitted') /\ emitted' \in Seq(Seq(Bytes))
    <3>1. emitted' = Append(emitted, trimCR(buf)) /\ output' = output
      BY <1>1, <1>5
    <3>2. emitted' \in Seq(Seq(Bytes))
      BY ONLY <1>2, <2>5, <3>1
    <3>3. LineEnds(output', TRUE) = Newlines(output) \cup {Len(output) + 1}
      BY <2>3, <3>1
    <3> QED
      BY ONLY <2>5, <3>1, <3>2, <3>3
  <2> QED
    BY <1>1, <1>2, <2>6, ClosedWriter
<1> QED
  BY <1>4, <1>5

LEMMA SplitSoFar == WriterInv => EmittedIsSplit
<1> SUFFICES ASSUME WriterInv, call = "none" PROVE EmittedIsSplit
  BY DEF WriterInv, WriterTypeOK, BufferIsRest, EmittedIsSplit
<1>1. LineEnds(output, FALSE) = Newlines(output)
  BY DEF LineEnds
<1>2. IsSplit(output, Newlines(output), emitted)
  BY NothingPending, OpenWriter
<1> QED
  BY <1>1, <1>2 DEF EmittedIsSplit

LEMMA WriterStands == WriterInv /\ UNCHANGED writerVars => WriterInv'
<1> SUFFICES ASSUME WriterInv, UNCHANGED writerVars PROVE WriterInv'
  OBVIOUS
<1>1. output' = output /\ buf' = buf /\ emitted' = emitted /\ call' = call
  BY DEF writerVars
<1> QED
  BY <1>1 DEF WriterInv, WriterTypeOK, BufferIsRest, Taken, EmittedIsSplit
=============================================================================
