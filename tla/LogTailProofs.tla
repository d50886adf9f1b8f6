--------------------------- MODULE LogTailProofs ---------------------------
(* Theorems about LogTail, for every length of the stream, of a read and of *)
(* the channel.                                                             *)
EXTENDS LogTail, TLAPS

-----------------------------------------------------------------------------
(* Types                                                                   *)

\* The channel and what was sent, as sequences of numbers.
LEMMA Appended ==
    ASSUME NEW S, NEW s \in Seq(S), NEW e \in S
    PROVE  /\ Append(s, e) \in Seq(S)
           /\ Len(Append(s, e)) = Len(s) + 1
           /\ Append(s, e) # <<>>
           /\ \A i \in DOMAIN s : Append(s, e)[i] = s[i]
           /\ Append(s, e)[Len(s) + 1] = e
           /\ DOMAIN Append(s, e) = DOMAIN s \cup {Len(s) + 1}
OBVIOUS

LEMMA Shortened ==
    ASSUME NEW S, NEW s \in Seq(S), s # <<>>
    PROVE  /\ Tail(s) \in Seq(S)
           /\ Len(Tail(s)) = Len(s) - 1
           /\ Head(s) = s[1] /\ s[1] \in S
           /\ DOMAIN Tail(s) = 1..Len(s) - 1
           /\ \A i \in DOMAIN Tail(s) : Tail(s)[i] = s[i + 1]
OBVIOUS

LEMMA Queued ==
    ASSUME NEW S, NEW s \in Seq(S), NEW e \in S, NEW t,
           NEW cap \in Nat, Len(s) <= cap,
           (Len(s) < cap /\ t = Append(s, e)) \/ t = s
    PROVE  t \in Seq(S) /\ Len(t) <= cap
OBVIOUS

LEMMA Extended ==
    ASSUME NEW S, NEW s \in Seq(S), NEW e \in S, NEW t, t = Append(s, e) \/ t = s
    PROVE  t \in Seq(S)
OBVIOUS

LEMMA Wider == ASSUME NEW S, NEW T, S \subseteq T, NEW s \in Seq(S) PROVE s \in Seq(T)
OBVIOUS

LEMMA TypeInit == Init => TypeOK
<1>1. <<>> \in Seq(Entries) /\ Len(<<>>) <= ChanCap
  BY BoundsAssumption
<1>2. 1 \in 1..MaxEntries + 1 /\ 0 \in 0..MaxEntries
  BY BoundsAssumption
<1> QED
  BY <1>1, <1>2 DEF Init, TypeOK

LEMMA TypeStep == TypeOK /\ Numbered /\ [Next]_vars => TypeOK'
<1> SUFFICES ASSUME TypeOK, Numbered, [Next]_vars PROVE TypeOK'
  OBVIOUS
<1> USE BoundsAssumption DEF TypeOK, Entries, streamVars, pumpVars, socketVars, historyVars
<1>1. CASE Publish
  BY <1>1 DEF Publish
<1>2. CASE Finish
  BY <1>2 DEF Finish
<1>3. CASE Trim
  BY <1>3 DEF Trim
<1>4. CASE PumpCheck
  BY <1>4 DEF PumpCheck, PumpReturns
<1>5. CASE ReadEntries
  BY <1>5 DEF ReadEntries, Stored
<1>6. CASE ReadNil
  BY <1>6 DEF ReadNil
<1>7. CASE ReadError
  BY <1>7 DEF ReadError, PumpReturns
<1>8. CASE AskFinished
  BY <1>8 DEF AskFinished, PumpReturns
<1>9. CASE Send
  <2>1. from \in Entries
    BY <1>9 DEF Send, Numbered
  <2>2. lastID' \in 0..MaxEntries /\ from' \in 1..MaxEntries + 1
    BY <1>9, <2>1 DEF Send
  <2>3. (Len(frames) < ChanCap /\ frames' = Append(frames, from)) \/ frames' = frames
    BY <1>9, Zenon DEF Send
  <2>4. frames \in Seq(Entries) /\ Len(frames) <= ChanCap /\ ChanCap \in Nat
    OBVIOUS
  <2>5. frames' \in Seq(Entries) /\ Len(frames') <= ChanCap
    BY ONLY <2>1, <2>3, <2>4, Queued
  <2> QED
    BY <1>9, <2>2, <2>5 DEF Send
<1>10. CASE WriteFrame
  <2>0. /\ Tail(frames) \in Seq(Entries) /\ Len(Tail(frames)) = Len(frames) - 1
        /\ Head(frames) \in Entries /\ Len(frames) \in Nat
    BY <1>10, Shortened DEF WriteFrame
  <2>1. frames' \in Seq(Entries) /\ Len(frames') <= ChanCap
    BY <1>10, <2>0 DEF WriteFrame
  <2>2. sent' \in Seq(Entries)
    <3>1. sent' = Append(sent, Head(frames)) \/ sent' = sent
      BY <1>10, Zenon DEF WriteFrame
    <3>2. sent \in Seq(Entries) /\ Head(frames) \in Entries
      BY <2>0
    <3> QED
      BY ONLY <3>1, <3>2, Extended
  <2> QED
    BY <1>10, <2>1, <2>2 DEF WriteFrame, WriterReturns
<1>11. CASE WriteClose \/ WriterStops
  BY <1>11 DEF WriteClose, WriterStops, WriterReturns
<1>12. CASE ReaderStops \/ ClientLeaves \/ Expire
  BY <1>12 DEF ReaderStops, ClientLeaves, Expire
<1>13. CASE UNCHANGED vars
  BY <1>13 DEF vars
<1> QED
  BY <1>1, <1>2, <1>3, <1>4, <1>5, <1>6, <1>7, <1>8, <1>9, <1>10, <1>11, <1>12, <1>13
  DEF Next, Task, Pump, Writer

-----------------------------------------------------------------------------
(* The pump's numbers                                                      *)

LEMMA NumberedInit == Init => Numbered
BY DEF Init, Numbered

LEMMA NumberedStep == TypeOK /\ Numbered /\ [Next]_vars => Numbered'
<1> SUFFICES ASSUME TypeOK, Numbered, [Next]_vars PROVE Numbered'
  OBVIOUS
<1> USE BoundsAssumption DEF TypeOK, Numbered, Entries, streamVars, pumpVars
<1>1. CASE Publish
  <2>1. added' = added + 1 /\ UNCHANGED <<first, pump, lastID, batch, from>>
    BY <1>1 DEF Publish
  <2>2. ends' = ends \/ ends' = ends \cup {added + 1}
    BY <1>1, <2>1 DEF Publish
  <2>3. /\ added \in Nat /\ first \in Nat /\ lastID \in Nat /\ batch \in Nat
        /\ ends \subseteq 1..added /\ first <= added + 1 /\ lastID <= added
    OBVIOUS
  <2>5. ends' \subseteq ends \cup {added + 1}
    BY ONLY <2>2
  <2>6. \A e \in ends : e \in 1..added + 1
    BY ONLY <2>3
  <2>7. added + 1 \in 1..added + 1
    BY ONLY <2>3
  <2>8. ends' \subseteq 1..added'
    BY ONLY <2>1, <2>5, <2>6, <2>7
  <2>4. first' <= added' + 1 /\ lastID' <= added' /\ (batch <= added => batch' <= added')
    BY ONLY <2>1, <2>3
  <2> QED
    BY ONLY Numbered, <2>1, <2>4, <2>8 DEF Numbered, Entries
<1>2. CASE Finish
  BY <1>2 DEF Finish
<1>3. CASE Trim
  BY <1>3 DEF Trim
<1>4. CASE PumpCheck
  BY <1>4 DEF PumpCheck, PumpReturns
<1>5. CASE ReadEntries
  <2>1. PICK i \in Entries : i > lastID /\ first <= i /\ i <= added
    BY <1>5 DEF ReadEntries, Stored
  <2>2. /\ lastID < from' /\ from' <= added
        /\ \A k \in Entries : lastID < k /\ k < from' => k < first
    BY <1>5, <2>1 DEF ReadEntries
  <2>3. from' <= batch' /\ batch' <= added
    BY <1>5, <2>2 DEF ReadEntries
  <2> QED
    BY <1>5, <2>2, <2>3 DEF ReadEntries
<1>6. CASE ReadNil
  BY <1>6 DEF ReadNil
<1>7. CASE ReadError
  BY <1>7 DEF ReadError, PumpReturns
<1>8. CASE AskFinished
  BY <1>8 DEF AskFinished, PumpReturns
<1>9. CASE Send
  <2>1. pump' = "send" => from # batch
    BY <1>9 DEF Send
  <2> QED
    BY <1>9, <2>1 DEF Send
<1>10. CASE Writer \/ ReaderStops \/ ClientLeaves \/ Expire \/ UNCHANGED vars
  BY <1>10 DEF Writer, WriteFrame, WriteClose, WriterStops, ReaderStops, ClientLeaves, Expire, vars
<1> QED
  BY <1>1, <1>2, <1>3, <1>4, <1>5, <1>6, <1>7, <1>8, <1>9, <1>10 DEF Next, Task, Pump

\* Every variable keeps its type: no read and no frame is past the stream's end.
THEOREM TypeCorrect == Spec => []TypeOK
<1>1. Init => TypeOK /\ Numbered
  BY TypeInit, NumberedInit
<1>2. TypeOK /\ Numbered /\ [Next]_vars => (TypeOK /\ Numbered)'
  BY TypeStep, NumberedStep
<1> QED
  BY <1>1, <1>2, PTL DEF Spec

-----------------------------------------------------------------------------
(* What is handed on, and what is sent of it                               *)

FeedInv == TypeOK /\ Numbered /\ Ordered /\ Gapless /\ FaithfulFeed

\* What a step that neither hands an entry on nor takes one from the channel may
\* do: number new entries, drop old ones, end the goroutines.
Quiet ==
    /\ UNCHANGED <<sent, frames, lastID>>
    /\ ends' \subseteq ends \cup {added + 1}
    /\ first' \in Nat /\ first <= first'
    /\ pump' # "gone" => pump # "gone"
    /\ writer' = "loop" => writer = "loop"
    /\ ctxDone => ctxDone'

LEMMA QuietSteps == FeedInv /\ [Next]_vars /\ TypeOK' => Send \/ WriteFrame \/ Quiet
<1> SUFFICES ASSUME FeedInv, [Next]_vars, TypeOK', ~Send, ~WriteFrame PROVE Quiet
  OBVIOUS
<1> USE DEF Quiet, FeedInv, TypeOK, streamVars, pumpVars, socketVars, historyVars
<1>1. CASE Task
  BY <1>1 DEF Task, Publish, Finish, Trim
<1>2. CASE Pump
  BY <1>2 DEF Pump, PumpCheck, ReadEntries, ReadNil, ReadError, AskFinished, PumpReturns
<1>3. CASE Writer \/ ReaderStops \/ ClientLeaves \/ Expire
  BY <1>3 DEF Writer, WriteClose, WriterStops, WriterReturns, ReaderStops, ClientLeaves, Expire
<1>4. CASE UNCHANGED vars
  BY <1>4 DEF vars
<1> QED
  BY <1>1, <1>2, <1>3, <1>4 DEF Next

\* The elements of the channel and of the socket, and the numbers they stay under.
LEMMA Elements ==
    ASSUME TypeOK
    PROVE  /\ Len(sent) \in Nat /\ Len(frames) \in Nat
           /\ DOMAIN sent = 1..Len(sent) /\ DOMAIN frames = 1..Len(frames)
           /\ \A i \in DOMAIN sent : sent[i] \in Nat \ {0}
           /\ \A i \in DOMAIN frames : frames[i] \in Nat \ {0}
           /\ sent = <<>> <=> Len(sent) = 0
           /\ frames = <<>> <=> Len(frames) = 0
           /\ added \in Nat /\ first \in Nat /\ lastID \in Nat
           /\ \A e \in ends : e \in Nat
BY BoundsAssumption DEF TypeOK, Entries

LEMMA QuietFeed == FeedInv /\ Quiet => Ordered' /\ Gapless' /\ FaithfulFeed'
<1> SUFFICES ASSUME FeedInv, Quiet PROVE Ordered' /\ Gapless' /\ FaithfulFeed'
  OBVIOUS
<1> USE Elements DEF FeedInv, Quiet, Numbered
<1>1. \A n \in Nat : n <= lastID /\ n \notin ends => n \notin ends'
  OBVIOUS
<1>2. Ordered'
  BY <1>1 DEF Ordered, LastHanded, Last0
<1>3. Gapless'
  <2>1. LastHanded' = LastHanded
    BY DEF LastHanded, Last0
  <2>2. SUFFICES ASSUME writer = "loop", NEW i \in 1..LastHanded
                 PROVE  \/ i < first'
                        \/ \E j \in DOMAIN sent : sent[j] = i
                        \/ \E j \in DOMAIN frames : frames[j] = i
    BY <2>1 DEF Gapless
  <2>3. i \in Nat /\ (i < first => i < first')
    BY <2>1
  <2> QED
    BY <2>2, <2>3 DEF Gapless
<1>4. FaithfulFeed'
  <2>1. \A i \in 1..Len(sent) - 1 : sent[i] < sent[i + 1] /\ sent[i] \notin ends'
    <3> SUFFICES ASSUME NEW i \in 1..Len(sent) - 1 PROVE sent[i] < sent[i + 1] /\ sent[i] \notin ends'
      OBVIOUS
    <3>1. i \in DOMAIN sent /\ sent[i] < sent[i + 1] /\ sent[i] \notin ends
      BY DEF FaithfulFeed
    <3>2. sent[i] \in Nat /\ sent[i] <= lastID
      BY <3>1 DEF Ordered
    <3> QED
      BY ONLY <1>1, <3>1, <3>2
  <2>2. Last0(sent') = Last0(sent)
    BY ONLY Quiet DEF Quiet, Last0
  <2>3. \A i \in 1..Last0(sent) : i < first' \/ \E j \in DOMAIN sent : sent[j] = i
    <3> SUFFICES ASSUME NEW i \in 1..Last0(sent) PROVE i < first' \/ \E j \in DOMAIN sent : sent[j] = i
      OBVIOUS
    <3>1. i \in Nat /\ (i < first \/ \E j \in DOMAIN sent : sent[j] = i)
      BY DEF FaithfulFeed
    <3> QED
      BY <3>1
  <2>4. sent' = sent
    BY ONLY Quiet DEF Quiet
  <2> QED
    BY ONLY <2>1, <2>2, <2>3, <2>4 DEF FaithfulFeed
<1> QED
  BY <1>2, <1>3, <1>4

LEMMA Numbers == ASSUME TypeOK PROVE frames \in Seq(Nat) /\ sent \in Seq(Nat)
<1>1. Entries \subseteq Nat /\ frames \in Seq(Entries) /\ sent \in Seq(Entries)
  BY BoundsAssumption DEF TypeOK, Entries
<1> QED
  BY ONLY <1>1, Wider

\* Send puts the next number behind what was handed on, or drops it for good.
LEMMA SendFeed == FeedInv /\ Send => Ordered' /\ Gapless' /\ FaithfulFeed'
<1> SUFFICES ASSUME FeedInv, Send PROVE Ordered' /\ Gapless' /\ FaithfulFeed'
  OBVIOUS
<1>0. /\ pump = "send" /\ lastID' = from
      /\ UNCHANGED <<added, first, ends, writer, ctxDone, sent>>
  BY Zenon DEF Send, streamVars, socketVars
<1>1. /\ from \in Nat \ {0} /\ lastID < from /\ from <= added /\ lastID \notin ends
      /\ \A i \in Nat \ {0} : lastID < i /\ i < from => i < first
  <2>1. TypeOK /\ Numbered /\ lastID \notin ends
    BY <1>0 DEF FeedInv, Ordered
  <2>2. from \in Nat \ {0} /\ lastID < from /\ from <= added /\ added \in 0..MaxEntries
    BY ONLY <1>0, <2>1, BoundsAssumption DEF TypeOK, Numbered
  <2>3. \A i \in Entries : lastID < i /\ i < from => i < first
    BY ONLY <1>0, <2>1 DEF Numbered
  <2>4. \A i \in Nat \ {0} : i < from => i \in Entries
    BY ONLY <2>2, BoundsAssumption DEF Entries
  <2> QED
    BY ONLY <2>1, <2>2, <2>3, <2>4
<1>2. FaithfulFeed'
  BY ONLY <1>0, FeedInv DEF FeedInv, FaithfulFeed, Last0
<1>3. CASE frames' = Append(frames, from)
  <2>1. /\ frames \in Seq(Nat) /\ frames' \in Seq(Nat)
        /\ Len(frames') = Len(frames) + 1 /\ frames' # <<>>
        /\ \A i \in DOMAIN frames : frames'[i] = frames[i]
        /\ frames'[Len(frames) + 1] = from
        /\ DOMAIN frames' = DOMAIN frames \cup {Len(frames) + 1}
    <3>1. frames \in Seq(Nat) /\ from \in Nat
      BY <1>1, Numbers DEF FeedInv
    <3> QED
      BY ONLY <1>3, <3>1, Appended
  <2>2. pump' # "gone" => from \notin ends
    BY <1>3, <1>0 DEF Send
  <2>3. \A i \in DOMAIN frames : frames[i] < from /\ frames[i] \notin ends
    <3> SUFFICES ASSUME NEW i \in DOMAIN frames PROVE frames[i] < from /\ frames[i] \notin ends
      OBVIOUS
    <3>1. /\ DOMAIN frames = 1..Len(frames) /\ Len(frames) \in Nat
          /\ frames[i] \in Nat /\ lastID \in Nat /\ frames # <<>>
      BY Elements DEF FeedInv
    <3>2. frames[i] <= lastID
      BY DEF FeedInv, Ordered
    <3>3. lastID \notin ends /\ frames[Len(frames)] = lastID
      BY <1>0, <3>1 DEF FeedInv, Ordered
    <3>4. i < Len(frames) => frames[i] \notin ends
      BY <3>1 DEF FeedInv, Ordered
    <3> QED
      BY ONLY <1>1, <3>1, <3>2, <3>3, <3>4
  <2>4. writer = "loop" => LastHanded = lastID
    BY <1>0 DEF FeedInv, Ordered
  <2>5. /\ DOMAIN frames = 1..Len(frames) /\ Len(frames) \in Nat
        /\ \A i \in DOMAIN frames : frames[i] \in Nat
    BY Elements DEF FeedInv
  <2>6. \A i, j \in DOMAIN frames : i < j => frames[i] < frames[j]
    BY DEF FeedInv, Ordered
  <2>7. \A i, j \in DOMAIN frames' : i < j => frames'[i] < frames'[j] /\ frames'[i] \notin ends
    BY ONLY <2>1, <2>3, <2>5, <2>6
  <2>8. \A i \in DOMAIN frames' : frames'[i] <= from
    BY ONLY <1>1, <2>1, <2>3, <2>5
  <2>9. \A i \in DOMAIN sent : sent[i] <= from
    BY <1>1, Elements DEF FeedInv, Ordered
  <2>10. ASSUME writer = "loop", sent # <<>>
        PROVE  sent[Len(sent)] < frames'[1] /\ sent[Len(sent)] \notin ends
    <3>1. CASE frames = <<>>
      BY <2>10, <3>1, <2>1, <2>4, <1>1 DEF LastHanded, Last0
    <3>2. CASE frames # <<>>
      BY <2>10, <3>2, <2>1, Elements DEF FeedInv, Ordered
    <3> QED
      BY <3>1, <3>2
  <2>11. LastHanded' = from
    BY <2>1, Elements DEF LastHanded, FeedInv
  <2>12. frames'[Len(frames')] = from
    BY <2>1
  <2>13. Ordered'
    BY ONLY <1>0, <2>1, <2>2, <2>7, <2>8, <2>9, <2>10, <2>11, <2>12 DEF Ordered
  <2>14. ASSUME writer = "loop", NEW i \in 1..from
         PROVE  \/ i < first
                \/ \E j \in DOMAIN sent : sent[j] = i
                \/ \E j \in DOMAIN frames' : frames'[j] = i
    <3>1. CASE i <= lastID
      <4>1. i \in 1..LastHanded
        BY <2>14, <3>1, <2>4, <1>1, Elements DEF FeedInv
      <4>2. \/ i < first
            \/ \E j \in DOMAIN sent : sent[j] = i
            \/ \E j \in DOMAIN frames : frames[j] = i
        BY <4>1, <2>14 DEF FeedInv, Gapless
      <4> QED
        BY ONLY <4>2, <2>1
    <3>2. CASE lastID < i /\ i < from
      BY <3>2, <1>1
    <3>3. CASE i = from
      BY <3>3, <2>1
    <3> QED
      BY <3>1, <3>2, <3>3, <1>1, Elements DEF FeedInv
  <2>15. Gapless'
    BY ONLY <1>0, <2>11, <2>14 DEF Gapless
  <2> QED
    BY <1>2, <2>13, <2>15
<1>4. CASE frames' = frames /\ ctxDone /\ pump' = "gone"
  <2>1. \A i \in DOMAIN sent : sent[i] <= from
    BY <1>1, Elements DEF FeedInv, Ordered
  <2>2. \A i \in DOMAIN frames : frames[i] <= from
    BY <1>1, Elements DEF FeedInv, Ordered
  <2>3. Ordered'
    BY ONLY FeedInv, <1>0, <1>4, <2>1, <2>2 DEF FeedInv, Ordered
  <2>4. Gapless'
    BY ONLY FeedInv, <1>0, <1>4 DEF FeedInv, Gapless, LastHanded, Last0
  <2> QED
    BY <1>2, <2>3, <2>4
<1> QED
  BY <1>3, <1>4, Zenon DEF Send

\* The write loop sends the oldest frame: the next number after what it sent, and
\* whatever is missing in between has been trimmed.
LEMMA WriteFeed == FeedInv /\ WriteFrame => Ordered' /\ Gapless' /\ FaithfulFeed'
<1> SUFFICES ASSUME FeedInv, WriteFrame PROVE Ordered' /\ Gapless' /\ FaithfulFeed'
  OBVIOUS
<1>0. /\ writer = "loop" /\ frames # <<>> /\ frames' = Tail(frames)
      /\ UNCHANGED <<added, first, ends, pump, lastID>>
  BY Zenon DEF WriteFrame, streamVars, pumpVars
<1>1. /\ frames \in Seq(Nat) /\ frames' \in Seq(Nat) /\ sent \in Seq(Nat)
      /\ Len(frames') = Len(frames) - 1 /\ Len(frames) \in Nat \ {0}
      /\ Head(frames) = frames[1] /\ frames[1] \in Nat \ {0}
      /\ DOMAIN frames' = 1..Len(frames) - 1
      /\ \A i \in DOMAIN frames' : frames'[i] = frames[i + 1]
  <2>1. frames \in Seq(Nat) /\ sent \in Seq(Nat)
    BY Numbers DEF FeedInv
  <2>2. frames[1] \in Nat \ {0} /\ Len(frames) \in Nat \ {0}
    BY <1>0, Elements DEF FeedInv
  <2> QED
    BY ONLY <1>0, <2>1, <2>2, Shortened
<1>2. /\ \A i \in DOMAIN frames' : frames'[i] <= lastID
      /\ \A i, j \in DOMAIN frames' : i < j => frames'[i] < frames'[j] /\ frames'[i] \notin ends
      /\ frames' # <<>> => frames'[Len(frames')] = frames[Len(frames)]
      /\ frames' # <<>> => frames[1] < frames'[1] /\ frames[1] \notin ends
      /\ frames' = <<>> => Len(frames) = 1
  <2>1. /\ \A i \in DOMAIN frames : frames[i] <= lastID
        /\ \A i, j \in DOMAIN frames : i < j => frames[i] < frames[j] /\ frames[i] \notin ends
        /\ DOMAIN frames = 1..Len(frames)
    <3>1. DOMAIN frames = 1..Len(frames)
      BY Elements DEF FeedInv
    <3>2. Ordered
      BY DEF FeedInv
    <3> QED
      BY ONLY <3>1, <3>2 DEF Ordered
  <2>2. \A i \in DOMAIN frames' : /\ i \in DOMAIN frames /\ i + 1 \in DOMAIN frames
                                 /\ i \in Nat /\ frames'[i] = frames[i + 1]
    <3>1. /\ DOMAIN frames' = 1..Len(frames) - 1 /\ DOMAIN frames = 1..Len(frames)
          /\ Len(frames) \in Nat
      BY ONLY <1>1, <2>1
    <3>2. \A i \in 1..Len(frames) - 1 :
            i \in Nat /\ i \in 1..Len(frames) /\ i + 1 \in 1..Len(frames)
      BY ONLY <3>1
    <3>3. \A i \in DOMAIN frames' : frames'[i] = frames[i + 1]
      BY ONLY <1>1
    <3> QED
      BY ONLY <3>1, <3>2, <3>3
  <2>3. \A i \in DOMAIN frames' : frames'[i] <= lastID
    BY ONLY <2>1, <2>2
  <2>4. \A i, j \in DOMAIN frames' : i < j => frames'[i] < frames'[j] /\ frames'[i] \notin ends
    BY ONLY <2>1, <2>2
  <2>5. frames' = <<>> <=> Len(frames) = 1
    BY ONLY <1>1
  <2>6. ASSUME frames' # <<>>
        PROVE  /\ frames'[Len(frames')] = frames[Len(frames)]
               /\ frames[1] < frames'[1] /\ frames[1] \notin ends
    <3>1. Len(frames') \in DOMAIN frames' /\ 1 \in DOMAIN frames' /\ Len(frames') + 1 = Len(frames)
      BY ONLY <1>1, <2>5, <2>6
    <3> QED
      BY ONLY <2>1, <2>2, <3>1
  <2> QED
    BY ONLY <2>3, <2>4, <2>5, <2>6
<1>3. CASE sent' = Append(sent, frames[1]) /\ UNCHANGED <<writer, ctxDone>>
  <2>1. /\ sent' # <<>> /\ Len(sent') = Len(sent) + 1 /\ Len(sent) \in Nat
        /\ \A i \in DOMAIN sent : sent'[i] = sent[i]
        /\ sent'[Len(sent) + 1] = frames[1]
        /\ DOMAIN sent' = DOMAIN sent \cup {Len(sent) + 1}
        /\ DOMAIN sent = 1..Len(sent)
    <3>1. sent \in Seq(Nat) /\ frames[1] \in Nat
      BY <1>1
    <3> QED
      BY ONLY <3>1, <1>3, Appended
  <2>2. Last0(sent') = frames[1]
    BY ONLY <2>1 DEF Last0
  <2>3. \A i \in DOMAIN sent' : sent'[i] <= lastID
    BY <2>1, <1>0, <1>1 DEF FeedInv, Ordered
  <2>4. LastHanded' = LastHanded
    BY ONLY <1>0, <1>2, <2>2 DEF LastHanded
  <2>5. Ordered'
    <3>1. sent'[Len(sent')] = frames[1]
      BY ONLY <2>1
    <3> QED
      BY ONLY FeedInv, <1>0, <1>2, <1>3, <2>1, <2>3, <2>4, <3>1 DEF FeedInv, Ordered
  <2>6. Gapless'
    <3>0. SUFFICES ASSUME NEW i \in 1..LastHanded
                    PROVE  \/ i < first
                           \/ \E j \in DOMAIN sent' : sent'[j] = i
                           \/ \E j \in DOMAIN frames' : frames'[j] = i
      BY <1>0, <2>4, Zenon DEF Gapless
    <3>1. \/ i < first
          \/ \E j \in DOMAIN sent : sent[j] = i
          \/ \E j \in DOMAIN frames : frames[j] = i
      BY <1>0 DEF FeedInv, Gapless
    <3>2. ASSUME NEW j \in DOMAIN frames, frames[j] = i
          PROVE  \/ \E k \in DOMAIN sent' : sent'[k] = i
                 \/ \E k \in DOMAIN frames' : frames'[k] = i
      <4>1. j \in 1..Len(frames)
        BY Elements DEF FeedInv
      <4>2. CASE j = 1
        BY ONLY <3>2, <4>2, <2>1
      <4>3. CASE j # 1
        <5>1. j - 1 \in DOMAIN frames' /\ (j - 1) + 1 = j
          BY ONLY <4>1, <4>3, <1>1
        <5>2. frames'[j - 1] = frames[j]
          BY ONLY <5>1, <1>1
        <5> QED
          BY ONLY <5>1, <5>2, <3>2
      <4> QED
        BY <4>2, <4>3
    <3> QED
      BY ONLY <3>1, <3>2, <2>1
  <2>7. \A i \in 1..Len(sent') - 1 : sent'[i] < sent'[i + 1] /\ sent'[i] \notin ends
    <3> SUFFICES ASSUME NEW i \in 1..Len(sent) PROVE sent'[i] < sent'[i + 1] /\ sent'[i] \notin ends
      BY <2>1
    <3>1. CASE i = Len(sent)
      <4>1. sent # <<>> /\ sent'[i] = sent[Len(sent)] /\ sent'[i + 1] = frames[1]
        BY <3>1, <2>1, Elements DEF FeedInv
      <4> QED
        BY <4>1, <1>0 DEF FeedInv, Ordered
    <3>2. CASE i # Len(sent)
      <4>1. i \in 1..Len(sent) - 1 /\ i \in DOMAIN sent /\ i + 1 \in DOMAIN sent
        <5>1. i \in Nat /\ 1 <= i /\ i <= Len(sent) /\ Len(sent) \in Nat
          BY ONLY <2>1
        <5>2. i <= Len(sent) - 1
          BY ONLY <3>2, <5>1
        <5> QED
          BY ONLY <5>1, <5>2, <2>1
      <4>2. sent'[i] = sent[i] /\ sent'[i + 1] = sent[i + 1]
        BY ONLY <2>1, <4>1
      <4> QED
        BY <4>1, <4>2 DEF FeedInv, FaithfulFeed
    <3> QED
      BY <3>1, <3>2
  <2>8. ASSUME NEW i \in 1..frames[1]
        PROVE  i < first \/ \E j \in DOMAIN sent' : sent'[j] = i
    <3>1. frames[1] <= LastHanded /\ LastHanded \in Nat
      <4>1. LastHanded = frames[Len(frames)] /\ Len(frames) \in DOMAIN frames /\ 1 \in DOMAIN frames
        BY <1>0, <1>1, Elements DEF FeedInv, LastHanded
      <4>2. frames[Len(frames)] \in Nat /\ frames[1] \in Nat
        BY <4>1, Elements DEF FeedInv
      <4>3. Len(frames) = 1 \/ frames[1] < frames[Len(frames)]
        <5>1. \A k, j \in DOMAIN frames : k < j => frames[k] < frames[j]
          BY DEF FeedInv, Ordered
        <5>2. Len(frames) = 1 \/ 1 < Len(frames)
          BY ONLY <1>1
        <5> QED
          BY ONLY <4>1, <5>1, <5>2
      <4> QED
        BY ONLY <4>1, <4>2, <4>3
    <3>2. \/ i < first
          \/ \E j \in DOMAIN sent : sent[j] = i
          \/ \E j \in DOMAIN frames : frames[j] = i
      <4>1. i \in 1..LastHanded
        BY <1>1, <3>1
      <4> QED
        BY <4>1, <1>0 DEF FeedInv, Gapless
    <3>3. ASSUME NEW j \in DOMAIN frames, frames[j] = i PROVE i = frames[1]
      <4>1. j = 1 \/ 1 < j
        BY <3>3, Elements DEF FeedInv
      <4>2. 1 \in DOMAIN frames
        BY <1>1, Elements DEF FeedInv
      <4>3. 1 < j => frames[1] < frames[j]
        BY <3>3, <4>2 DEF FeedInv, Ordered
      <4>4. i <= frames[1] /\ i \in Nat /\ frames[1] \in Nat
        BY ONLY <2>8, <1>1
      <4> QED
        BY ONLY <3>3, <4>1, <4>3, <4>4
    <3> QED
      BY ONLY <3>2, <3>3, <2>1
  <2>9. FaithfulFeed'
    BY ONLY <1>0, <2>2, <2>7, <2>8 DEF FaithfulFeed
  <2> QED
    BY <2>5, <2>6, <2>9
<1>4. CASE sent' = sent /\ writer' = "gone" /\ ctxDone' = TRUE
  <2>1. Ordered'
    BY ONLY FeedInv, <1>0, <1>2, <1>4 DEF FeedInv, Ordered
  <2>2. Gapless'
    BY ONLY <1>4 DEF Gapless
  <2>3. FaithfulFeed'
    BY ONLY FeedInv, <1>0, <1>4 DEF FeedInv, FaithfulFeed, Last0
  <2> QED
    BY <2>1, <2>2, <2>3
<1> QED
  <2>1. Head(frames) = frames[1]
    BY <1>1
  <2> QED
    BY <1>3, <1>4, <2>1, Zenon DEF WriteFrame, WriterReturns

LEMMA FeedInit == Init => FeedInv
BY TypeInit, NumberedInit DEF Init, FeedInv, Ordered, Gapless, FaithfulFeed, LastHanded, Last0

LEMMA FeedStep == FeedInv /\ [Next]_vars => FeedInv'
<1> SUFFICES ASSUME FeedInv, [Next]_vars PROVE FeedInv'
  OBVIOUS
<1>1. TypeOK' /\ Numbered'
  BY TypeStep, NumberedStep DEF FeedInv
<1> QED
  BY <1>1, QuietSteps, QuietFeed, SendFeed, WriteFeed DEF FeedInv

\* logs.go:155-219: for every rate of the worker and every pace of the client, what
\* is sent is the stream in order, ends with its end, and lacks only entries that
\* Redis had trimmed.
THEOREM FeedIsFaithful == Spec => []FaithfulFeed
<1>1. FeedInv => FaithfulFeed
  BY DEF FeedInv
<1> QED
  BY <1>1, FeedInit, FeedStep, PTL DEF Spec

-----------------------------------------------------------------------------
(* The close                                                               *)

CloseInv == FeedInv /\ Closing /\ CloseDrains /\ CloseIsJustified

LEMMA CloseInit == Init => CloseInv
<1>1. Init => FeedInv
  BY FeedInit
<1> QED
  BY <1>1 DEF Init, CloseInv, Closing, CloseDrains, CloseIsJustified

\* Nothing moves behind a close.
LEMMA ClosedStays ==
    Closing /\ closed /\ [Next]_vars =>
        /\ UNCHANGED <<sent, lastID, pump, writer, closed>>
        /\ finished => finished'
        /\ ends \subseteq ends'
        /\ failed => failed'
        /\ expired => expired'
<1> SUFFICES ASSUME Closing, closed, [Next]_vars
             PROVE  /\ UNCHANGED <<sent, lastID, pump, writer, closed>>
                    /\ finished => finished'
                    /\ ends \subseteq ends'
                    /\ failed => failed'
                    /\ expired => expired'
  OBVIOUS
<1>0. pump = "gone" /\ writer = "gone"
  BY DEF Closing
<1> USE <1>0 DEF streamVars, pumpVars, socketVars, historyVars
<1>1. CASE Task
  <2>1. UNCHANGED <<sent, lastID, pump, writer, closed, failed, expired>>
    BY <1>1 DEF Task, Publish, Finish, Trim
  <2>2. (finished' = finished \/ finished' = TRUE) /\ ends \subseteq ends'
    BY <1>1 DEF Task, Publish, Finish, Trim
  <2> QED
    BY ONLY <2>1, <2>2
<1>2. CASE Pump
  BY <1>2 DEF Pump, PumpCheck, ReadEntries, ReadNil, ReadError, AskFinished, Send
<1>3. CASE Writer \/ ReaderStops \/ ClientLeaves \/ Expire
  <2>1. UNCHANGED <<sent, lastID, pump, writer, closed, failed, finished, ends>>
    BY <1>3 DEF Writer, WriteFrame, WriteClose, WriterStops, ReaderStops, ClientLeaves, Expire
  <2>2. expired' = expired \/ expired' = TRUE
    BY <1>3, Zenon DEF Writer, WriteFrame, WriteClose, WriterStops, ReaderStops, ClientLeaves, Expire
  <2> QED
    BY ONLY <2>1, <2>2
<1>4. CASE UNCHANGED vars
  BY <1>4 DEF vars
<1> QED
  BY <1>1, <1>2, <1>3, <1>4 DEF Next

\* A context cancelled under a client that listens leaves no write loop, unless the
\* lifetime elapsed.
LEMMA CancelledWriter ==
    Closing /\ [Next]_vars => (ctxDone' /\ client' /\ ~expired' => writer' = "gone")
<1> SUFFICES ASSUME Closing, [Next]_vars, ctxDone', client', ~expired' PROVE writer' = "gone"
  OBVIOUS
<1> USE DEF Closing, streamVars, pumpVars, socketVars, historyVars
<1>1. CASE Task
  BY <1>1 DEF Task, Publish, Finish, Trim
<1>2. CASE Pump
  BY <1>2 DEF Pump, PumpCheck, ReadEntries, ReadNil, ReadError, AskFinished, Send
<1>3. CASE WriteFrame
  BY <1>3 DEF WriteFrame, WriterReturns
<1>4. CASE WriteClose \/ WriterStops
  BY <1>4 DEF WriteClose, WriterStops, WriterReturns
<1>5. CASE ReaderStops \/ ClientLeaves \/ Expire
  BY <1>5 DEF ReaderStops, ClientLeaves, Expire
<1>6. CASE UNCHANGED vars
  BY <1>6 DEF vars
<1> QED
  BY <1>1, <1>2, <1>3, <1>4, <1>5, <1>6 DEF Next, Writer

\* The pump returns with a reason.
LEMMA PumpReason ==
    Closing /\ [Next]_vars =>
        (pump' = "gone" /\ ~failed' /\ ~ctxDone' => finished' \/ lastID' \in ends')
<1> SUFFICES ASSUME Closing, [Next]_vars, pump' = "gone", ~failed', ~ctxDone'
             PROVE  finished' \/ lastID' \in ends'
  OBVIOUS
<1> USE DEF Closing, streamVars, pumpVars, socketVars, historyVars
<1>1. CASE Task
  BY <1>1 DEF Task, Publish, Finish, Trim
<1>2. CASE PumpCheck \/ ReadEntries \/ ReadNil
  BY <1>2 DEF PumpCheck, PumpReturns, ReadEntries, ReadNil
<1>3. CASE ReadError \/ AskFinished
  BY <1>3 DEF ReadError, AskFinished
<1>4. CASE Send
  BY <1>4 DEF Send
<1>5. CASE WriteFrame
  BY <1>5 DEF WriteFrame, WriterReturns
<1>6. CASE WriteClose \/ WriterStops
  BY <1>6 DEF WriteClose, WriterStops, WriterReturns
<1>7. CASE ReaderStops \/ ClientLeaves \/ Expire
  BY <1>7 DEF ReaderStops, ClientLeaves, Expire
<1>8. CASE UNCHANGED vars
  BY <1>8 DEF vars
<1> QED
  BY <1>1, <1>2, <1>3, <1>4, <1>5, <1>6, <1>7, <1>8 DEF Next, Pump, Writer

\* Only WriteClose closes.
LEMMA CloseCause == [Next]_vars /\ closed' /\ ~closed => WriteClose
<1> SUFFICES ASSUME [Next]_vars, closed', ~closed, ~WriteClose PROVE FALSE
  OBVIOUS
<1> USE DEF streamVars, pumpVars, socketVars, historyVars
<1>1. CASE Task
  BY <1>1 DEF Task, Publish, Finish, Trim
<1>2. CASE Pump
  BY <1>2 DEF Pump, PumpCheck, ReadEntries, ReadNil, ReadError, AskFinished, Send
<1>3. CASE Writer \/ ReaderStops \/ ClientLeaves \/ Expire
  BY <1>3 DEF Writer, WriteFrame, WriterStops, ReaderStops, ClientLeaves, Expire
<1>4. CASE UNCHANGED vars
  BY <1>4 DEF vars
<1> QED
  BY <1>1, <1>2, <1>3, <1>4 DEF Next

\* With the channel empty and nothing cancelled, what was sent last is what the pump
\* took last.
LEMMA CloseEffect ==
    CloseInv /\ WriteClose /\ closed' =>
        /\ pump' = "gone" /\ writer' = "gone"
        /\ UNCHANGED <<sent, lastID, ends, finished, failed, expired>>
        /\ ~expired => ~ctxDone /\ Last0(sent) = lastID
<1> SUFFICES ASSUME CloseInv, WriteClose, closed'
             PROVE  /\ pump' = "gone" /\ writer' = "gone"
                    /\ UNCHANGED <<sent, lastID, ends, finished, failed, expired>>
                    /\ ~expired => ~ctxDone /\ Last0(sent) = lastID
  OBVIOUS
<1>1. /\ pump = "gone" /\ writer = "loop" /\ frames = <<>> /\ client
      /\ pump' = "gone" /\ writer' = "gone"
      /\ UNCHANGED <<sent, lastID, ends, finished, failed, expired>>
  BY DEF WriteClose, WriterReturns, streamVars, pumpVars, historyVars
<1>2. ~expired => ~ctxDone
  BY <1>1 DEF CloseInv, Closing
<1>3. ~ctxDone => LastHanded = lastID
  BY <1>1 DEF CloseInv, FeedInv, Ordered
<1>4. LastHanded = Last0(sent)
  BY <1>1 DEF LastHanded
<1> QED
  BY <1>1, <1>2, <1>3, <1>4

LEMMA CloseStep == CloseInv /\ [Next]_vars => CloseInv'
<1> SUFFICES ASSUME CloseInv, [Next]_vars PROVE CloseInv'
  OBVIOUS
<1>1. FeedInv'
  BY FeedStep DEF CloseInv
<1>2. closed' => pump' = "gone" /\ writer' = "gone"
  <2>1. CASE closed
    BY <2>1, ClosedStays DEF CloseInv, Closing
  <2>2. CASE ~closed
    BY <2>2, CloseCause, CloseEffect
  <2> QED
    BY <2>1, <2>2
<1>3. Closing'
  <2>1. ctxDone' /\ client' /\ ~expired' => writer' = "gone"
    BY CancelledWriter DEF CloseInv
  <2>2. pump' = "gone" /\ ~failed' /\ ~ctxDone' => finished' \/ lastID' \in ends'
    BY PumpReason DEF CloseInv
  <2> QED
    BY ONLY <1>2, <2>1, <2>2 DEF Closing
<1>4. CloseDrains'
  <2> SUFFICES ASSUME closed', ~expired' PROVE Last0(sent') = lastID'
    BY DEF CloseDrains
  <2>1. CASE closed
    BY <2>1, ClosedStays DEF CloseInv, CloseDrains
  <2>2. CASE ~closed
    BY <2>2, CloseCause, CloseEffect
  <2> QED
    BY <2>1, <2>2
<1>5. CloseIsJustified'
  <2> SUFFICES ASSUME closed', ~failed', ~expired' PROVE finished' \/ Last0(sent') \in ends'
    BY DEF CloseIsJustified
  <2>1. CASE closed
    BY <2>1, ClosedStays DEF CloseInv, CloseIsJustified
  <2>2. CASE ~closed
    <3>1. WriteClose
      BY <2>2, CloseCause
    <3>2. /\ UNCHANGED <<sent, lastID, ends, finished, failed, expired>>
          /\ ~expired => ~ctxDone /\ Last0(sent) = lastID
      BY <3>1, CloseEffect
    <3>3. pump = "gone" /\ ~failed /\ ~ctxDone
      BY <3>1, <3>2 DEF WriteClose
    <3>4. finished \/ lastID \in ends
      BY <3>3 DEF CloseInv, Closing
    <3> QED
      BY <3>2, <3>4
  <2> QED
    BY <2>1, <2>2
<1> QED
  BY <1>1, <1>3, <1>4, <1>5 DEF CloseInv

\* logs.go:103-109: a socket closed normally, within its lifetime, has carried every
\* entry the pump took, whatever was still in the channel when the pump returned.
THEOREM CloseLosesNothing == Spec => []CloseDrains
<1>1. CloseInv => CloseDrains
  BY DEF CloseInv
<1> QED
  BY <1>1, CloseInit, CloseStep, PTL DEF Spec

\* logs.go:187-219: a client told that the log is over has its end, or the task is
\* over, unless a Redis call failed or the lifetime elapsed.
THEOREM CloseHasReason == Spec => []CloseIsJustified
<1>1. CloseInv => CloseIsJustified
  BY DEF CloseInv
<1> QED
  BY <1>1, CloseInit, CloseStep, PTL DEF Spec
-----------------------------------------------------------------------------
(* What a cancelled socket has before it                                   *)

BatchFits == pump = "send" => batch < from + ReadCount

\* Steps of the pump that are still to come at most, once its context is cancelled:
\* a read that is under way may yet answer with a whole batch.
PumpLeft ==
    CASE pump = "gone" -> 0
      [] pump = "check" -> 1
      [] pump = "nil" -> 2
      [] pump = "send" -> batch + 2 - from
      [] pump = "read" -> ReadCount + 2

\* Steps of all three: each frame the pump hands on is one for the write loop.
StepsLeft ==
    2 * PumpLeft + Len(frames) + (IF writer = "loop" THEN 1 ELSE 0) + (IF reader = "loop" THEN 1 ELSE 0)

WindsDown ==
    ctxDone =>
        /\ ctxDone'
        /\ StepsLeft \in 0..2 * ReadCount + ChanCap + 6
        /\ StepsLeft' <= StepsLeft
        /\ Pump \/ Writer \/ ReaderStops => StepsLeft' < StepsLeft

LEMMA ReadIsShort ==
    ASSUME NEW f \in Nat, NEW n \in Nat, NEW c \in Nat \ {0}, NEW b,
           b = IF f + c - 1 < n THEN f + c - 1 ELSE n
    PROVE  b < f + c
OBVIOUS

LEMMA BatchStep == TypeOK /\ Numbered /\ BatchFits /\ [Next]_vars => BatchFits'
<1> SUFFICES ASSUME TypeOK, Numbered, BatchFits, [Next]_vars PROVE BatchFits'
  OBVIOUS
<1> USE BoundsAssumption DEF TypeOK, BatchFits, pumpVars
<1>1. CASE Task \/ Writer \/ ReaderStops \/ ClientLeaves \/ Expire \/ UNCHANGED vars
  BY <1>1 DEF Task, Publish, Finish, Trim, Writer, WriteFrame, WriteClose, WriterStops,
    ReaderStops, ClientLeaves, Expire, vars
<1>2. CASE PumpCheck \/ ReadNil \/ ReadError \/ AskFinished
  BY <1>2 DEF PumpCheck, ReadNil, ReadError, AskFinished, PumpReturns
<1>3. CASE ReadEntries
  <2>1. from' \in Nat
    BY <1>3 DEF ReadEntries
  <2>2. added \in Nat /\ ReadCount \in Nat \ {0}
    OBVIOUS
  <2>3. batch' = IF from' + ReadCount - 1 < added THEN from' + ReadCount - 1 ELSE added
    BY <1>3 DEF ReadEntries
  <2>4. batch' < from' + ReadCount
    BY ONLY <2>1, <2>2, <2>3, ReadIsShort
  <2> QED
    BY ONLY <2>4 DEF BatchFits
<1>4. CASE Send
  BY <1>4 DEF Send
<1> QED
  BY <1>1, <1>2, <1>3, <1>4 DEF Next, Pump

LEMMA LeftIsBounded ==
    ASSUME TypeOK, Numbered, BatchFits
    PROVE  PumpLeft \in 0..ReadCount + 2 /\ StepsLeft \in 0..2 * ReadCount + ChanCap + 6
<1>1. ReadCount \in Nat \ {0} /\ ChanCap \in Nat
  BY BoundsAssumption
<1>2. batch \in Nat /\ from \in Nat /\ pump \in {"check", "read", "nil", "send", "gone"}
  BY BoundsAssumption DEF TypeOK
<1>3. pump = "send" => from <= batch /\ batch < from + ReadCount
  BY DEF Numbered, BatchFits
<1>4. PumpLeft \in 0..ReadCount + 2
  BY ONLY <1>1, <1>2, <1>3 DEF PumpLeft
<1>5. Len(frames) \in 0..ChanCap
  BY BoundsAssumption DEF TypeOK
<1> QED
  BY ONLY <1>1, <1>4, <1>5 DEF StepsLeft

LEMMA PumpFalls ==
    ASSUME TypeOK, Numbered, BatchFits, BatchFits', Pump, ctxDone
    PROVE  PumpLeft' < PumpLeft /\ (Len(frames') = Len(frames) \/ Len(frames') = Len(frames) + 1)
<1>1. ReadCount \in Nat \ {0} /\ batch \in Nat /\ from \in Nat /\ frames \in Seq(Entries)
  BY BoundsAssumption DEF TypeOK
<1>2. CASE PumpCheck
  BY <1>2 DEF PumpCheck, PumpReturns, PumpLeft
<1>3. CASE ReadNil \/ ReadError \/ AskFinished
  <2>1. /\ frames' = frames
        /\ \/ pump = "read" /\ pump' \in {"nil", "gone"}
           \/ pump = "nil" /\ pump' \in {"check", "gone"}
    BY <1>3 DEF ReadNil, ReadError, AskFinished, PumpReturns
  <2> QED
    BY ONLY <1>1, <2>1 DEF PumpLeft
<1>4. CASE ReadEntries
  <2>1. from' \in Nat /\ batch' \in Nat /\ pump = "read" /\ pump' = "send" /\ frames' = frames
    BY <1>4, BoundsAssumption DEF ReadEntries, TypeOK
  <2>2. batch' < from' + ReadCount
    BY <2>1 DEF BatchFits
  <2> QED
    BY ONLY <1>1, <2>1, <2>2 DEF PumpLeft
<1>5. CASE Send
  <2>1. pump = "send" /\ from <= batch
    BY <1>5 DEF Send, Numbered
  <2>2. /\ from' = from + 1 /\ batch' = batch
        /\ \/ pump' = "gone"
           \/ from = batch /\ pump' = "check"
           \/ pump' = "send"
    BY <1>5 DEF Send
  <2>3. frames' = frames \/ Len(frames') = Len(frames) + 1
    BY <1>1, <1>5, Appended DEF Send, TypeOK
  <2> QED
    BY ONLY <1>1, <2>1, <2>2, <2>3 DEF PumpLeft
<1> QED
  BY <1>2, <1>3, <1>4, <1>5 DEF Pump

LEMMA WriterFalls ==
    ASSUME TypeOK, Writer \/ ReaderStops
    PROVE  /\ PumpLeft' = PumpLeft
           /\ \/ writer' = writer /\ reader' = reader /\ Len(frames') < Len(frames)
              \/ /\ writer = "loop" /\ writer' = "gone" /\ reader' = reader
                 /\ Len(frames') <= Len(frames)
              \/ /\ reader = "loop" /\ reader' = "gone" /\ writer' = writer
                 /\ Len(frames') = Len(frames)
           /\ Len(frames') \in Nat
<1>0. frames \in Seq(Entries) /\ Len(frames) \in Nat
  BY DEF TypeOK
<1>1. UNCHANGED pumpVars
  BY DEF Writer, WriteFrame, WriteClose, WriterStops, ReaderStops
<1>2. PumpLeft' = PumpLeft
  BY <1>1 DEF pumpVars, PumpLeft
<1>3. CASE WriteFrame
  <2>1. writer = "loop" /\ frames # <<>> /\ frames' = Tail(frames) /\ reader' = reader
    BY <1>3 DEF WriteFrame
  <2>2. Len(frames') = Len(frames) - 1 /\ frames' \in Seq(Entries)
    BY <1>0, <2>1, Shortened
  <2>3. writer' = writer \/ writer' = "gone"
    BY <1>3 DEF WriteFrame, WriterReturns
  <2>4. Len(frames') \in Nat
    BY <2>2
  <2>5. Len(frames') < Len(frames) /\ Len(frames') <= Len(frames)
    BY ONLY <1>0, <2>2
  <2>6. CASE writer' = writer
    BY ONLY <1>2, <2>1, <2>4, <2>5, <2>6
  <2>7. CASE writer' = "gone"
    BY ONLY <1>2, <2>1, <2>4, <2>5, <2>7
  <2> QED
    BY ONLY <2>3, <2>6, <2>7
<1>4. CASE WriteClose \/ WriterStops
  BY <1>0, <1>2, <1>4 DEF WriteClose, WriterStops, WriterReturns
<1>5. CASE ReaderStops
  BY <1>0, <1>2, <1>5 DEF ReaderStops
<1> QED
  BY <1>3, <1>4, <1>5 DEF Writer

\* logs.go:85-105, 127-230: once its context is cancelled a socket's three goroutines
\* have a bounded number of steps left between them, whatever the stream, the task,
\* the client and Redis do meanwhile; none of them sends another back to work.
THEOREM SocketWindsDown == Spec => [][WindsDown]_vars
<1>1. FeedInv /\ BatchFits /\ BatchFits' /\ [Next]_vars => [WindsDown]_vars
  <2> SUFFICES ASSUME FeedInv, BatchFits, BatchFits', Next, ctxDone
               PROVE  /\ ctxDone'
                      /\ StepsLeft \in 0..2 * ReadCount + ChanCap + 6
                      /\ StepsLeft' <= StepsLeft
                      /\ Pump \/ Writer \/ ReaderStops => StepsLeft' < StepsLeft
    BY DEF WindsDown
  <2>1. TypeOK /\ Numbered
    BY DEF FeedInv
  <2>2. PumpLeft \in 0..ReadCount + 2 /\ StepsLeft \in 0..2 * ReadCount + ChanCap + 6
    BY <2>1, LeftIsBounded
  <2>3. TypeOK' /\ Numbered'
    BY FeedStep DEF FeedInv
  <2>4. PumpLeft' \in 0..ReadCount + 2 /\ Len(frames') \in Nat /\ Len(frames) \in Nat
    <3>1. PumpLeft' \in 0..ReadCount + 2
      <4>1. ReadCount \in Nat \ {0}
        BY BoundsAssumption
      <4>2. batch' \in Nat /\ from' \in Nat /\ pump' \in {"check", "read", "nil", "send", "gone"}
        BY ONLY <2>3, BoundsAssumption DEF TypeOK
      <4>3. pump' = "send" => from' <= batch' /\ batch' < from' + ReadCount
        BY ONLY <2>3, BatchFits' DEF Numbered, BatchFits
      <4> QED
        BY ONLY <4>1, <4>2, <4>3 DEF PumpLeft
    <3>2. frames' \in Seq(Entries')
      BY ONLY <2>3 DEF TypeOK
    <3>3. frames \in Seq(Entries)
      BY <2>1 DEF TypeOK
    <3> QED
      BY <3>1, <3>2, <3>3
  <2>5. ReadCount \in Nat
    BY BoundsAssumption
  <2>6. CASE Pump
    <3>1. UNCHANGED <<writer, reader, ctxDone>>
      BY <2>6 DEF Pump, PumpCheck, ReadEntries, ReadNil, ReadError, AskFinished, Send
    <3>2. PumpLeft' < PumpLeft /\ (Len(frames') = Len(frames) \/ Len(frames') = Len(frames) + 1)
      BY <2>1, <2>6, PumpFalls
    <3>3. StepsLeft' < StepsLeft
      BY ONLY <2>2, <2>4, <2>5, <3>1, <3>2 DEF StepsLeft
    <3>4. StepsLeft' <= StepsLeft
      BY ONLY <2>2, <2>4, <2>5, <3>1, <3>2 DEF StepsLeft
    <3> QED
      BY <2>2, <3>1, <3>3, <3>4
  <2>7. CASE Writer \/ ReaderStops
    <3>1. ctxDone'
      BY <2>7 DEF Writer, WriteFrame, WriteClose, WriterStops, ReaderStops, WriterReturns
    <3>2. /\ PumpLeft' = PumpLeft
          /\ \/ writer' = writer /\ reader' = reader /\ Len(frames') < Len(frames)
             \/ /\ writer = "loop" /\ writer' = "gone" /\ reader' = reader
                /\ Len(frames') <= Len(frames)
             \/ /\ reader = "loop" /\ reader' = "gone" /\ writer' = writer
                /\ Len(frames') = Len(frames)
      BY <2>1, <2>7, WriterFalls
    <3>3. StepsLeft' < StepsLeft /\ StepsLeft' <= StepsLeft
      BY ONLY <2>2, <2>4, <2>5, <3>2 DEF StepsLeft
    <3> QED
      BY <2>2, <3>1, <3>3
  <2>8. CASE Task \/ ClientLeaves \/ Expire
    <3>1. UNCHANGED <<pumpVars, frames, writer, reader>> /\ ctxDone'
      BY <2>8 DEF Task, Publish, Finish, Trim, ClientLeaves, Expire
    <3>2. StepsLeft' = StepsLeft
      BY <3>1 DEF StepsLeft, PumpLeft, pumpVars
    <3>3. ~(Pump \/ Writer \/ ReaderStops) \/ StepsLeft' < StepsLeft
      BY <2>6, <2>7
    <3> QED
      BY <2>2, <3>1, <3>2, <3>3
  <2> QED
    BY <2>6, <2>7, <2>8 DEF Next
<1>2. Init => FeedInv /\ BatchFits
  BY FeedInit DEF Init, BatchFits
<1>3. FeedInv /\ BatchFits /\ [Next]_vars => FeedInv' /\ BatchFits'
  BY FeedStep, BatchStep DEF FeedInv
<1> QED
  BY <1>1, <1>2, <1>3, PTL DEF Spec
=============================================================================
