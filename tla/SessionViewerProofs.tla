------------------------- MODULE SessionViewerProofs -------------------------
(***************************************************************************)
(* Theorems about SessionViewer: the reader of commands.log, and what is   *)
(* printed under a command, for every output of every command.             *)
(*                                                                         *)
(* What the view does with a byte, a text or a line is stated as an effect *)
(* on the labels it holds.  A fold does it to each of a sequence; the fold *)
(* is unrolled into its values after each prefix, and what they have in    *)
(* common is shown by induction on the length of the prefix.  The function *)
(* where, the command the terminal is in after each byte, says which       *)
(* labels the splitter and the renderer may hold at that place.            *)
(***************************************************************************)
EXTENDS SessionViewer, SharedLemmas, SequenceTheorems, FiniteSetTheorems, TLAPS

-----------------------------------------------------------------------------
(***************************************************************************)
(* The reader of commands.log.  Whether logrotate replaced the file since  *)
(* the last read shows in where the file it read began.                    *)
(***************************************************************************)
LinesInv ==
    /\ sent \in Nat /\ delivered \in Nat /\ rotated \in Nat
    /\ rotated <= delivered /\ delivered <= sent
    /\ follower.opened =>
           /\ follower.first \in Nat /\ follower.offset \in Nat
           /\ follower.first <= rotated
           /\ follower.first + follower.offset <= delivered
           /\ follower.first = rotated => due = rotated + follower.offset
           /\ follower.first < rotated => due = rotated

\* No line is sent, delivered or read at first.
LEMMA InitLinesInv == Init => LinesInv
  BY DEF Init, LinesInv

\* Each step keeps where the reader stands: a rotation moves the file's first
\* line beyond the one the reader knows.
LEMMA NextLinesInv == LinesInv /\ [Next]_vars => LinesInv'
<1> SUFFICES ASSUME LinesInv, [Next]_vars PROVE LinesInv'
  OBVIOUS
<1>1. CASE UNCHANGED <<syslog, follower, due>>
  BY <1>1 DEF LinesInv, syslog
<1>2. CASE Enter
  BY <1>2 DEF Enter, LinesInv, loop
<1>3. CASE LogEnd
  BY <1>3 DEF LogEnd, LinesInv, loop
<1>4. CASE Deliver
  BY <1>4 DEF Deliver, LinesInv, loop
<1>5. CASE Rotate
  BY <1>5 DEF Rotate, LinesInv
<1>6. CASE ReadLog
  <2>1. /\ UNCHANGED syslog
        /\ follower' = [opened |-> TRUE, first |-> rotated, offset |-> delivered - rotated]
        /\ due' = delivered
    BY <1>6 DEF ReadLog
  <2> QED
    BY <2>1 DEF LinesInv, syslog
<1>7. CASE MakeDirectory \/ MakeFiles \/ MakeOtherSession
  BY <1>7, <1>1 DEF MakeDirectory, MakeFiles, MakeOtherSession, loop
<1>8. CASE MarkStart \/ MarkEnd \/ EndStream
  BY <1>8, <1>1 DEF MarkStart, MarkEnd, EndStream, loop
<1>9. CASE \E o \in UNION {Output[k] : k \in Command} : PrintOutput(o)
  BY <1>9, <1>1 DEF PrintOutput, loop
<1>10. CASE \E n \in 1 .. Len(output) : Flush(n)
  BY <1>10, <1>1 DEF Flush, loop
<1>11. CASE Start \/ Discover \/ Poll
  BY <1>11, <1>1 DEF Start, Discover, Poll, loop
<1>12. CASE SkipPoll \/ PollMetadata
  BY <1>12, <1>1 DEF SkipPoll, PollMetadata, loop
<1>13. CASE UNCHANGED vars
  BY <1>13, <1>1 DEF vars, loop
<1> QED
  BY <1>2, <1>3, <1>4, <1>5, <1>6, <1>7, <1>8, <1>9, <1>10, <1>11, <1>12, <1>13
  DEF Next, Shell, Syslog, Viewer

\* Every start line reaches the view no more than once and none is left out,
\* whatever logrotate does between two reads (redteam_logcat.py, read_new).
THEOREM ReaderIsExact == Spec => []LinesAreReadOnce
<1>1. LinesInv => LinesAreReadOnce
  BY DEF LinesInv, LinesAreReadOnce, ReadFrom
<1> QED
  BY <1>1, InitLinesInv, NextLinesInv, PTL DEF Spec

-----------------------------------------------------------------------------
(***************************************************************************)
(* Folds over the texts, bytes and lines the view is given, unrolled: the  *)
(* values after each of them.                                              *)
(***************************************************************************)

\* What Write does for each label of a text.
WriteLabel(v, t) ==
    IF t = Newline THEN EndLine(v) ELSE [v EXCEPT !.line = Append(@, t)]

\* Each operator the view is folded with, by its name.
Apply(op, v, x) ==
    CASE op = "text"   -> WriteLabel(v, x)
      [] op = "write"  -> Write(v, x)
      [] op = "render" -> Render(v, x)
      [] op = "feed"   -> Feed(v, x)
      [] op = "line"   -> Register(v, x, Unread)

\* The folded function: of each set of indices, the value after those.
IsFold(h, op, v, seq, n) ==
    h = [s \in SUBSET (1 .. n) |->
            IF s = {} THEN v ELSE Apply(op, h[s \ {Max(s)}], seq[Max(s)])]

\* Its values after each prefix.
Unrolled(g, op, v, seq, result) ==
    /\ g[0] = v
    /\ \A i \in 1 .. Len(seq) : g[i] = Apply(op, g[i - 1], seq[i])
    /\ result = g[Len(seq)]

\* The largest of the numbers up to n.
LEMMA LargestOf ==
    ASSUME NEW n \in Nat, NEW s \in SUBSET (1 .. n + 1), n + 1 \in s
    PROVE  Max(s) = n + 1
<1>1. \A y \in s : n + 1 >= y
  OBVIOUS
<1>2. \A x \in s : (\A y \in s : x >= y) => x = n + 1
  <2> SUFFICES ASSUME NEW x \in s, x >= n + 1 PROVE x = n + 1
    OBVIOUS
  <2> QED
    BY <1>1
<1> QED
  BY <1>1, <1>2, Zenon DEF Max

\* The function of a fold exists.
LEMMA FoldExists ==
    ASSUME NEW op, NEW v, NEW seq, NEW n \in Nat
    PROVE  \E h : IsFold(h, op, v, seq, n)
<1> DEFINE S == {m \in Nat : \E h : IsFold(h, op, v, seq, m)}
<1>1. 0 \in S
  <2>1. IsFold([s \in SUBSET (1 .. 0) |-> v], op, v, seq, 0)
    BY DEF IsFold
  <2> QED
    BY <2>1
<1>2. ASSUME NEW m \in Nat, m \in S
      PROVE  m + 1 \in S
  <2>1. PICK h : IsFold(h, op, v, seq, m)
    BY <1>2
  <2> DEFINE D == SUBSET (1 .. m + 1)
             f == [s \in D |-> IF m + 1 \in s THEN Apply(op, h[s \ {m + 1}], seq[m + 1])
                               ELSE h[s]]
  <2>2. ASSUME NEW s \in D
        PROVE  f[s] = IF s = {} THEN v ELSE Apply(op, f[s \ {Max(s)}], seq[Max(s)])
    <3>1. CASE m + 1 \in s
      <4>1. s \ {m + 1} \in D /\ m + 1 \notin s \ {m + 1} /\ s # {}
        BY <3>1
      <4>2. f[s \ {m + 1}] = h[s \ {m + 1}]
        BY <4>1
      <4>3. f[s] = Apply(op, h[s \ {m + 1}], seq[m + 1])
        BY <3>1
      <4> QED
        BY <3>1, <4>1, <4>2, <4>3, LargestOf
    <3>2. CASE m + 1 \notin s
      <4>1. s \in SUBSET (1 .. m) /\ s \ {Max(s)} \in SUBSET (1 .. m)
        <5>1. \A x \in s : x \in 1 .. m
          BY <3>2
        <5> QED
          BY <5>1
      <4>2. s \ {Max(s)} \in D /\ m + 1 \notin s \ {Max(s)}
        BY <4>1
      <4>3. f[s] = h[s] /\ f[s \ {Max(s)}] = h[s \ {Max(s)}]
        BY <3>2, <4>2
      <4>4. h[s] = IF s = {} THEN v ELSE Apply(op, h[s \ {Max(s)}], seq[Max(s)])
        BY <2>1, <4>1 DEF IsFold
      <4> QED
        BY <4>3, <4>4
    <3> QED
      BY <3>1, <3>2
  <2>3. IsFold(f, op, v, seq, m + 1)
    <3>1. f = [s \in D |-> f[s]]
      OBVIOUS
    <3> HIDE DEF f
    <3> QED
      BY <2>2, <3>1 DEF IsFold
  <2> QED
    BY <2>3
<1>3. Nat \subseteq S
  <2> HIDE DEF S
  <2> QED
    BY <1>1, <1>2, Induction
<1> QED
  BY <1>3

\* A fold goes through its values after each prefix.
LEMMA FoldUnrolls ==
    ASSUME NEW op, NEW v, NEW T, NEW seq \in Seq(T), NEW h, IsFold(h, op, v, seq, Len(seq))
    PROVE  \E g : Unrolled(g, op, v, seq, h[1 .. Len(seq)])
<1> DEFINE n == Len(seq)
           g == [i \in 0 .. n |-> h[1 .. i]]
<1>1. n \in Nat
  OBVIOUS
<1>2. g[0] = v
  <2>1. 1 .. 0 = {}
    OBVIOUS
  <2> QED
    BY <1>1, <2>1 DEF IsFold
<1>3. ASSUME NEW i \in 1 .. n
      PROVE  g[i] = Apply(op, g[i - 1], seq[i])
  <2>1. i - 1 \in Nat /\ i - 1 + 1 = i /\ i - 1 \in 0 .. n /\ i \in 0 .. n
    BY <1>1
  <2>2. 1 .. i \in SUBSET (1 .. n) /\ i \in 1 .. i
    BY <1>1
  <2>3. Max(1 .. i) = i
    BY <2>1, <2>2, LargestOf
  <2>4. (1 .. i) \ {i} = 1 .. i - 1
    OBVIOUS
  <2>5. h[1 .. i] = Apply(op, h[1 .. i - 1], seq[i])
    BY <2>2, <2>3, <2>4 DEF IsFold
  <2> QED
    BY <2>1, <2>5
<1>4. h[1 .. n] = g[n]
  BY <1>1
<1> HIDE DEF g
<1> QED
  BY <1>2, <1>3, <1>4 DEF Unrolled


\* The fold of Feed, over the bytes of a poll.
LEMMA FeedFold ==
    ASSUME NEW v, NEW T, NEW seq \in Seq(T)
    PROVE  \E g : Unrolled(g, "feed", v, seq, FoldLeft(Feed, v, seq))
<1> DEFINE D == DOMAIN seq
           F == CHOOSE h : h = [s \in SUBSET D |-> IF s = {} THEN v
                                   ELSE Feed(h[s \ {Max(s)}], seq[Max(s)])]
<1>1. FoldLeft(Feed, v, seq) = F[D]
  BY Zenon DEF FoldLeft, MapThenFoldSet
<1>2. D = 1 .. Len(seq) /\ Len(seq) \in Nat
  OBVIOUS
<1>3. PICK f : IsFold(f, "feed", v, seq, Len(seq))
  BY <1>2, FoldExists
<1>4. f = [s \in SUBSET D |-> IF s = {} THEN v
                     ELSE Feed(f[s \ {Max(s)}], seq[Max(s)])]
  BY <1>2, <1>3 DEF IsFold, Apply
<1>5. F = [s \in SUBSET D |-> IF s = {} THEN v ELSE Feed(F[s \ {Max(s)}], seq[Max(s)])]
  BY <1>4, Zenon
<1> HIDE DEF F
<1>6. IsFold(F, "feed", v, seq, Len(seq))
  BY <1>2, <1>5 DEF IsFold, Apply
<1> QED
  BY <1>1, <1>2, <1>6, FoldUnrolls

\* The fold of Render, over what the splitter kept.
LEMMA RenderFold ==
    ASSUME NEW v, NEW T, NEW seq \in Seq(T)
    PROVE  \E g : Unrolled(g, "render", v, seq, FoldLeft(Render, v, seq))
<1> DEFINE D == DOMAIN seq
           F == CHOOSE h : h = [s \in SUBSET D |-> IF s = {} THEN v
                                   ELSE Render(h[s \ {Max(s)}], seq[Max(s)])]
<1>1. FoldLeft(Render, v, seq) = F[D]
  BY Zenon DEF FoldLeft, MapThenFoldSet
<1>2. D = 1 .. Len(seq) /\ Len(seq) \in Nat
  OBVIOUS
<1>3. PICK f : IsFold(f, "render", v, seq, Len(seq))
  BY <1>2, FoldExists
<1>4. f = [s \in SUBSET D |-> IF s = {} THEN v
                     ELSE Render(f[s \ {Max(s)}], seq[Max(s)])]
  BY <1>2, <1>3 DEF IsFold, Apply
<1>5. F = [s \in SUBSET D |-> IF s = {} THEN v ELSE Render(F[s \ {Max(s)}], seq[Max(s)])]
  BY <1>4, Zenon
<1> HIDE DEF F
<1>6. IsFold(F, "render", v, seq, Len(seq))
  BY <1>2, <1>5 DEF IsFold, Apply
<1> QED
  BY <1>1, <1>2, <1>6, FoldUnrolls

\* The fold of Write, over the texts kept for a command.
LEMMA TextsFold ==
    ASSUME NEW v, NEW T, NEW seq \in Seq(T)
    PROVE  \E g : Unrolled(g, "write", v, seq, FoldLeft(Write, v, seq))
<1> DEFINE D == DOMAIN seq
           F == CHOOSE h : h = [s \in SUBSET D |-> IF s = {} THEN v
                                   ELSE Write(h[s \ {Max(s)}], seq[Max(s)])]
<1>1. FoldLeft(Write, v, seq) = F[D]
  BY Zenon DEF FoldLeft, MapThenFoldSet
<1>2. D = 1 .. Len(seq) /\ Len(seq) \in Nat
  OBVIOUS
<1>3. PICK f : IsFold(f, "write", v, seq, Len(seq))
  BY <1>2, FoldExists
<1>4. f = [s \in SUBSET D |-> IF s = {} THEN v
                     ELSE Write(f[s \ {Max(s)}], seq[Max(s)])]
  BY <1>2, <1>3 DEF IsFold, Apply
<1>5. F = [s \in SUBSET D |-> IF s = {} THEN v ELSE Write(F[s \ {Max(s)}], seq[Max(s)])]
  BY <1>4, Zenon
<1> HIDE DEF F
<1>6. IsFold(F, "write", v, seq, Len(seq))
  BY <1>2, <1>5 DEF IsFold, Apply
<1> QED
  BY <1>1, <1>2, <1>6, FoldUnrolls

\* The fold of Register, over the lines of a read.
LEMMA LinesFold ==
    ASSUME NEW v, NEW T, NEW seq \in Seq(T)
    PROVE  \E g : Unrolled(g, "line", v, seq,
                         FoldLeft(LAMBDA w, k : Register(w, k, Unread), v, seq))
<1> DEFINE D == DOMAIN seq
           F == CHOOSE h : h = [s \in SUBSET D |-> IF s = {} THEN v
                                   ELSE Register(h[s \ {Max(s)}], seq[Max(s)], Unread)]
<1>1. FoldLeft(LAMBDA w, k : Register(w, k, Unread), v, seq) = F[D]
  BY Zenon DEF FoldLeft, MapThenFoldSet
<1>2. D = 1 .. Len(seq) /\ Len(seq) \in Nat
  OBVIOUS
<1>3. PICK f : IsFold(f, "line", v, seq, Len(seq))
  BY <1>2, FoldExists
<1>4. f = [s \in SUBSET D |-> IF s = {} THEN v
                     ELSE Register(f[s \ {Max(s)}], seq[Max(s)], Unread)]
  BY <1>2, <1>3 DEF IsFold, Apply
<1>5. F = [s \in SUBSET D |-> IF s = {} THEN v ELSE Register(F[s \ {Max(s)}], seq[Max(s)], Unread)]
  BY <1>4, Zenon
<1> HIDE DEF F
<1>6. IsFold(F, "line", v, seq, Len(seq))
  BY <1>2, <1>5 DEF IsFold, Apply
<1> QED
  BY <1>1, <1>2, <1>6, FoldUnrolls

\* The fold of Write itself, over the labels of a text.
LEMMA TextFold ==
    ASSUME NEW v, NEW T, NEW seq \in Seq(T)
    PROVE  \E g : Unrolled(g, "text", v, seq, Write(v, seq))
<1> DEFINE D == DOMAIN seq
           F == CHOOSE h : h = [s \in SUBSET D |-> IF s = {} THEN v
                                   ELSE WriteLabel(h[s \ {Max(s)}], seq[Max(s)])]
<1>1. Write(v, seq) = F[D]
  BY Zenon DEF FoldLeft, MapThenFoldSet, Write, WriteLabel
<1>2. D = 1 .. Len(seq) /\ Len(seq) \in Nat
  OBVIOUS
<1>3. PICK f : IsFold(f, "text", v, seq, Len(seq))
  BY <1>2, FoldExists
<1>4. f = [s \in SUBSET D |-> IF s = {} THEN v
                     ELSE WriteLabel(f[s \ {Max(s)}], seq[Max(s)])]
  BY <1>2, <1>3 DEF IsFold, Apply
<1>5. F = [s \in SUBSET D |-> IF s = {} THEN v ELSE WriteLabel(F[s \ {Max(s)}], seq[Max(s)])]
  BY <1>4, Zenon
<1> HIDE DEF F
<1>6. IsFold(F, "text", v, seq, Len(seq))
  BY <1>2, <1>5 DEF IsFold, Apply
<1> QED
  BY <1>1, <1>2, <1>6, FoldUnrolls

-----------------------------------------------------------------------------
(***************************************************************************)
(* FlattenSeq, by which the memory of output that waits for its command is *)
(* counted.                                                                *)
(***************************************************************************)

IsFlatten(f, seqs) ==
    f = [i \in 1 .. Len(seqs) |-> IF i = 1 THEN seqs[i] ELSE f[i - 1] \o seqs[i]]

\* A function with the values of FlattenSeq on each prefix.
LEMMA FlattenExists ==
    ASSUME NEW seqs, NEW n \in Nat
    PROVE  \E f : f = [i \in 1 .. n |-> IF i = 1 THEN seqs[i] ELSE f[i - 1] \o seqs[i]]
<1> DEFINE S == {m \in Nat : \E f : f = [i \in 1 .. m |-> IF i = 1 THEN seqs[i]
                                                     ELSE f[i - 1] \o seqs[i]]}
<1>1. 0 \in S
  <2>1. [i \in 1 .. 0 |-> 0] = [i \in 1 .. 0 |-> IF i = 1 THEN seqs[i]
                                   ELSE [j \in 1 .. 0 |-> 0][i - 1] \o seqs[i]]
    OBVIOUS
  <2> QED
    BY <2>1
<1>2. ASSUME NEW m \in Nat, m \in S
      PROVE  m + 1 \in S
  <2>1. PICK f : f = [i \in 1 .. m |-> IF i = 1 THEN seqs[i] ELSE f[i - 1] \o seqs[i]]
    BY <1>2
  <2> DEFINE e == [i \in 1 .. m + 1 |-> IF i \in 1 .. m THEN f[i]
                      ELSE IF i = 1 THEN seqs[i] ELSE f[i - 1] \o seqs[i]]
  <2>2. ASSUME NEW i \in 1 .. m + 1
        PROVE  e[i] = IF i = 1 THEN seqs[i] ELSE e[i - 1] \o seqs[i]
    <3>1. i # 1 => i - 1 \in 1 .. m /\ e[i - 1] = f[i - 1]
      OBVIOUS
    <3>2. CASE i \in 1 .. m
      BY <2>1, <3>1, <3>2
    <3>3. CASE i \notin 1 .. m
      BY <3>1, <3>3
    <3> QED
      BY <3>2, <3>3
  <2>3. e = [i \in 1 .. m + 1 |-> e[i]]
    OBVIOUS
  <2> HIDE DEF e
  <2>4. e = [i \in 1 .. m + 1 |-> IF i = 1 THEN seqs[i] ELSE e[i - 1] \o seqs[i]]
    BY <2>2, <2>3
  <2>5. m + 1 \in Nat
    OBVIOUS
  <2> QED
    BY <2>4, <2>5, Zenon
<1>3. Nat \subseteq S
  <2> HIDE DEF S
  <2> QED
    BY <1>1, <1>2, Induction
<1> QED
  BY <1>3

\* FlattenSeq is the last value of such a function.
LEMMA FlattenUnrolls ==
    ASSUME NEW T, NEW seqs \in Seq(Seq(T)), seqs # <<>>
    PROVE  \E f : /\ f[1] = seqs[1]
                  /\ \A i \in 1 .. Len(seqs) - 1 : f[i + 1] = f[i] \o seqs[i + 1]
                  /\ FlattenSeq(seqs) = f[Len(seqs)]
<1> DEFINE n == Len(seqs)
           f == CHOOSE flatten : flatten = [i \in 1 .. n |-> IF i = 1 THEN seqs[i]
                                                ELSE flatten[i - 1] \o seqs[i]]
<1>1. n \in Nat /\ n # 0
  OBVIOUS
<1>2. FlattenSeq(seqs) = f[n]
  BY <1>1, Zenon DEF FlattenSeq
<1>3. f = [i \in 1 .. n |-> IF i = 1 THEN seqs[i] ELSE f[i - 1] \o seqs[i]]
  BY <1>1, FlattenExists, Zenon
<1> HIDE DEF f, n
<1>4. ASSUME NEW i \in 1 .. n
      PROVE  f[i] = IF i = 1 THEN seqs[i] ELSE f[i - 1] \o seqs[i]
  BY <1>3, Zenon
<1>5. f[1] = seqs[1]
  BY <1>1, <1>4
<1>6. ASSUME NEW i \in 1 .. n - 1
      PROVE  f[i + 1] = f[i] \o seqs[i + 1]
  <2>1. PICK j \in 1 .. n : j = i + 1
    BY <1>1
  <2>2. j # 1 /\ j - 1 = i
    BY <2>1
  <2>3. f[j] = f[j - 1] \o seqs[j]
    BY <1>4, <2>2
  <2> QED
    BY <2>1, <2>2, <2>3
<1> QED
  BY <1>2, <1>5, <1>6 DEF n

\* Flattening is into the same labels.
LEMMA FlattenType ==
    ASSUME NEW T, NEW seqs \in Seq(Seq(T))
    PROVE  FlattenSeq(seqs) \in Seq(T)
<1>1. CASE seqs = <<>>
  BY <1>1 DEF FlattenSeq
<1>2. CASE seqs # <<>>
  <2> DEFINE n == Len(seqs)
  <2>1. PICK f : /\ f[1] = seqs[1]
                 /\ \A i \in 1 .. n - 1 : f[i + 1] = f[i] \o seqs[i + 1]
                 /\ FlattenSeq(seqs) = f[n]
    BY <1>2, FlattenUnrolls
  <2>2. n \in Nat /\ n # 0 /\ \A i \in 1 .. n : seqs[i] \in Seq(T)
    BY <1>2
  <2> HIDE DEF n
  <2> DEFINE S == {m \in Nat : m \in 1 .. n => f[m] \in Seq(T)}
  <2>3. 0 \in S
    OBVIOUS
  <2>4. ASSUME NEW m \in Nat, m \in S
        PROVE  m + 1 \in S
    <3> SUFFICES ASSUME m + 1 \in 1 .. n PROVE f[m + 1] \in Seq(T)
      OBVIOUS
    <3>1. CASE m = 0
      BY <2>1, <2>2, <3>1
    <3>2. CASE m # 0
      <4>1. m \in 1 .. n - 1 /\ m \in 1 .. n
        BY <2>2, <3>2
      <4>2. f[m] \in Seq(T) /\ seqs[m + 1] \in Seq(T)
        BY <2>2, <2>4, <4>1
      <4>3. f[m + 1] = f[m] \o seqs[m + 1]
        BY <2>1, <4>1
      <4> QED
        BY <4>2, <4>3
    <3> QED
      BY <3>1, <3>2
  <2>5. Nat \subseteq S
    <3> HIDE DEF S
    <3> QED
      BY <2>3, <2>4, Induction
  <2>6. n \in S /\ n \in 1 .. n
    BY <2>2, <2>5
  <2> QED
    BY <2>1, <2>6
<1> QED
  BY <1>1, <1>2

\* One more text adds its labels.
LEMMA FlattenAppend ==
    ASSUME NEW T, NEW seqs \in Seq(Seq(T)), NEW s \in Seq(T)
    PROVE  Len(FlattenSeq(Append(seqs, s))) = Len(FlattenSeq(seqs)) + Len(s)
<1> DEFINE more == Append(seqs, s)
           n == Len(seqs)
<1>1. /\ more \in Seq(Seq(T)) /\ more # <<>> /\ n \in Nat /\ Len(more) = n + 1
      /\ more[n + 1] = s
  BY AppendProperties
<1>2. \A i \in 1 .. n : more[i] = seqs[i]
  BY AppendProperties
<1> HIDE DEF more
<1>3. PICK e : /\ e[1] = more[1]
               /\ \A i \in 1 .. n : e[i + 1] = e[i] \o more[i + 1]
               /\ FlattenSeq(more) = e[n + 1]
  <2>1. PICK e : /\ e[1] = more[1]
                 /\ \A i \in 1 .. Len(more) - 1 : e[i + 1] = e[i] \o more[i + 1]
                 /\ FlattenSeq(more) = e[Len(more)]
    BY <1>1, FlattenUnrolls, Zenon
  <2>2. Len(more) - 1 = n
    BY <1>1
  <2> QED
    BY <1>1, <2>1, <2>2
<1>4. CASE seqs = <<>>
  <2>1. n = 0 /\ FlattenSeq(seqs) = <<>>
    BY <1>4 DEF FlattenSeq
  <2>2. FlattenSeq(more) = s
    BY <1>1, <1>3, <2>1
  <2> QED
    BY <2>1, <2>2 DEF more
<1>5. CASE seqs # <<>>
  <2>1. PICK f : /\ f[1] = seqs[1]
                 /\ \A i \in 1 .. n - 1 : f[i + 1] = f[i] \o seqs[i + 1]
                 /\ FlattenSeq(seqs) = f[n]
    BY <1>5, FlattenUnrolls
  <2>2. n \in Nat /\ n # 0
    BY <1>5
  <2>3. FlattenSeq(seqs) \in Seq(T)
    BY FlattenType
  <2> HIDE DEF n
  <2> DEFINE S == {m \in Nat : m \in 1 .. n => e[m] = f[m]}
  <2>4. 0 \in S
    OBVIOUS
  <2>5. ASSUME NEW m \in Nat, m \in S
        PROVE  m + 1 \in S
    <3> SUFFICES ASSUME m + 1 \in 1 .. n PROVE e[m + 1] = f[m + 1]
      OBVIOUS
    <3>1. CASE m = 0
      BY <1>2, <1>3, <2>1, <2>2, <3>1
    <3>2. CASE m # 0
      <4>1. m \in 1 .. n - 1 /\ m \in 1 .. n
        BY <2>2, <3>2
      <4>2. e[m] = f[m] /\ more[m + 1] = seqs[m + 1]
        BY <1>2, <2>5, <4>1
      <4>3. f[m + 1] = f[m] \o seqs[m + 1] /\ e[m + 1] = e[m] \o more[m + 1]
        BY <1>3, <2>1, <4>1
      <4> QED
        BY <4>2, <4>3
    <3> QED
      BY <3>1, <3>2
  <2>6. Nat \subseteq S
    <3> HIDE DEF S
    <3> QED
      BY <2>4, <2>5, Induction
  <2>7. n \in S /\ n \in 1 .. n
    BY <2>2, <2>6
  <2>8. e[n] = FlattenSeq(seqs)
    BY <2>1, <2>7
  <2>9. FlattenSeq(more) = FlattenSeq(seqs) \o s
    BY <1>1, <1>3, <2>7, <2>8
  <2> QED
    BY <2>3, <2>9 DEF more
<1> QED
  BY <1>4, <1>5

-----------------------------------------------------------------------------
(***************************************************************************)
(* The callbacks of the view, by the sets of labels that are in what waits *)
(* (P), in the line begun (C) and in what was printed (S).                 *)
(***************************************************************************)
IsMark(b) == b.byte \in {"start", "end"}

MarkedByte ==
    {b \in [byte : Byte \cup {"start", "end"}, label : Label] :
        IsMark(b) => b.label.cmd \in Command}

View ==
    [atEnd : BOOLEAN, opened : BOOLEAN, offset : Nat,
     buffer : Seq(MarkedByte),
     mode : {"normal", "escape", "csi", "osc", "string"}, return : BOOLEAN, text : Seq(Label),
     waiting : SUBSET Command, completed : SUBSET Command,
     active : 0 .. Stream, event : 0 .. MaxCommand,
     pending : {p \in Seq(Seq(Label)) : Len(FlattenSeq(p)) <= MaxPending},
     line : Seq(Label),
     finished : BOOLEAN, requested : BOOLEAN,
     shown : SUBSET [under : 0 .. MaxCommand, text : Label],
     marked : SUBSET Command,
     late : BOOLEAN, overflow : BOOLEAN, raced : BOOLEAN]

\* What the callbacks below leave alone.
SameReader(v, w) ==
    /\ w.opened = v.opened /\ w.offset = v.offset /\ w.buffer = v.buffer
    /\ w.mode = v.mode /\ w.return = v.return /\ w.text = v.text
    /\ w.waiting = v.waiting /\ w.completed = v.completed
    /\ w.marked = v.marked /\ w.late = v.late

Same(v, w) == SameReader(v, w) /\ w.active = v.active /\ w.event = v.event

Waits(v, P) == v.pending \in Seq(Seq(P \cup {Newline}))

\* Only the labels C were printed, under the command k.
OnlyPrints(v, w, k, C) == \A s \in w.shown : s \in v.shown \/ (s.under = k /\ s.text \in C)

Wrote(v, w, C) ==
    /\ w \in View /\ Same(v, w) /\ w.pending = v.pending
    /\ w.line \in Seq(C)
    /\ OnlyPrints(v, w, v.event, C)

\* The labels of a terminal, and the assumption, in the form proofs use.
LEMMA Constants ==
    /\ MaxCommand \in Nat \ {0} /\ MaxPending \in Nat /\ MaxSkips \in Nat /\ MaxLag \in Nat
    /\ Newline \in Label /\ Terminal \in Label /\ Newline # Terminal
    /\ Newline.cmd = 0 /\ Terminal.cmd = 0
<1>1. MaxCommand \in Nat \ {0} /\ MaxPending \in Nat /\ MaxSkips \in Nat /\ MaxLag \in Nat
  BY OutputAssumption
<1> QED
  BY <1>1 DEF Newline, Terminal, Label

\* A line that ends is printed.
LEMMA EndLineEffect ==
    ASSUME NEW v \in View, NEW C \in SUBSET Label, v.line \in Seq(C)
    PROVE  Wrote(v, EndLine(v), C) /\ EndLine(v).line = <<>>
<1> DEFINE new == {[under |-> v.event, text |-> t] : t \in ToSet(v.line)}
           w == EndLine(v)
<1>1. ToSet(v.line) \subseteq C
  BY DEF ToSet
<1>2. v.event \in 0 .. MaxCommand
  BY DEF View
<1>3. new \subseteq [under : 0 .. MaxCommand, text : Label]
  BY <1>1, <1>2
<1>4. \A s \in new : s.under = v.event /\ s.text \in C
  BY <1>1
<1> HIDE DEF new
<1>5. w = [v EXCEPT !.shown = @ \cup new, !.line = <<>>]
  BY DEF EndLine, new
<1>6. <<>> \in Seq(Label) /\ <<>> \in Seq(C)
  OBVIOUS
<1>7. w \in View
  BY <1>3, <1>5, <1>6, ZenonT(60) DEF View
<1>8. Same(v, w) /\ w.pending = v.pending /\ w.line = <<>> /\ w.shown = v.shown \cup new
  BY <1>5 DEF View, Same, SameReader
<1> HIDE DEF w
<1>9. Wrote(v, w, C) /\ w.line = <<>>
  BY <1>4, <1>6, <1>7, <1>8 DEF Wrote, OnlyPrints
<1> QED
  BY <1>9 DEF w

\* One label is written.
LEMMA WriteLabelEffect ==
    ASSUME NEW v \in View, NEW C \in SUBSET Label, v.line \in Seq(C), NEW t \in C \cup {Newline}
    PROVE  Wrote(v, WriteLabel(v, t), C)
<1>1. CASE t = Newline
  BY <1>1, EndLineEffect DEF WriteLabel
<1>2. CASE t # Newline
  <2> DEFINE w == [v EXCEPT !.line = Append(@, t)]
  <2>1. Append(v.line, t) \in Seq(Label) /\ Append(v.line, t) \in Seq(C)
    BY <1>2
  <2>2. w \in View
    BY <2>1 DEF View
  <2>3. Same(v, w) /\ w.pending = v.pending /\ w.shown = v.shown /\ w.line = Append(v.line, t)
    BY DEF View, Same, SameReader
  <2> HIDE DEF w
  <2>4. Wrote(v, w, C)
    BY <2>1, <2>2, <2>3 DEF Wrote, OnlyPrints
  <2> QED
    BY <1>2, <2>4 DEF WriteLabel, w
<1> QED
  BY <1>1, <1>2

\* What was written before and after.
LEMMA WroteTwice ==
    ASSUME NEW v, NEW w, NEW x, NEW C, Wrote(v, w, C), Wrote(w, x, C)
    PROVE  Wrote(v, x, C)
  BY DEF Wrote, Same, SameReader, OnlyPrints

\* A text is written: its labels come into the line or are printed.
LEMMA WriteEffect ==
    ASSUME NEW v \in View, NEW C \in SUBSET Label, v.line \in Seq(C),
           NEW text \in Seq(C \cup {Newline})
    PROVE  Wrote(v, Write(v, text), C)
<1>1. PICK g : Unrolled(g, "text", v, text, Write(v, text))
  BY TextFold
<1> DEFINE n == Len(text)
           S == {i \in Nat : i \in 0 .. n => Wrote(v, g[i], C)}
<1>2. 0 \in S
  BY <1>1 DEF Unrolled, Wrote, Same, SameReader, OnlyPrints
<1>3. ASSUME NEW i \in Nat, i \in S
      PROVE  i + 1 \in S
  <2> SUFFICES ASSUME i + 1 \in 1 .. n PROVE Wrote(v, g[i + 1], C)
    OBVIOUS
  <2>1. Wrote(v, g[i], C)
    BY <1>3
  <2>2. text[i + 1] \in C \cup {Newline}
    OBVIOUS
  <2>3. g[i + 1] = WriteLabel(g[i], text[i + 1])
    BY <1>1 DEF Unrolled, Apply
  <2>4. Wrote(g[i], WriteLabel(g[i], text[i + 1]), C)
    BY <2>1, <2>2, WriteLabelEffect DEF Wrote
  <2> QED
    BY <2>1, <2>3, <2>4, WroteTwice
<1>4. Nat \subseteq S
  <2> HIDE DEF S
  <2> QED
    BY <1>2, <1>3, Induction
<1>5. n \in S /\ n \in 0 .. n
  BY <1>4
<1> QED
  BY <1>1, <1>5 DEF Unrolled

\* A command is registered or started: what waited for it is written, under it.
LEMMA BeginEffect ==
    ASSUME NEW v \in View, NEW k \in Command, NEW C \in SUBSET Label, Waits(v, C),
           NEW w, w = BeginEvent(v, k)
    PROVE  /\ w \in View /\ SameReader(v, w) /\ w.active = v.active
           /\ w.event = k /\ w.pending = <<>> /\ w.line \in Seq(C)
           /\ OnlyPrints(v, w, k, C)
<1> DEFINE u == [v EXCEPT !.event = k, !.line = <<>>, !.pending = <<>>]
           texts == v.pending
           n == Len(texts)
<1>1. PICK g : Unrolled(g, "write", u, texts, w)
  BY TextsFold DEF Waits, BeginEvent
<1>2. <<>> \in Seq(Label) /\ <<>> \in Seq(C) /\ <<>> \in Seq(Seq(Label)) /\ FlattenSeq(<<>>) = <<>>
  BY DEF FlattenSeq
<1>3. Len(FlattenSeq(<<>>)) <= MaxPending
  BY <1>2, Constants
<1>4. u \in View
  <2>1. k \in 0 .. MaxCommand
    BY DEF Command
  <2> QED
    BY <1>2, <1>3, <2>1 DEF View
<1>5. /\ SameReader(v, u) /\ u.active = v.active /\ u.event = k /\ u.pending = <<>>
      /\ u.line = <<>> /\ u.shown = v.shown
  BY DEF View, SameReader
<1> HIDE DEF u
<1> DEFINE S == {i \in Nat : i \in 0 .. n => Wrote(u, g[i], C)}
<1>6. 0 \in S
  BY <1>1, <1>2, <1>4, <1>5 DEF Unrolled, Wrote, Same, SameReader, OnlyPrints
<1>7. ASSUME NEW i \in Nat, i \in S
      PROVE  i + 1 \in S
  <2> SUFFICES ASSUME i + 1 \in 1 .. n PROVE Wrote(u, g[i + 1], C)
    BY DEF Waits
  <2>1. Wrote(u, g[i], C)
    BY <1>7 DEF Waits
  <2>2. texts[i + 1] \in Seq(C \cup {Newline})
    BY DEF Waits
  <2>3. g[i + 1] = Write(g[i], texts[i + 1])
    BY <1>1 DEF Unrolled, Apply
  <2>4. Wrote(g[i], Write(g[i], texts[i + 1]), C)
    BY <2>1, <2>2, WriteEffect DEF Wrote
  <2> QED
    BY <2>1, <2>3, <2>4, WroteTwice
<1>8. Nat \subseteq S
  <2> HIDE DEF S
  <2> QED
    BY <1>6, <1>7, Induction
<1>9. n \in S /\ n \in 0 .. n
  BY <1>8 DEF Waits
<1>10. Wrote(u, w, C)
  BY <1>1, <1>9 DEF Unrolled
<1> QED
  BY <1>5, <1>10 DEF Wrote, Same, SameReader, OnlyPrints

\* A command ends: its line is printed and nothing waits any more.
LEMMA FinishEffect ==
    ASSUME NEW v \in View, NEW C \in SUBSET Label, v.line \in Seq(C),
           NEW w, w = FinishEvent(v)
    PROVE  /\ w \in View /\ SameReader(v, w) /\ w.active = 0 /\ w.event = 0
           /\ w.pending = <<>> /\ w.line = <<>>
           /\ OnlyPrints(v, w, v.event, C)
<1> DEFINE u == EndLine(v)
<1>1. Wrote(v, u, C) /\ u.line = <<>>
  BY EndLineEffect
<1>2. w = [u EXCEPT !.active = 0, !.event = 0, !.pending = <<>>]
  BY DEF FinishEvent
<1> HIDE DEF u
<1>3. <<>> \in Seq(Seq(Label)) /\ Len(FlattenSeq(<<>>)) <= MaxPending
  BY Constants DEF FlattenSeq
<1>4. 0 \in 0 .. Stream /\ 0 \in 0 .. MaxCommand
  BY Constants DEF Stream
<1>5. u \in View
  BY <1>1 DEF Wrote
<1>6. w \in View
  BY <1>2, <1>3, <1>4, <1>5, ZenonT(60) DEF View
<1>7. /\ SameReader(u, w) /\ w.active = 0 /\ w.event = 0
      /\ w.pending = <<>> /\ w.line = u.line /\ w.shown = u.shown
  BY <1>2, <1>5 DEF View, SameReader
<1> QED
  BY <1>1, <1>6, <1>7 DEF Wrote, Same, SameReader, OnlyPrints

\* What was printed under a command that is registered is of the labels C.
ShowsOwn(v, w, C) ==
    \A s \in w.shown : s \in v.shown \/ (v.event # 0 /\ s.under = v.event /\ s.text \in C)

Holds(v, P, C) == v \in View /\ Waits(v, P) /\ v.line \in Seq(C)

Went(v, w, P, C) == Holds(w, P, C) /\ Same(v, w) /\ ShowsOwn(v, w, C)

\* A text comes out of the renderer: it is dropped, written or kept.
LEMMA OnTextEffect ==
    ASSUME NEW v \in View, NEW P \in SUBSET Label, NEW C \in SUBSET Label,
           NEW text \in Seq(Label),
           Waits(v, P), v.line \in Seq(C),
           v.active # 0 /\ v.event # 0 => text \in Seq(C \cup {Newline}),
           v.active # 0 /\ v.event = 0 => text \in Seq(P \cup {Newline})
    PROVE  Went(v, OnText(v, text), P, C)
<1> SUFFICES ASSUME NEW w, w = OnText(v, text) PROVE Went(v, w, P, C)
  OBVIOUS
<1>1. CASE v.active = 0
  <2>1. w = v
    BY <1>1 DEF OnText
  <2> QED
    BY <2>1 DEF Went, Holds, ShowsOwn, Same, SameReader
<1>5. CASE text = <<>> /\ v.active # 0
  <2>1. w = v \/ (v.event # 0 /\ w = Write(v, text))
    BY <1>5 DEF OnText
  <2>2. CASE w = v
    BY <2>2 DEF Went, Holds, ShowsOwn, Same, SameReader
  <2>3. CASE v.event # 0 /\ w = Write(v, text)
    <3>1. Wrote(v, w, C)
      BY <1>5, <2>3, WriteEffect
    <3> QED
      BY <2>3, <3>1 DEF Went, Holds, ShowsOwn, Wrote, OnlyPrints, Waits
  <2> QED
    BY <2>1, <2>2, <2>3
<1>2. CASE text # <<>> /\ v.active # 0 /\ v.event # 0
  <2>1. w = Write(v, text)
    BY <1>2 DEF OnText
  <2>2. Wrote(v, w, C)
    BY <1>2, <2>1, WriteEffect
  <2> QED
    BY <1>2, <2>2 DEF Went, Holds, ShowsOwn, Wrote, OnlyPrints, Waits
<1>3. CASE text # <<>> /\ v.active # 0 /\ v.event = 0 /\ Fits(v, text)
  <2> DEFINE p == Append(v.pending, text)
  <2>1. w = [v EXCEPT !.pending = p]
    BY <1>3 DEF OnText
  <2>2. v.pending \in Seq(Seq(Label))
    BY DEF View
  <2>3. p \in Seq(Seq(Label))
    BY <2>2
  <2>4. p \in Seq(Seq(P \cup {Newline}))
    BY <1>3 DEF Went, Holds, ShowsOwn, Waits
  <2>5. Len(FlattenSeq(p)) <= MaxPending
    BY <1>3, <2>2, FlattenAppend DEF Fits
  <2> HIDE DEF p
  <2>6. w \in View
    BY <2>1, <2>3, <2>5 DEF View
  <2>7. Same(v, w) /\ w.pending = p /\ w.line = v.line /\ w.shown = v.shown
    BY <2>1 DEF View, Same, SameReader
  <2> QED
    BY <2>4, <2>6, <2>7 DEF Went, Holds, ShowsOwn, Waits
<1>4. CASE text # <<>> /\ v.active # 0 /\ v.event = 0 /\ ~Fits(v, text)
  <2>1. w = [v EXCEPT !.overflow = TRUE]
    BY <1>4 DEF OnText
  <2>2. w \in View
    BY <2>1 DEF View
  <2>3. Same(v, w) /\ w.pending = v.pending /\ w.line = v.line /\ w.shown = v.shown
    BY <2>1 DEF View, Same, SameReader
  <2> QED
    BY <2>2, <2>3 DEF Went, Holds, ShowsOwn, Waits
<1> QED
  BY <1>1, <1>2, <1>3, <1>4, <1>5

-----------------------------------------------------------------------------
(***************************************************************************)
(* PlainTextRenderer, and MarkerSplitter for a byte outside the markers.   *)
(* The labels A are those of the text it holds, always (all) or while a    *)
(* command is active.                                                      *)
(***************************************************************************)
SameSession(v, w) ==
    /\ w.opened = v.opened /\ w.offset = v.offset
    /\ w.waiting = v.waiting /\ w.completed = v.completed
    /\ w.marked = v.marked /\ w.late = v.late
    /\ w.active = v.active /\ w.event = v.event

\* Where a text may go: to the line of its command, or to what waits for it.
MayGo(v, P, C, A) ==
    /\ v.active # 0 /\ v.event # 0 => A \subseteq C
    /\ v.active # 0 /\ v.event = 0 => A \subseteq P

Flushed(v, w, P, C) ==
    /\ Holds(w, P, C) /\ SameSession(v, w) /\ ShowsOwn(v, w, C)
    /\ w.mode = v.mode /\ w.return = v.return /\ w.buffer = v.buffer
    /\ w.text = <<>>

Rendered(v, P, C, A, all) ==
    /\ Holds(v, P, C)
    /\ v.mode # "normal" => v.text = <<>>
    /\ v.return => v.text = <<>>
    /\ all \/ v.active # 0 => v.text \in Seq(A)

After(v, w, P, C, A, all) == Rendered(w, P, C, A, all) /\ SameSession(v, w) /\ ShowsOwn(v, w, C)

\* The renderer's text is flushed to the view.
LEMMA FlushEffect ==
    ASSUME NEW P \in SUBSET Label, NEW C \in SUBSET Label, NEW A \in SUBSET Label,
           NEW v, Holds(v, P, C), MayGo(v, P, C, A), v.active # 0 => v.text \in Seq(A)
    PROVE  Flushed(v, FlushText(v), P, C)
<1> SUFFICES ASSUME NEW w, w = FlushText(v) PROVE Flushed(v, w, P, C)
  OBVIOUS
<1> DEFINE u == [v EXCEPT !.text = <<>>]
           text == v.text
<1>1. w = OnText(u, text)
  BY DEF FlushText
<1>2. v \in View /\ text \in Seq(Label) /\ <<>> \in Seq(Label)
  BY DEF Holds, View
<1>3. u \in View
  BY <1>2 DEF View
<1>4. /\ SameSession(v, u) /\ u.mode = v.mode /\ u.return = v.return /\ u.buffer = v.buffer
      /\ u.text = <<>> /\ u.line = v.line /\ u.pending = v.pending /\ u.shown = v.shown
  BY <1>2 DEF View, SameSession
<1>5. v.active # 0 => text \in Seq(A)
  OBVIOUS
<1> HIDE DEF u, text
<1>6. v.active # 0 /\ v.event # 0 => text \in Seq(C \cup {Newline})
  BY <1>5 DEF MayGo
<1>7. v.active # 0 /\ v.event = 0 => text \in Seq(P \cup {Newline})
  BY <1>5 DEF MayGo
<1>8. u.active = v.active /\ u.event = v.event /\ Waits(u, P) /\ u.line \in Seq(C)
  BY <1>4 DEF SameSession, Waits, Holds
<1>9. Went(u, w, P, C)
  BY <1>1, <1>2, <1>3, <1>6, <1>7, <1>8, OnTextEffect
<1> QED
  BY <1>4, <1>8, <1>9 DEF Went, Flushed, Holds, Same, SameReader, SameSession, ShowsOwn

\* A text that is a label or a line end follows it.
LEMMA EmitEffect ==
    ASSUME NEW P \in SUBSET Label, NEW C \in SUBSET Label, NEW A \in SUBSET Label,
           NEW v, Holds(v, P, C), MayGo(v, P, C, A), v.active # 0 => v.text \in Seq(A),
           NEW t \in Label, v.active # 0 => t \in A \cup {Newline}
    PROVE  Flushed(v, OnText(FlushText(v), <<t>>), P, C)
<1> SUFFICES ASSUME NEW w, w = OnText(FlushText(v), <<t>>) PROVE Flushed(v, w, P, C)
  OBVIOUS
<1> DEFINE u == FlushText(v)
           text == <<t>>
<1>1. w = OnText(u, text)
  OBVIOUS
<1>2. Flushed(v, u, P, C)
  BY FlushEffect
<1>3. text \in Seq(Label) /\ (v.active # 0 => text \in Seq(A \cup {Newline}))
  OBVIOUS
<1> HIDE DEF u, text
<1>4. u.active = v.active /\ u.event = v.event
  BY <1>2 DEF Flushed, SameSession
<1>5. u.active # 0 /\ u.event # 0 => text \in Seq(C \cup {Newline})
  BY <1>3, <1>4 DEF MayGo
<1>6. u.active # 0 /\ u.event = 0 => text \in Seq(P \cup {Newline})
  BY <1>3, <1>4 DEF MayGo
<1>7. u \in View /\ Waits(u, P) /\ u.line \in Seq(C)
  BY <1>2 DEF Flushed, Holds
<1>8. Went(u, w, P, C)
  BY <1>1, <1>3, <1>5, <1>6, <1>7, OnTextEffect
<1> QED
  BY <1>2, <1>4, <1>8 DEF Flushed, Went, Holds, Same, SameReader, SameSession, ShowsOwn

\* The splitter is left alone, and a line feed leaves no text.
Ended(v, w, b) == w.buffer = v.buffer /\ (b.byte = "newline" => w.text = <<>>)

\* A byte is rendered.
LEMMA RenderEffect ==
    ASSUME NEW P \in SUBSET Label, NEW C \in SUBSET Label, NEW A \in SUBSET Label,
           NEW all \in BOOLEAN,
           NEW v, Rendered(v, P, C, A, all), MayGo(v, P, C, A),
           NEW b \in MarkedByte,
           (all \/ v.active # 0) /\ b.byte # "escape" => b.label \in A
    PROVE  After(v, Render(v, b), P, C, A, all) /\ Ended(v, Render(v, b), b)
<1> SUFFICES ASSUME NEW w, w = Render(v, b)
             PROVE  After(v, w, P, C, A, all) /\ Ended(v, w, b)
  OBVIOUS
<1>1. v \in View /\ b.label \in Label /\ b.byte \in Byte \cup {"start", "end"}
  BY DEF Rendered, Holds, MarkedByte
<1>2. CASE v.mode # "normal"
  <2> DEFINE m == ModeAfter(v.mode, b.byte)
  <2>1. w = [v EXCEPT !.mode = m]
    BY <1>2 DEF Render
  <2>2. m \in {"normal", "escape", "csi", "osc", "string"}
    BY <1>1, <1>2 DEF ModeAfter, View
  <2> HIDE DEF m
  <2>3. w \in View
    BY <1>1, <2>1, <2>2 DEF View
  <2>4. /\ SameSession(v, w) /\ w.return = v.return /\ w.buffer = v.buffer /\ w.text = v.text
        /\ w.line = v.line /\ w.pending = v.pending /\ w.shown = v.shown
    BY <1>1, <2>1 DEF View, SameSession
  <2>5. v.text = <<>>
    BY <1>2 DEF Rendered
  <2>6. w.active = v.active
    BY <2>4 DEF SameSession
  <2> QED
    BY <2>3, <2>4, <2>5, <2>6 DEF Ended, After, Flushed, Rendered, Holds, Waits, ShowsOwn
<1>3. CASE v.mode = "normal"
  <2> DEFINE u == [v EXCEPT !.return = (b.byte = "return")]
  <2>1. u \in View
    BY <1>1 DEF View
  <2>2. /\ SameSession(v, u) /\ u.return = (b.byte = "return") /\ u.mode = v.mode
        /\ u.buffer = v.buffer /\ u.text = v.text
        /\ u.line = v.line /\ u.pending = v.pending /\ u.shown = v.shown
    BY <1>1 DEF View, SameSession
  <2>3. w = RenderNormal(v, b)
    BY <1>3 DEF Render
  <2>4. /\ b.byte = "escape" => w = [FlushText(u) EXCEPT !.mode = "escape"]
        /\ b.byte = "return" \/ (b.byte = "newline" /\ ~v.return) =>
               w = OnText(FlushText(u), <<Newline>>)
        /\ b.byte = "newline" /\ v.return => w = u
        /\ b.byte = "bell" => w = OnText(FlushText(u), <<b.label>>)
        /\ b.byte \notin {"escape", "return", "newline", "bell"} =>
               w = [u EXCEPT !.text = Append(@, b.label)]
    BY <2>3 DEF RenderNormal, EmitNewline
  <2> HIDE DEF u
  <2>5. Holds(u, P, C) /\ MayGo(u, P, C, A) /\ (u.active # 0 => u.text \in Seq(A))
    BY <2>1, <2>2 DEF Rendered, Holds, Waits, MayGo, SameSession
  <2>6. CASE b.byte = "escape"
    <3> DEFINE x == FlushText(u)
    <3>1. Flushed(u, x, P, C)
      BY <2>5, FlushEffect
    <3>2. w = [x EXCEPT !.mode = "escape"]
      BY <2>4, <2>6
    <3> HIDE DEF x
    <3>3. x \in View
      BY <3>1 DEF Flushed, Holds
    <3>4. w \in View
      BY <3>2, <3>3 DEF View
    <3>5. /\ SameSession(x, w) /\ w.return = x.return /\ w.buffer = x.buffer /\ w.text = x.text
          /\ w.line = x.line /\ w.pending = x.pending /\ w.shown = x.shown
      BY <3>2, <3>3 DEF View, SameSession
    <3>6. <<>> \in Seq(A)
      OBVIOUS
    <3> QED
      BY <2>2, <2>6, <3>1, <3>4, <3>5, <3>6
      DEF Ended, After, Flushed, Rendered, Holds, Waits, ShowsOwn, SameSession
  <2>7. CASE b.byte = "return" \/ (b.byte = "newline" /\ ~v.return)
    <3>1. w = OnText(FlushText(u), <<Newline>>)
      BY <2>4, <2>7
    <3>2. Flushed(u, w, P, C)
      BY <2>5, <3>1, EmitEffect, Constants
    <3>3. <<>> \in Seq(A)
      OBVIOUS
    <3> QED
      BY <2>2, <3>2, <3>3 DEF Ended, After, Flushed, Rendered, ShowsOwn, SameSession
  <2>8. CASE b.byte = "newline" /\ v.return
    <3>1. w = u /\ v.text = <<>>
      BY <2>4, <2>8 DEF Rendered
    <3> QED
      BY <2>2, <2>5, <3>1, <2>8 DEF Ended, After, Flushed, Rendered, ShowsOwn
  <2>9. CASE b.byte = "bell"
    <3>1. w = OnText(FlushText(u), <<b.label>>)
      BY <2>4, <2>9
    <3>2. u.active # 0 => b.label \in A \cup {Newline}
      BY <2>2, <2>9 DEF SameSession
    <3>3. Flushed(u, w, P, C)
      BY <1>1, <2>5, <3>1, <3>2, EmitEffect
    <3>4. <<>> \in Seq(A)
      OBVIOUS
    <3> QED
      BY <2>2, <3>3, <3>4, <2>9 DEF Ended, After, Flushed, Rendered, ShowsOwn, SameSession
  <2>10. CASE b.byte \notin {"escape", "return", "newline", "bell"}
    <3> DEFINE text == Append(u.text, b.label)
    <3>1. w = [u EXCEPT !.text = text]
      BY <2>4, <2>10
    <3>2. u.text \in Seq(Label)
      BY <2>1 DEF View
    <3>3. text \in Seq(Label)
      BY <1>1, <3>2
    <3>4. all \/ u.active # 0 => u.text \in Seq(A) /\ b.label \in A
      BY <2>2, <2>10 DEF SameSession, Rendered
    <3>5. all \/ u.active # 0 => text \in Seq(A)
      BY <3>4
    <3> HIDE DEF text
    <3>6. w \in View
      BY <2>1, <3>1, <3>3 DEF View
    <3>7. /\ SameSession(u, w) /\ w.return = u.return /\ w.buffer = u.buffer /\ w.text = text
          /\ w.line = u.line /\ w.pending = u.pending /\ w.shown = u.shown /\ w.mode = u.mode
      BY <2>1, <3>1 DEF View, SameSession
    <3> QED
      BY <1>3, <2>2, <2>5, <2>10, <3>5, <3>6, <3>7
      DEF Ended, After, Flushed, Rendered, Holds, Waits, ShowsOwn, SameSession
  <2> QED
    BY <2>6, <2>7, <2>8, <2>9, <2>10
<1> QED
  BY <1>2, <1>3

\* What the splitter keeps, and when the renderer has no text.
Passed(v, w, b) ==
    /\ w.buffer = IF b.byte = "escape" THEN <<b>> ELSE <<>>
    /\ b.byte = "newline" => w.text = <<>>
    /\ b.byte = "escape" /\ v.buffer = <<>> => w.text = v.text

\* A byte that is not part of a marker passes the splitter, after the escape
\* byte it may keep.
LEMMA PlainEffect ==
    ASSUME NEW P \in SUBSET Label, NEW C \in SUBSET Label, NEW A \in SUBSET Label,
           NEW all \in BOOLEAN,
           NEW v, Rendered(v, P, C, A, all), MayGo(v, P, C, A),
           NEW b \in MarkedByte,
           (all \/ v.active # 0) /\ b.byte # "escape" => b.label \in A,
           v.buffer = <<>> \/ (\E e \in MarkedByte : v.buffer = <<e>> /\ e.byte = "escape"
                                                    /\ ~IsMark(b))
    PROVE  After(v, Feed(v, b), P, C, A, all) /\ Passed(v, Feed(v, b), b)
<1> SUFFICES ASSUME NEW w, w = Feed(v, b) PROVE After(v, w, P, C, A, all) /\ Passed(v, w, b)
  OBVIOUS
<1> DEFINE u == [v EXCEPT !.buffer = <<>>]
           x == FoldLeft(Render, u, v.buffer)
<1>1. w = IF b.byte = "escape" THEN [x EXCEPT !.buffer = <<b>>] ELSE Render(x, b)
  <2>1. ~(Len(v.buffer) > 1) /\ ~(Len(v.buffer) = 1 /\ b.byte \in {"start", "end"})
    <3>1. CASE v.buffer = <<>>
      BY <3>1
    <3>2. CASE v.buffer # <<>>
      <4>1. Len(v.buffer) = 1 /\ ~IsMark(b)
        BY <3>2
      <4> QED
        BY <4>1 DEF IsMark
    <3> QED
      BY <3>1, <3>2
  <2> QED
    BY <2>1 DEF Feed
<1>2. v \in View /\ v.buffer \in Seq(MarkedByte) /\ <<>> \in Seq(MarkedByte)
      /\ <<b>> \in Seq(MarkedByte)
  BY DEF Rendered, Holds, View
<1>3. u \in View
  BY <1>2 DEF View
<1>4. /\ SameSession(v, u) /\ u.buffer = <<>> /\ u.return = v.return /\ u.mode = v.mode
      /\ u.text = v.text /\ u.line = v.line /\ u.pending = v.pending /\ u.shown = v.shown
  BY <1>2 DEF View, SameSession
<1>5. PICK g : Unrolled(g, "render", u, v.buffer, x)
  BY <1>2, RenderFold
<1> HIDE DEF u, x
<1>6. Rendered(u, P, C, A, all) /\ MayGo(u, P, C, A)
  BY <1>3, <1>4 DEF Rendered, Holds, Waits, MayGo, SameSession
<1>7. /\ After(v, x, P, C, A, all)
      /\ x.buffer = <<>>
      /\ v.buffer = <<>> => x.text = v.text
  <2>1. CASE v.buffer = <<>>
    <3>1. x = u
      BY <1>5, <2>1 DEF Unrolled
    <3> QED
      BY <1>4, <1>6, <3>1 DEF After, ShowsOwn
  <2>2. CASE \E e \in MarkedByte : v.buffer = <<e>> /\ e.byte = "escape"
    <3>1. PICK e \in MarkedByte : v.buffer = <<e>> /\ e.byte = "escape"
      BY <2>2
    <3>2. v.buffer[1] = e /\ Len(v.buffer) = 1 /\ v.buffer # <<>>
      BY <3>1
    <3>3. x = Render(u, e)
      <4>1. g[0] = u /\ g[1] = Apply("render", g[0], v.buffer[1]) /\ x = g[1]
        BY <1>5, <3>2 DEF Unrolled
      <4> QED
        BY <3>2, <4>1 DEF Apply
    <3>4. After(u, x, P, C, A, all) /\ Ended(u, x, e)
      BY <1>6, <3>1, <3>3, RenderEffect
    <3> QED
      BY <1>4, <3>2, <3>4 DEF Ended, After, ShowsOwn, SameSession
  <2> QED
    BY <2>1, <2>2
<1>8. CASE b.byte = "escape"
  <2>1. x \in View /\ w = [x EXCEPT !.buffer = <<b>>]
    BY <1>1, <1>7, <1>8 DEF After, Rendered, Holds
  <2>2. w \in View
    BY <1>2, <2>1 DEF View
  <2>3. /\ SameSession(x, w) /\ w.buffer = <<b>> /\ w.return = x.return /\ w.mode = x.mode
        /\ w.text = x.text /\ w.line = x.line /\ w.pending = x.pending /\ w.shown = x.shown
    BY <2>1 DEF View, SameSession
  <2> QED
    BY <1>7, <1>8, <2>2, <2>3 DEF Passed, After, Rendered, Holds, Waits, ShowsOwn, SameSession
<1>9. CASE b.byte # "escape"
  <2>1. w = Render(x, b)
    BY <1>1, <1>9
  <2>2. Rendered(x, P, C, A, all)
    BY <1>7 DEF After
  <2>3. x.active = v.active /\ x.event = v.event
    BY <1>7 DEF After, SameSession
  <2>4. MayGo(x, P, C, A)
    BY <2>3 DEF MayGo
  <2>5. (all \/ x.active # 0) /\ b.byte # "escape" => b.label \in A
    BY <2>3
  <2>6. After(x, Render(x, b), P, C, A, all) /\ Ended(x, Render(x, b), b)
    BY <2>2, <2>4, <2>5, RenderEffect
  <2> QED
    BY <1>7, <1>9, <2>1, <2>6 DEF Ended, Passed, After, ShowsOwn, SameSession
<1> QED
  BY <1>8, <1>9

-----------------------------------------------------------------------------
(***************************************************************************)
(* The view of a terminal, between two bytes or lines.                     *)
(***************************************************************************)

\* Commands whose start marker was read, but not their start line.
Unregistered(v) == v.marked \ v.waiting

\* The labels that may wait, be in the line, or be in the renderer: until a
\* line is late only those of the one command they belong to.
Waiting(v) == {t \in Label : t.cmd # 0 /\ (~v.late => t.cmd \in Unregistered(v))}
Begun(v) == {t \in Label : t.cmd # 0 /\ (~v.late => t.cmd = v.event)}
Own(v) == {t \in Label : t.cmd # 0 /\ t.cmd = v.active}

Registration(v) ==
    /\ v.event # 0 => v.event = v.active /\ v.event \in v.waiting
    /\ v.active # 0 /\ v.event = 0 => v.active \in Unregistered(v)
    /\ v.completed \subseteq Unregistered(v)
    /\ ~v.late =>
          /\ \A j, k \in Unregistered(v) : j = k
          /\ \A k \in Unregistered(v) :
                (v.active = k /\ v.event = 0) \/ (v.active = 0 /\ k \in v.completed)

IsShown(v) == \A s \in v.shown : s.text.cmd # 0 /\ (~v.late => s.text.cmd = s.under)

Session(v) == Registration(v) /\ Holds(v, Waiting(v), Begun(v)) /\ IsShown(v)

SameRenderer(v, w) ==
    /\ w.opened = v.opened /\ w.offset = v.offset /\ w.buffer = v.buffer
    /\ w.mode = v.mode /\ w.return = v.return /\ w.text = v.text

\* The text of the active command may go where the view puts it.
LEMMA OwnMayGo ==
    ASSUME NEW v, Session(v)
    PROVE  MayGo(v, Waiting(v), Begun(v), Own(v))
  BY DEF Session, Registration, MayGo, Waiting, Begun, Own

\* The sets of labels depend on the registration only.
LEMMA SessionKept ==
    ASSUME NEW v, NEW w, Session(v), SameSession(v, w),
           Holds(w, Waiting(v), Begun(v)), ShowsOwn(v, w, Begun(v))
    PROVE  Session(w)
<1>1. Unregistered(w) = Unregistered(v)
  BY DEF Unregistered, SameSession
<1>2. Waiting(w) = Waiting(v) /\ Begun(w) = Begun(v)
  BY <1>1 DEF Waiting, Begun, SameSession
<1>3. Registration(w)
  BY <1>1 DEF Session, Registration, SameSession
<1>4. IsShown(w)
  BY DEF Session, IsShown, ShowsOwn, Begun, SameSession
<1> QED
  BY <1>2, <1>3, <1>4 DEF Session

\* More labels may wait.
LEMMA WaitsMore ==
    ASSUME NEW v, NEW P, NEW Q, Waits(v, P), P \subseteq Q
    PROVE  Waits(v, Q)
<1>1. Seq(P \cup {Newline}) \subseteq Seq(Q \cup {Newline})
  OBVIOUS
<1>2. Seq(Seq(P \cup {Newline})) \subseteq Seq(Seq(Q \cup {Newline}))
  BY <1>1
<1> QED
  BY <1>2 DEF Waits

\* Nothing waits.
LEMMA NothingWaits ==
    ASSUME NEW v, NEW P, v.pending = <<>>
    PROVE  Waits(v, P)
  BY DEF Waits

\* The start marker of a command is read.
LEMMA StartEffect ==
    ASSUME NEW v, Session(v), v.active = 0, NEW k \in Command
    PROVE  LET w == OnMarker(v, "start", k)
           IN  Session(w) /\ SameRenderer(v, w) /\ w.active = k
<1> DEFINE late == v.late \/ ~(v.marked \subseteq v.waiting)
           u == [v EXCEPT !.active = k, !.marked = @ \cup {k}, !.late = late]
<1> SUFFICES ASSUME NEW w, w = IF k \in v.waiting THEN BeginEvent(u, k) ELSE u
             PROVE  Session(w) /\ SameRenderer(v, w) /\ w.active = k
  BY DEF OnMarker
<1>1. v \in View /\ k \in 0 .. Stream /\ k # 0
  BY Constants DEF Session, Holds, Command, Stream
<1>2. u \in View
  <2>1. late \in BOOLEAN
    OBVIOUS
  <2>2. v.marked \cup {k} \in SUBSET Command
    BY <1>1 DEF View
  <2> HIDE DEF late
  <2> QED
    BY <1>1, <2>1, <2>2, ZenonT(60) DEF View
<1>3. /\ SameRenderer(v, u)
      /\ u.active = k /\ u.event = v.event /\ u.waiting = v.waiting /\ u.completed = v.completed
      /\ u.marked = v.marked \cup {k}
      /\ u.late = (v.late \/ ~(v.marked \subseteq v.waiting))
      /\ u.line = v.line /\ u.pending = v.pending /\ u.shown = v.shown
  BY <1>1 DEF View, SameRenderer
<1> HIDE DEF u
<1>4. v.event = 0
  BY <1>1 DEF Session, Registration
<1>5. ~u.late => Unregistered(v) = {}
  BY <1>3 DEF Unregistered
<1>6. CASE k \notin v.waiting
  <2>1. w = u
    BY <1>6
  <2>2. Unregistered(u) = Unregistered(v) \cup {k}
    BY <1>3, <1>6 DEF Unregistered
  <2>3. Registration(u)
    BY <1>1, <1>3, <1>4, <1>5, <2>2 DEF Session, Registration
  <2>4. Waiting(v) \subseteq Waiting(u) /\ Begun(v) \subseteq Begun(u)
    BY <1>3, <1>4, <2>2 DEF Waiting, Begun
  <2>5. Waits(u, Waiting(v))
    BY <1>3 DEF Session, Holds, Waits
  <2>6. u.line \in Seq(Begun(u))
    BY <1>3, <2>4 DEF Session, Holds
  <2>7. IsShown(u)
    BY <1>3 DEF Session, IsShown
  <2> QED
    BY <1>2, <1>3, <2>1, <2>3, <2>4, <2>5, <2>6, <2>7, WaitsMore DEF Session, Holds
<1>7. CASE k \in v.waiting
  <2> DEFINE C == {t \in Label : t.cmd # 0 /\ (~u.late => t.cmd = k)}
  <2>1. Waiting(v) \subseteq C
    BY <1>3, <1>5 DEF Waiting
  <2>2. Waits(u, Waiting(v))
    BY <1>3 DEF Session, Holds, Waits
  <2>3. Waits(u, C) /\ C \in SUBSET Label
    BY <2>1, <2>2, WaitsMore
  <2>4. \A t \in C : t.cmd # 0 /\ (~u.late => t.cmd = k)
    OBVIOUS
  <2>5. /\ w \in View /\ SameReader(u, w) /\ w.active = u.active
        /\ w.event = k /\ w.pending = <<>> /\ w.line \in Seq(C)
        /\ OnlyPrints(u, w, k, C)
    <3> HIDE DEF C
    <3> QED
      BY <1>2, <1>7, <2>3, BeginEffect
  <2>6. Unregistered(w) = Unregistered(v)
    BY <1>3, <1>7, <2>5 DEF Unregistered, SameReader
  <2>7. Registration(w)
    BY <1>1, <1>3, <1>5, <1>7, <2>5, <2>6 DEF Session, Registration, SameReader
  <2>8. Begun(w) = C
    BY <2>5 DEF Begun, SameReader
  <2>9. Waits(w, Waiting(w))
    <3>1. w.pending = <<>>
      BY <2>5
    <3> QED
      BY <3>1, NothingWaits
  <2>10. IsShown(w)
    BY <1>3, <2>4, <2>5 DEF Session, IsShown, OnlyPrints, SameReader
  <2>11. SameRenderer(v, w) /\ w.active = k
    BY <1>3, <2>5 DEF SameRenderer, SameReader
  <2> QED
    BY <2>5, <2>7, <2>8, <2>9, <2>10, <2>11 DEF Session, Holds
<1> QED
  BY <1>6, <1>7

\* The end of a registered command.
LEMMA FinishKept ==
    ASSUME NEW v \in View, NEW C \in SUBSET Label, v.line \in Seq(C), IsShown(v),
           \A t \in C : t.cmd # 0 /\ (~v.late => t.cmd = v.event),
           v.completed \subseteq Unregistered(v),
           ~v.late => Unregistered(v) = {}
    PROVE  LET w == FinishEvent(v)
           IN  Session(w) /\ SameReader(v, w) /\ w.active = 0
<1> SUFFICES ASSUME NEW w, w = FinishEvent(v)
             PROVE  Session(w) /\ SameReader(v, w) /\ w.active = 0
  OBVIOUS
<1>1. /\ w \in View /\ SameReader(v, w) /\ w.active = 0 /\ w.event = 0
      /\ w.pending = <<>> /\ w.line = <<>>
      /\ OnlyPrints(v, w, v.event, C)
  BY FinishEffect
<1>2. Unregistered(w) = Unregistered(v) /\ w.late = v.late
  BY <1>1 DEF Unregistered, SameReader
<1>3. Registration(w)
  BY <1>1, <1>2 DEF Registration, SameReader
<1>4. Waits(w, Waiting(w)) /\ w.line \in Seq(Begun(w))
  BY <1>1 DEF Waits
<1>5. IsShown(w)
  BY <1>1, <1>2 DEF IsShown, OnlyPrints
<1> QED
  BY <1>1, <1>3, <1>4, <1>5 DEF Session, Holds

\* The end marker of a command is read.
LEMMA EndEffect ==
    ASSUME NEW v, Session(v), NEW k \in Command
    PROVE  LET w == OnMarker(v, "end", k)
           IN  /\ Session(w) /\ SameRenderer(v, w)
               /\ w.active = IF k = v.active THEN 0 ELSE v.active
<1> SUFFICES ASSUME NEW w, w = OnMarker(v, "end", k)
             PROVE  /\ Session(w) /\ SameRenderer(v, w)
                    /\ w.active = IF k = v.active THEN 0 ELSE v.active
  OBVIOUS
<1>1. v \in View /\ k # 0
  BY Constants DEF Session, Holds, Command
<1>2. CASE k # v.active
  <2>1. w = v
    BY <1>2 DEF OnMarker
  <2> QED
    BY <1>2, <2>1 DEF SameRenderer
<1>3. CASE k = v.active /\ v.event = 0
  <2>1. w = [v EXCEPT !.completed = @ \cup {k}, !.active = 0]
    BY <1>3 DEF OnMarker
  <2>2. w \in View
    <3>1. v.completed \cup {k} \in SUBSET Command
      BY <1>1 DEF View
    <3>2. 0 \in 0 .. Stream
      BY Constants DEF Stream
    <3> QED
      BY <1>1, <2>1, <3>1, <3>2, ZenonT(60) DEF View
  <2>3. /\ SameRenderer(v, w)
        /\ w.active = 0 /\ w.event = 0 /\ w.waiting = v.waiting /\ w.marked = v.marked
        /\ w.late = v.late /\ w.completed = v.completed \cup {k}
        /\ w.line = v.line /\ w.pending = v.pending /\ w.shown = v.shown
    BY <1>1, <1>3, <2>1 DEF View, SameRenderer
  <2>4. Unregistered(w) = Unregistered(v)
    BY <2>3 DEF Unregistered
  <2>5. Registration(w)
    BY <1>1, <1>3, <2>3, <2>4 DEF Session, Registration
  <2>6. Waiting(w) = Waiting(v) /\ Begun(w) = Begun(v)
    BY <1>3, <2>3, <2>4 DEF Waiting, Begun
  <2>7. IsShown(w)
    BY <2>3 DEF Session, IsShown
  <2> QED
    BY <1>3, <2>2, <2>3, <2>5, <2>6, <2>7 DEF Session, Holds, Waits
<1>4. CASE k = v.active /\ v.event # 0
  <2>1. w = FinishEvent(v)
    BY <1>4 DEF OnMarker
  <2>2. ~v.late => Unregistered(v) = {}
    BY <1>1, <1>4 DEF Session, Registration
  <2>3. /\ Begun(v) \in SUBSET Label /\ v.line \in Seq(Begun(v)) /\ IsShown(v)
        /\ \A t \in Begun(v) : t.cmd # 0 /\ (~v.late => t.cmd = v.event)
        /\ v.completed \subseteq Unregistered(v)
    BY DEF Session, Holds, Begun, Registration
  <2>4. Session(w) /\ SameReader(v, w) /\ w.active = 0
    BY <1>1, <2>1, <2>2, <2>3, FinishKept
  <2> QED
    BY <1>4, <2>4 DEF SameReader, SameRenderer
<1> QED
  BY <1>2, <1>3, <1>4

\* The start line of a command is read.
LEMMA RegisterEffect ==
    ASSUME NEW v, Session(v), NEW k \in Command, NEW rest, kind = "terminal"
    PROVE  LET w == Register(v, k, rest)
           IN  Session(w) /\ SameRenderer(v, w) /\ w.active \in {0, v.active}
<1> DEFINE u == [v EXCEPT !.waiting = @ \cup {k}, !.requested = TRUE]
           x == [u EXCEPT !.completed = @ \ {k}]
<1> SUFFICES ASSUME NEW w,
                    w = IF k \in u.completed THEN FinishEvent(BeginEvent(x, k))
                        ELSE IF u.active = k /\ u.event = 0 THEN BeginEvent(u, k) ELSE u
             PROVE  Session(w) /\ SameRenderer(v, w) /\ w.active \in {0, v.active}
  BY DEF Register
<1>1. v \in View /\ k # 0
  BY Constants DEF Session, Holds, Command
<1>2. v.waiting \cup {k} \in SUBSET Command
  BY <1>1 DEF View
<1>3. u \in View
  BY <1>1, <1>2 DEF View
<1>4. /\ SameRenderer(v, u)
      /\ u.active = v.active /\ u.event = v.event /\ u.waiting = v.waiting \cup {k}
      /\ u.completed = v.completed /\ u.marked = v.marked /\ u.late = v.late
      /\ u.line = v.line /\ u.pending = v.pending /\ u.shown = v.shown
  BY <1>1 DEF View, SameRenderer
<1>5. x \in View /\ SameRenderer(u, x) /\ x.active = u.active /\ x.event = u.event
      /\ x.waiting = u.waiting /\ x.completed = u.completed \ {k} /\ x.marked = u.marked
      /\ x.late = u.late /\ x.line = u.line /\ x.pending = u.pending /\ x.shown = u.shown
  BY <1>3, ZenonT(60) DEF View, SameRenderer
<1> HIDE DEF u, x
<1>6. Unregistered(u) = Unregistered(v) \ {k} /\ Unregistered(x) = Unregistered(v) \ {k}
  BY <1>4, <1>5 DEF Unregistered
<1> DEFINE C == {t \in Label : t.cmd # 0 /\ (~v.late => t.cmd = k)}
<1>7. \A t \in C : t.cmd # 0 /\ (~v.late => t.cmd = k)
  OBVIOUS
<1>8. C \in SUBSET Label
  OBVIOUS
<1>9. Waits(v, Waiting(v))
  BY DEF Session, Holds
<1>10. k \in Unregistered(v) => Waiting(v) \subseteq C
  BY DEF Session, Registration, Waiting
<1> HIDE DEF C
<1>11. CASE k \in u.completed
  <2> DEFINE y == BeginEvent(x, k)
  <2>1. k \in Unregistered(v)
    BY <1>4, <1>11 DEF Session, Registration
  <2>2. Waits(x, C)
    BY <1>4, <1>5, <1>9, <1>10, <2>1, WaitsMore DEF Waits
  <2>3. /\ y \in View /\ SameReader(x, y) /\ y.active = x.active
        /\ y.event = k /\ y.pending = <<>> /\ y.line \in Seq(C)
        /\ OnlyPrints(x, y, k, C)
    BY <1>5, <1>8, <2>2, BeginEffect
  <2>4. w = FinishEvent(y)
    BY <1>11
  <2> HIDE DEF y
  <2>5. Unregistered(y) = Unregistered(v) \ {k}
    BY <1>6, <2>3 DEF Unregistered, SameReader
  <2>6. y.completed \subseteq Unregistered(y)
    BY <1>4, <1>5, <2>3, <2>5 DEF Session, Registration, SameReader
  <2>7. y.late = v.late
    BY <1>4, <1>5, <2>3 DEF SameReader
  <2>8. ~y.late => Unregistered(y) = {}
    BY <2>1, <2>5, <2>7 DEF Session, Registration
  <2>9. IsShown(y)
    BY <1>4, <1>5, <1>7, <2>3, <2>7 DEF Session, IsShown, OnlyPrints
  <2>10. Session(w) /\ SameReader(y, w) /\ w.active = 0
    BY <1>7, <1>8, <2>3, <2>4, <2>6, <2>7, <2>8, <2>9, FinishKept
  <2> QED
    BY <1>4, <1>5, <2>3, <2>10 DEF SameReader, SameRenderer
<1>12. CASE k \notin u.completed /\ u.active = k /\ u.event = 0
  <2>1. k \in Unregistered(v)
    BY <1>1, <1>4, <1>12 DEF Session, Registration
  <2>2. Waits(u, C)
    BY <1>4, <1>9, <1>10, <2>1, WaitsMore DEF Waits
  <2>3. w = BeginEvent(u, k)
    BY <1>12
  <2>4. /\ w \in View /\ SameReader(u, w) /\ w.active = u.active
        /\ w.event = k /\ w.pending = <<>> /\ w.line \in Seq(C)
        /\ OnlyPrints(u, w, k, C)
    BY <1>3, <1>8, <2>2, <2>3, BeginEffect
  <2>5. Unregistered(w) = Unregistered(v) \ {k}
    BY <1>6, <2>4 DEF Unregistered, SameReader
  <2>6. w.late = v.late /\ w.waiting = v.waiting \cup {k} /\ w.completed = v.completed
        /\ w.active = k
    BY <1>4, <1>12, <2>4 DEF SameReader
  <2>7. ~w.late => Unregistered(w) = {}
    BY <2>1, <2>5, <2>6 DEF Session, Registration
  <2>8. Registration(w)
    BY <1>1, <1>4, <1>12, <2>4, <2>5, <2>6, <2>7 DEF Session, Registration
  <2>9. Begun(w) = C
    BY <2>4, <2>6 DEF Begun, C
  <2>10. Waits(w, Waiting(w))
    <3>1. w.pending = <<>>
      BY <2>4
    <3> QED
      BY <3>1, NothingWaits
  <2>11. IsShown(w)
    BY <1>4, <1>7, <2>4, <2>6 DEF Session, IsShown, OnlyPrints
  <2>12. SameRenderer(v, w) /\ w.active = v.active
    BY <1>4, <2>4 DEF SameRenderer, SameReader
  <2> QED
    BY <2>4, <2>8, <2>9, <2>10, <2>11, <2>12 DEF Session, Holds
<1>13. CASE k \notin u.completed /\ ~(u.active = k /\ u.event = 0)
  <2>1. w = u
    BY <1>13
  <2>2. Registration(u)
    BY <1>1, <1>4, <1>6, <1>13 DEF Session, Registration
  <2>3. k \in Unregistered(v) => v.late
    BY <1>4, <1>13 DEF Session, Registration
  <2>4. Waiting(v) \subseteq Waiting(u) /\ Begun(u) = Begun(v)
    BY <1>4, <1>6, <2>3 DEF Waiting, Begun
  <2>5. Waits(u, Waiting(u))
    BY <1>4, <1>9, <2>4, WaitsMore DEF Waits
  <2>6. IsShown(u) /\ u.line \in Seq(Begun(u))
    BY <1>4, <2>4 DEF Session, Holds, IsShown
  <2> QED
    BY <1>3, <1>4, <2>1, <2>2, <2>5, <2>6 DEF Session, Holds
<1> QED
  BY <1>11, <1>12, <1>13

-----------------------------------------------------------------------------
(***************************************************************************)
(* Where the view is in the bytes of a terminal: where[i] is the command   *)
(* the terminal is in after byte i.                                        *)
(***************************************************************************)
Places == 0 .. Len(output)

MarkersAreWhole(where) ==
    /\ where[0] = 0
    /\ \A i \in 1 .. Len(output) :
          /\ IsMark(output[i]) =>
                /\ i > 1 /\ i < Len(output)
                /\ output[i - 1] = At("escape", Terminal)
                /\ output[i + 1] = At("bell", Terminal)
                /\ output[i].label.cmd \in Command
                /\ where[i] = where[i - 1]
          /\ output[i].byte = "start" =>
                /\ i > 2 /\ output[i - 2] = At("newline", Terminal)
                /\ where[i] = 0 /\ where[i + 1] = output[i].label.cmd
          /\ output[i].byte = "end" =>
                where[i] = output[i].label.cmd /\ where[i + 1] = 0
          /\ i = 1 \/ ~IsMark(output[i - 1]) =>
                /\ where[i] = where[i - 1]
                /\ where[i] # 0 /\ ~IsMark(output[i]) /\ output[i].byte # "escape" =>
                       output[i].label.cmd = where[i]

\* The splitter: it keeps an escape byte, or the beginning of a marker.
Splitter(where, p, v) ==
    /\ \/ /\ v.buffer = <<>>
          /\ v.active # 0 /\ p > 0 => output[p].byte # "escape" /\ ~IsMark(output[p])
       \/ p > 0 /\ output[p].byte = "escape" /\ v.buffer = <<output[p]>>
       \/ p > 1 /\ IsMark(output[p]) /\ v.buffer = <<output[p - 1], output[p]>>
    /\ v.active = 0 \/ v.active = where[p]

\* The renderer: it holds no text when a command starts.
Renderer(p, v) ==
    /\ v.mode # "normal" => v.text = <<>>
    /\ v.return => v.text = <<>>
    /\ v.active # 0 => v.text \in Seq(Own(v))
    /\ p > 0 /\ output[p].byte = "newline" => v.text = <<>>
    /\ p > 0 /\ v.buffer # <<>> /\ output[p].byte = "start" => v.text = <<>>
    /\ v.buffer # <<>> /\ p < Len(output) /\ output[p + 1].byte = "start" => v.text = <<>>

Position(where, p, v) == Session(v) /\ Splitter(where, p, v) /\ Renderer(p, v)

\* The lengths of what the splitter may hold.
LEMMA ShortSequences ==
    /\ \A s : Len(s) > 1 => s # <<>> /\ \A a : s # <<a>>
    /\ \A s : Len(s) = 1 => s # <<>> /\ \A a, b : s # <<a, b>>
    /\ \A s : ~(Len(s) > 1) => \A a, b : s # <<a, b>>
    /\ \A s : ~(Len(s) = 1) => \A a : s # <<a>>
    /\ \A a, b : Append(<<a>>, b) = <<a, b>>
<1>1. ASSUME NEW a, NEW b
      PROVE  Append(<<a>>, b) = <<a, b>>
  <2> DEFINE S == {a, b}
             s == Append(<<a>>, b)
             t == <<a, b>>
  <2>1. <<a>> \in Seq(S) /\ b \in S /\ Len(<<a>>) = 1 /\ <<a>>[1] = a
    OBVIOUS
  <2>2. t \in Seq(S) /\ Len(t) = 2 /\ t[1] = a /\ t[2] = b
    OBVIOUS
  <2> HIDE DEF S, t
  <2>3. s \in Seq(S) /\ Len(s) = 2 /\ s[1] = a /\ s[2] = b
    BY <2>1, AppendProperties
  <2> HIDE DEF s
  <2>4. \A i \in 1 .. Len(s) : s[i] = t[i]
    BY <2>2, <2>3
  <2>5. s = t
    BY <2>2, <2>3, <2>4, SeqEqual
  <2> QED
    BY <2>5 DEF s, t
<1>2. ~(Len(<<>>) > 1) /\ ~(Len(<<>>) = 1)
  OBVIOUS
<1>3. \A a : ~(Len(<<a>>) > 1) /\ Len(<<a>>) = 1
  OBVIOUS
<1>4. \A a, b : Len(<<a, b>>) > 1 /\ ~(Len(<<a, b>>) = 1)
  OBVIOUS
<1>5. \A s : Len(s) > 1 => s # <<>> /\ \A a : s # <<a>>
  BY <1>2, <1>3, Zenon
<1>6. \A s : Len(s) = 1 => s # <<>> /\ \A a, b : s # <<a, b>>
  BY <1>2, <1>4, Zenon
<1>7. \A s : ~(Len(s) > 1) => \A a, b : s # <<a, b>>
  BY <1>4, Zenon
<1>8. \A s : ~(Len(s) = 1) => \A a : s # <<a>>
  BY <1>3, Zenon
<1> QED
  BY <1>1, <1>5, <1>6, <1>7, <1>8

\* A byte ends a marker.
LEMMA MarkerByte ==
    ASSUME NEW where, MarkersAreWhole(where), output \in Seq(MarkedByte),
           NEW p \in Nat, p < Len(output), NEW v, Position(where, p, v), Len(v.buffer) > 1
    PROVE  Position(where, p + 1, Feed(v, output[p + 1]))
<1> DEFINE u == [v EXCEPT !.buffer = <<>>]
           k == output[p].label.cmd
<1>1. p > 1 /\ IsMark(output[p]) /\ v.buffer = <<output[p - 1], output[p]>>
  <2>1. v.buffer # <<>> /\ v.buffer # <<output[p]>>
    BY ShortSequences, Zenon
  <2> QED
    BY <2>1 DEF Position, Splitter
<1>2. p \in 1 .. Len(output) /\ p + 1 \in 1 .. Len(output)
  BY <1>1
<1>3. /\ output[p + 1] = At("bell", Terminal) /\ k \in Command
      /\ output[p].byte = "start" => where[p] = 0 /\ where[p + 1] = k
      /\ output[p].byte = "end" => where[p] = k /\ where[p + 1] = 0
  BY <1>1, <1>2 DEF MarkersAreWhole
<1>4. output[p + 1].byte = "bell" /\ ~IsMark(output[p + 1])
  BY <1>3 DEF At, IsMark
<1>5. Feed(v, output[p + 1]) = OnMarker(u, output[p].byte, k)
  BY <1>1, <1>4 DEF Feed
<1>6. v \in View /\ <<>> \in Seq(MarkedByte)
  BY DEF Position, Session, Holds
<1>7. u \in View
  BY <1>6 DEF View
<1>8. /\ SameSession(v, u) /\ u.mode = v.mode /\ u.return = v.return /\ u.text = v.text
      /\ u.buffer = <<>>
      /\ u.line = v.line /\ u.pending = v.pending /\ u.shown = v.shown
  BY <1>6 DEF View, SameSession
<1> HIDE DEF u
<1>9. Session(u)
  BY <1>7, <1>8, SessionKept DEF Position, Session, Holds, Waits, ShowsOwn
<1>10. u.active = v.active
  BY <1>8 DEF SameSession
<1> SUFFICES ASSUME NEW w, w = OnMarker(u, output[p].byte, k) PROVE Position(where, p + 1, w)
  BY <1>5
<1>11. ASSUME Session(w), SameRenderer(u, w), w.active = where[p + 1],
              w.active # 0 => w.text = <<>>
       PROVE  Position(where, p + 1, w)
  <2>1. Splitter(where, p + 1, w)
    BY <1>4, <1>8, <1>11 DEF Splitter, SameRenderer
  <2>2. w.active # 0 => w.text \in Seq(Own(w))
    <3>1. <<>> \in Seq(Own(w))
      OBVIOUS
    <3> QED
      BY <1>11, <3>1
  <2>3. Renderer(p + 1, w)
    BY <1>4, <1>8, <1>11, <2>2 DEF Renderer, SameRenderer, Position
  <2> QED
    BY <1>11, <2>1, <2>3 DEF Position
<1>12. CASE output[p].byte = "start"
  <2>1. u.active = 0 /\ u.text = <<>>
    BY <1>1, <1>3, <1>8, <1>10, <1>12 DEF Position, Splitter, Renderer, Command
  <2>2. Session(w) /\ SameRenderer(u, w) /\ w.active = k
    BY <1>3, <1>9, <1>12, <2>1, StartEffect
  <2> QED
    BY <1>3, <1>11, <1>12, <2>1, <2>2 DEF SameRenderer
<1>13. CASE output[p].byte = "end"
  <2>1. /\ Session(w) /\ SameRenderer(u, w)
        /\ w.active = IF k = u.active THEN 0 ELSE u.active
    BY <1>3, <1>9, <1>13, EndEffect
  <2>2. w.active = 0
    BY <1>3, <1>10, <1>13, <2>1 DEF Position, Splitter
  <2> QED
    BY <1>3, <1>11, <1>13, <2>1, <2>2
<1> QED
  BY <1>1, <1>12, <1>13 DEF IsMark

\* A byte begins the payload of a marker.
LEMMA PayloadByte ==
    ASSUME NEW where, MarkersAreWhole(where), output \in Seq(MarkedByte),
           NEW p \in Nat, p < Len(output), NEW v, Position(where, p, v),
           Len(v.buffer) = 1, IsMark(output[p + 1])
    PROVE  Position(where, p + 1, Feed(v, output[p + 1]))
<1> DEFINE b == output[p + 1]
<1>1. p > 0 /\ output[p].byte = "escape" /\ v.buffer = <<output[p]>>
  <2>1. v.buffer # <<>> /\ v.buffer # <<output[p - 1], output[p]>>
    BY ShortSequences, Zenon
  <2> QED
    BY <2>1 DEF Position, Splitter
<1>2. p \in 1 .. Len(output) /\ p + 1 \in 1 .. Len(output) /\ b \in MarkedByte
      /\ output[p] \in MarkedByte /\ p + 1 - 1 = p
  BY <1>1
<1>3. where[p + 1] = where[p] /\ p + 1 < Len(output) /\ output[p + 2] = At("bell", Terminal)
  BY <1>2 DEF MarkersAreWhole
<1>4. v \in View /\ Append(v.buffer, b) \in Seq(MarkedByte)
  BY <1>1, <1>2 DEF Position, Session, Holds
<1>5. b.byte \in {"start", "end"}
  BY DEF IsMark
<1> SUFFICES ASSUME NEW w, w = [v EXCEPT !.buffer = Append(@, b)] PROVE Position(where, p + 1, w)
  BY <1>5 DEF Feed
<1>6. w \in View
  BY <1>4 DEF View
<1>7. /\ SameSession(v, w) /\ w.mode = v.mode /\ w.return = v.return /\ w.text = v.text
      /\ w.buffer = Append(v.buffer, b)
      /\ w.line = v.line /\ w.pending = v.pending /\ w.shown = v.shown
  BY <1>4 DEF View, SameSession
<1>8. w.buffer = <<output[p], b>>
  BY <1>1, <1>7, ShortSequences
<1>9. Session(w)
  <2>1. Session(v) /\ Holds(w, Waiting(v), Begun(v))
    BY <1>6, <1>7 DEF Position, Session, Holds, Waits
  <2>2. ShowsOwn(v, w, Begun(v))
    BY <1>7 DEF ShowsOwn
  <2> QED
    BY <1>7, <2>1, <2>2, SessionKept
<1>10. w.active = v.active /\ Own(w) = Own(v)
  BY <1>7 DEF SameSession, Own
<1>11. Splitter(where, p + 1, w)
  BY <1>2, <1>3, <1>8, <1>10 DEF Position, Splitter
<1>12. b.byte = "start" => v.text = <<>>
  BY <1>1 DEF Position, Renderer
<1>13. b.byte # "newline" /\ output[p + 2].byte # "start"
  BY <1>3, <1>5 DEF At
<1>14. Renderer(p + 1, w)
  BY <1>7, <1>10, <1>12, <1>13 DEF Position, Renderer
<1> QED
  BY <1>9, <1>11, <1>14 DEF Position

\* Any other byte.
LEMMA OtherByte ==
    ASSUME NEW where, MarkersAreWhole(where), output \in Seq(MarkedByte),
           NEW p \in Nat, p < Len(output), NEW v, Position(where, p, v),
           ~(Len(v.buffer) > 1), ~(Len(v.buffer) = 1 /\ IsMark(output[p + 1]))
    PROVE  Position(where, p + 1, Feed(v, output[p + 1]))
<1> DEFINE b == output[p + 1]
           P == Waiting(v)
           C == Begun(v)
           A == Own(v)
           w == Feed(v, b)
<1>1. p + 1 \in 1 .. Len(output) /\ b \in MarkedByte /\ p + 1 - 1 = p
      /\ p > 0 => p \in 1 .. Len(output) /\ output[p] \in MarkedByte
  OBVIOUS
<1>2. P \in SUBSET Label /\ C \in SUBSET Label /\ A \in SUBSET Label
  BY DEF Waiting, Begun, Own
<1>3. MayGo(v, P, C, A)
  BY OwnMayGo DEF Position
<1>4. Rendered(v, P, C, A, FALSE)
  BY DEF Position, Session, Renderer, Rendered
<1>5. \/ /\ v.buffer = <<>>
         /\ v.active # 0 /\ p > 0 => output[p].byte # "escape" /\ ~IsMark(output[p])
      \/ p > 0 /\ output[p].byte = "escape" /\ v.buffer = <<output[p]>> /\ ~IsMark(b)
  <2>1. CASE IsMark(b)
    <3>1. v.buffer # <<output[p]>> /\ v.buffer # <<output[p - 1], output[p]>>
      BY <2>1, ShortSequences, Zenon
    <3> QED
      BY <3>1 DEF Position, Splitter
  <2>2. CASE ~IsMark(b)
    <3>1. v.buffer # <<output[p - 1], output[p]>>
      BY ShortSequences, Zenon
    <3> QED
      BY <2>2, <3>1 DEF Position, Splitter
  <2> QED
    BY <2>1, <2>2
<1>6. v.buffer = <<>> \/ (\E e \in MarkedByte : v.buffer = <<e>> /\ e.byte = "escape"
                                               /\ ~IsMark(b))
  BY <1>1, <1>5
<1>7. v.active # 0 => where[p + 1] = v.active /\ ~IsMark(b)
                      /\ (b.byte # "escape" => b.label.cmd = v.active)
  <2> SUFFICES ASSUME v.active # 0
               PROVE  where[p + 1] = v.active /\ ~IsMark(b)
                      /\ (b.byte # "escape" => b.label.cmd = v.active)
    OBVIOUS
  <2>1. v.active = where[p]
    BY DEF Position, Splitter
  <2>2. p = 0 \/ ~IsMark(output[p])
    BY <1>1, <1>5 DEF IsMark
  <2>3. ~IsMark(b)
    <3> SUFFICES ASSUME IsMark(b) PROVE FALSE
      OBVIOUS
    <3>1. p + 1 > 1 /\ output[p] = At("escape", Terminal)
      BY <1>1 DEF MarkersAreWhole
    <3> QED
      BY <1>5, <3>1 DEF At
  <2>4. where[p + 1] = where[p]
        /\ (where[p + 1] # 0 /\ ~IsMark(b) /\ b.byte # "escape" => b.label.cmd = where[p + 1])
    BY <1>1, <2>2 DEF MarkersAreWhole
  <2> QED
    BY <2>1, <2>3, <2>4
<1>8. v.active # 0 /\ b.byte # "escape" => b.label \in A
  BY <1>1, <1>7 DEF Own, MarkedByte
<1>9. After(v, w, P, C, A, FALSE) /\ Passed(v, w, b)
  <2>1. b \in MarkedByte
    BY <1>1
  <2> HIDE DEF P, C, A, b
  <2> QED
    BY <2>1, <1>2, <1>3, <1>4, <1>6, <1>8, PlainEffect
<1>10. p > 0 /\ p + 1 < Len(output) /\ output[p + 2].byte = "start" => output[p].byte = "newline"
  <2> SUFFICES ASSUME p > 0, p + 1 < Len(output), output[p + 2].byte = "start"
               PROVE  output[p].byte = "newline"
    OBVIOUS
  <2>1. p + 2 \in 1 .. Len(output) /\ p + 2 - 2 = p
    OBVIOUS
  <2>2. output[p] = At("newline", Terminal)
    BY <2>1 DEF MarkersAreWhole
  <2> QED
    BY <2>2 DEF At
<1>11. p + 1 < Len(output) /\ output[p + 2].byte = "start" => p > 0
  <2> SUFFICES ASSUME p + 1 < Len(output), output[p + 2].byte = "start" PROVE p > 0
    OBVIOUS
  <2>1. p + 2 \in 1 .. Len(output)
    OBVIOUS
  <2> QED
    BY <2>1 DEF MarkersAreWhole
<1> HIDE DEF w
<1>12. w.active = v.active /\ Own(w) = A
  BY <1>9 DEF After, SameSession, Own
<1>13. Session(w)
  BY <1>9, SessionKept DEF After, Rendered, Position
<1>14. Splitter(where, p + 1, w)
  BY <1>7, <1>9, <1>12 DEF Splitter, Passed
<1>15. Renderer(p + 1, w)
  <2>1. /\ w.mode # "normal" => w.text = <<>>
        /\ w.return => w.text = <<>>
        /\ w.active # 0 => w.text \in Seq(Own(w))
    BY <1>9, <1>12 DEF After, Rendered
  <2>2. w.buffer # <<>> => b.byte = "escape"
    BY <1>9 DEF Passed
  <2>3. ASSUME w.buffer # <<>>, p + 1 < Len(output), output[p + 2].byte = "start"
        PROVE  w.text = <<>>
    <3>1. p > 0 /\ output[p].byte = "newline"
      BY <1>10, <1>11, <2>3
    <3>2. v.text = <<>> /\ v.buffer = <<>>
      BY <1>5, <3>1 DEF Position, Renderer
    <3> QED
      BY <1>9, <2>2, <2>3, <3>2 DEF Passed
  <2> QED
    BY <1>9, <2>1, <2>2, <2>3 DEF Renderer, Passed
<1> QED
  BY <1>13, <1>14, <1>15 DEF Position, w

-----------------------------------------------------------------------------
(***************************************************************************)
(* The view of an ssh command: there are no markers, and every label is    *)
(* that of the one command.                                                *)
(***************************************************************************)
One == {t \in Label : t.cmd = 1}

StreamView(v) ==
    /\ Rendered(v, One, One, One, TRUE)
    /\ v.event \in {0, 1}
    /\ \A s \in v.shown : s.under = 1 /\ s.text.cmd = 1
    /\ v.buffer = <<>> \/ \E e \in MarkedByte : v.buffer = <<e>> /\ e.byte = "escape"

\* What is printed is printed under the one command.
LEMMA StreamShown ==
    ASSUME NEW v, NEW w, StreamView(v), ShowsOwn(v, w, One)
    PROVE  \A s \in w.shown : s.under = 1 /\ s.text.cmd = 1
  BY DEF StreamView, ShowsOwn, One

\* A byte of the stream.
LEMMA StreamByte ==
    ASSUME NEW v, StreamView(v), NEW b \in MarkedByte, ~IsMark(b), b.label.cmd = 1
    PROVE  StreamView(Feed(v, b))
<1>1. One \in SUBSET Label /\ b.label \in One
  BY DEF One, MarkedByte
<1>2. MayGo(v, One, One, One)
  BY DEF MayGo
<1>3. Rendered(v, One, One, One, TRUE)
  BY DEF StreamView
<1>4. v.buffer = <<>> \/ (\E e \in MarkedByte : v.buffer = <<e>> /\ e.byte = "escape"
                                               /\ ~IsMark(b))
  BY DEF StreamView
<1>5. After(v, Feed(v, b), One, One, One, TRUE) /\ Passed(v, Feed(v, b), b)
  BY <1>1, <1>2, <1>3, <1>4, PlainEffect
<1> SUFFICES ASSUME NEW w, w = Feed(v, b) PROVE StreamView(w)
  OBVIOUS
<1>6. w.buffer = <<>> \/ \E e \in MarkedByte : w.buffer = <<e>> /\ e.byte = "escape"
  BY <1>5 DEF Passed
<1>7. \A s \in w.shown : s.under = 1 /\ s.text.cmd = 1
  BY <1>5, StreamShown DEF After
<1> QED
  BY <1>5, <1>6, <1>7 DEF After, StreamView, SameSession

\* What the renderer and the splitter hold stays.
LEMMA StreamKept ==
    ASSUME NEW v, NEW w, StreamView(v), Holds(w, One, One), SameRenderer(v, w),
           w.event \in {0, 1},
           \A s \in w.shown : s.under = 1 /\ s.text.cmd = 1
    PROVE  StreamView(w)
  BY DEF StreamView, Rendered, SameRenderer

\* The stream was closed.
LEMMA StreamFinish ==
    ASSUME NEW v, StreamView(v), v.event = 1, NEW rest \in BOOLEAN
    PROVE  LET w == FinishStream(v, rest)
           IN  StreamView(w) /\ SameRenderer(v, w)
<1> DEFINE u == FinishEvent(v)
           raced == v.raced \/ rest
<1> SUFFICES ASSUME NEW w, w = [u EXCEPT !.raced = raced]
             PROVE  StreamView(w) /\ SameRenderer(v, w)
  BY DEF FinishStream
<1>1. v \in View /\ v.line \in Seq(One) /\ One \in SUBSET Label
  BY DEF StreamView, Rendered, Holds, One
<1>2. /\ u \in View /\ SameReader(v, u) /\ u.active = 0 /\ u.event = 0
      /\ u.pending = <<>> /\ u.line = <<>>
      /\ OnlyPrints(v, u, v.event, One)
  BY <1>1, FinishEffect
<1>3. raced \in BOOLEAN
  BY <1>1 DEF View
<1> HIDE DEF u, raced
<1>4. w \in View
  BY <1>2, <1>3 DEF View
<1>5. /\ SameReader(u, w) /\ w.event = 0
      /\ w.pending = <<>> /\ w.line = <<>> /\ w.shown = u.shown
  BY <1>2 DEF View, SameReader
<1>6. SameRenderer(v, w)
  BY <1>2, <1>5 DEF SameReader, SameRenderer
<1>7. Holds(w, One, One)
  <2>1. Waits(w, One)
    BY <1>5, NothingWaits
  <2>2. w.line \in Seq(One)
    <3>1. w.line = <<>>
      BY <1>5
    <3>2. \A S : <<>> \in Seq(S)
      OBVIOUS
    <3> QED
      BY <3>1, <3>2, Zenon
  <2> QED
    BY <1>4, <2>1, <2>2 DEF Holds
<1>8. \A s \in w.shown : s.under = 1 /\ s.text.cmd = 1
  BY <1>2, <1>5 DEF StreamView, OnlyPrints, One
<1> QED
  BY <1>5, <1>6, <1>7, <1>8, StreamKept

\* The start line of the ssh command is read.
LEMMA StreamRegister ==
    ASSUME NEW v, StreamView(v), NEW rest \in BOOLEAN, kind = "ssh-command"
    PROVE  LET w == Register(v, 1, rest)
           IN  StreamView(w) /\ SameRenderer(v, w)
<1> DEFINE u == [v EXCEPT !.waiting = @ \cup {1}, !.requested = TRUE]
           x == [u EXCEPT !.active = 1]
           begun == IF u.event = 0 THEN BeginEvent(x, 1) ELSE u
<1> SUFFICES ASSUME NEW w, w = IF u.finished THEN FinishStream(begun, rest) ELSE begun
             PROVE  StreamView(w) /\ SameRenderer(v, w)
  BY DEF Register
<1>1. v \in View /\ 1 \in Command /\ 1 \in 0 .. Stream /\ One \in SUBSET Label
  BY Constants DEF StreamView, Rendered, Holds, Command, Stream, One
<1>2. v.waiting \cup {1} \in SUBSET Command
  BY <1>1 DEF View
<1>3. u \in View
  BY <1>1, <1>2 DEF View
<1>4. /\ SameRenderer(v, u) /\ u.event = v.event
      /\ u.line = v.line /\ u.pending = v.pending /\ u.shown = v.shown
  BY <1>1 DEF View, SameRenderer
<1>5. x \in View
  BY <1>1, <1>3 DEF View
<1>6. /\ SameRenderer(u, x) /\ x.event = u.event
      /\ x.line = u.line /\ x.pending = u.pending /\ x.shown = u.shown
  BY <1>3 DEF View, SameRenderer
<1> HIDE DEF u, x
<1>7. StreamView(begun) /\ SameRenderer(v, begun) /\ begun.event = 1
  <2>1. CASE u.event = 0
    <3> DEFINE y == BeginEvent(x, 1)
    <3>1. Waits(x, One)
      BY <1>4, <1>6 DEF StreamView, Rendered, Holds, Waits
    <3>2. /\ y \in View /\ SameReader(x, y) /\ y.active = x.active
          /\ y.event = 1 /\ y.pending = <<>> /\ y.line \in Seq(One)
          /\ OnlyPrints(x, y, 1, One)
      BY <1>1, <1>5, <3>1, BeginEffect
    <3>3. begun = y
      BY <2>1
    <3> HIDE DEF y, begun
    <3>4. SameRenderer(v, y)
      BY <1>4, <1>6, <3>2 DEF SameReader, SameRenderer
    <3>5. Holds(y, One, One)
      BY <3>2, NothingWaits DEF Holds
    <3>6. \A s \in y.shown : s.under = 1 /\ s.text.cmd = 1
      BY <1>4, <1>6, <3>2 DEF StreamView, OnlyPrints, One
    <3> QED
      BY <3>2, <3>3, <3>4, <3>5, <3>6, StreamKept
  <2>2. CASE u.event # 0
    <3>1. begun = u
      BY <2>2
    <3> HIDE DEF begun
    <3>2. Holds(u, One, One)
      BY <1>3, <1>4 DEF StreamView, Rendered, Holds, Waits
    <3>3. \A s \in u.shown : s.under = 1 /\ s.text.cmd = 1
      BY <1>4 DEF StreamView
    <3>4. u.event = 1
      BY <1>4, <2>2 DEF StreamView
    <3> QED
      BY <1>4, <3>1, <3>2, <3>3, <3>4, StreamKept
  <2> QED
    BY <2>1, <2>2
<1> HIDE DEF begun
<1>8. StreamView(FinishStream(begun, rest)) /\ SameRenderer(begun, FinishStream(begun, rest))
  BY <1>7, StreamFinish
<1> QED
  BY <1>7, <1>8 DEF SameRenderer

\* A byte of the terminal.
LEMMA ByteEffect ==
    ASSUME NEW where, MarkersAreWhole(where), output \in Seq(MarkedByte),
           NEW p \in Nat, p < Len(output), NEW v, Position(where, p, v)
    PROVE  Position(where, p + 1, Feed(v, output[p + 1]))
<1>1. CASE Len(v.buffer) > 1
  BY <1>1, MarkerByte
<1>2. CASE Len(v.buffer) = 1 /\ IsMark(output[p + 1])
  BY <1>2, PayloadByte
<1>3. CASE ~(Len(v.buffer) > 1) /\ ~(Len(v.buffer) = 1 /\ IsMark(output[p + 1]))
  BY <1>3, OtherByte
<1> QED
  BY <1>1, <1>2, <1>3

\* The bytes of a poll, as a sequence.
LEMMA PolledBytes ==
    ASSUME output \in Seq(MarkedByte), NEW from \in Nat, NEW to \in Nat,
           from <= to, to <= Len(output)
    PROVE  LET data == SubSeq(output, from + 1, to)
           IN  /\ data \in Seq(MarkedByte) /\ Len(data) = to - from
               /\ \A i \in 1 .. Len(data) : data[i] = output[from + i]
<1>1. \A i \in from + 1 .. to : output[i] \in MarkedByte
  OBVIOUS
<1>2. /\ SubSeq(output, from + 1, to) \in Seq(MarkedByte)
      /\ Len(SubSeq(output, from + 1, to)) = IF from + 1 <= to THEN to - (from + 1) + 1 ELSE 0
      /\ \A i \in 1 .. to - (from + 1) + 1 :
             SubSeq(output, from + 1, to)[i] = output[from + 1 + i - 1]
  BY <1>1, SubSeqProperties
<1> QED
  BY <1>2

\* The bytes a poll of a terminal reads.
LEMMA BytesEffect ==
    ASSUME NEW where, MarkersAreWhole(where), output \in Seq(MarkedByte),
           NEW from \in Nat, NEW to \in Nat, from <= to, to <= Len(output),
           NEW v, Position(where, from, v)
    PROVE  Position(where, to, FoldLeft(Feed, v, SubSeq(output, from + 1, to)))
<1> DEFINE data == SubSeq(output, from + 1, to)
           n == to - from
<1>1. /\ data \in Seq(MarkedByte) /\ Len(data) = n
      /\ \A i \in 1 .. n : data[i] = output[from + i]
  BY PolledBytes
<1>2. n \in Nat
  OBVIOUS
<1> HIDE DEF data
<1>3. PICK g : Unrolled(g, "feed", v, data, FoldLeft(Feed, v, data))
  BY <1>1, FeedFold
<1> DEFINE S == {i \in Nat : i \in 0 .. n => Position(where, from + i, g[i])}
<1>4. 0 \in S
  BY <1>3 DEF Unrolled
<1>5. ASSUME NEW i \in Nat, i \in S
      PROVE  i + 1 \in S
  <2> SUFFICES ASSUME i + 1 \in 1 .. n PROVE Position(where, from + (i + 1), g[i + 1])
    OBVIOUS
  <2>1. i \in 0 .. n /\ from + i \in Nat /\ from + i < Len(output)
    BY <1>2
  <2>2. Position(where, from + i, g[i])
    BY <1>5, <2>1
  <2>3. Position(where, from + i + 1, Feed(g[i], output[from + i + 1]))
    BY <2>1, <2>2, ByteEffect
  <2>4. data[i + 1] = output[from + i + 1] /\ i + 1 - 1 = i /\ from + i + 1 = from + (i + 1)
    BY <1>1
  <2>5. g[i + 1] = Apply("feed", g[i], data[i + 1])
    BY <1>1, <1>3, <2>4 DEF Unrolled
  <2>6. g[i + 1] = Feed(g[i], data[i + 1])
    BY <2>5 DEF Apply
  <2> QED
    BY <2>3, <2>4, <2>6
<1>6. Nat \subseteq S
  <2> HIDE DEF S, n
  <2> QED
    BY <1>4, <1>5, Induction
<1>7. n \in S /\ n \in 0 .. n /\ from + n = to
  BY <1>2, <1>6
<1>8. FoldLeft(Feed, v, data) = g[n]
  BY <1>1, <1>3 DEF Unrolled
<1>9. Position(where, to, g[n])
  BY <1>7
<1> QED
  BY <1>8, <1>9 DEF data

\* The bytes a poll of an ssh command reads.
LEMMA StreamBytesEffect ==
    ASSUME NEW data \in Seq(MarkedByte),
           \A i \in 1 .. Len(data) : data[i].label.cmd = 1 /\ ~IsMark(data[i]),
           NEW v, StreamView(v)
    PROVE  StreamView(FoldLeft(Feed, v, data))
<1> DEFINE n == Len(data)
<1>1. PICK g : Unrolled(g, "feed", v, data, FoldLeft(Feed, v, data))
  BY FeedFold
<1>2. n \in Nat
  OBVIOUS
<1> DEFINE S == {i \in Nat : i \in 0 .. n => StreamView(g[i])}
<1>3. 0 \in S
  BY <1>1 DEF Unrolled
<1>4. ASSUME NEW i \in Nat, i \in S
      PROVE  i + 1 \in S
  <2> SUFFICES ASSUME i + 1 \in 1 .. n PROVE StreamView(g[i + 1])
    OBVIOUS
  <2>1. StreamView(g[i])
    BY <1>2, <1>4
  <2>2. data[i + 1] \in MarkedByte /\ data[i + 1].label.cmd = 1 /\ ~IsMark(data[i + 1])
    OBVIOUS
  <2>3. StreamView(Feed(g[i], data[i + 1]))
    BY <2>1, <2>2, StreamByte
  <2>4. g[i + 1] = Feed(g[i], data[i + 1])
    BY <1>1 DEF Unrolled, Apply
  <2> QED
    BY <2>3, <2>4
<1>5. Nat \subseteq S
  <2> HIDE DEF S, n
  <2> QED
    BY <1>3, <1>4, Induction
<1>6. n \in S /\ n \in 0 .. n
  BY <1>2, <1>5
<1> QED
  BY <1>1, <1>6 DEF Unrolled

\* A view that was polled: the follower of output.log is at byte n.
Polled(v, n) == [v EXCEPT !.opened = TRUE, !.offset = n, !.requested = FALSE]

\* The follower is none of the session's or the renderer's concern.
LEMMA PolledEffect ==
    ASSUME NEW v \in View, NEW n \in Nat, NEW w, w = Polled(v, n)
    PROVE  /\ w \in View /\ w.opened = TRUE /\ w.offset = n
           /\ \A where, p : Position(where, p, v) => Position(where, p, w)
           /\ StreamView(v) => StreamView(w)
<1>1. w \in View /\ w.opened = TRUE /\ w.offset = n
  BY DEF View, Polled
<1>2. /\ w.buffer = v.buffer /\ w.mode = v.mode /\ w.return = v.return /\ w.text = v.text
      /\ w.waiting = v.waiting /\ w.completed = v.completed
      /\ w.active = v.active /\ w.event = v.event
      /\ w.pending = v.pending /\ w.line = v.line /\ w.shown = v.shown
      /\ w.marked = v.marked /\ w.late = v.late
  BY DEF View, Polled
<1>3. Unregistered(w) = Unregistered(v)
  BY <1>2 DEF Unregistered
<1>4. Waiting(w) = Waiting(v) /\ Begun(w) = Begun(v) /\ Own(w) = Own(v)
  BY <1>2, <1>3 DEF Waiting, Begun, Own
<1>5. ASSUME NEW where, NEW p, Position(where, p, v)
      PROVE  Position(where, p, w)
  <2>1. Registration(w)
    BY <1>2, <1>3, <1>5 DEF Position, Session, Registration
  <2>2. Holds(w, Waiting(w), Begun(w)) /\ IsShown(w)
    BY <1>1, <1>2, <1>4, <1>5 DEF Position, Session, Holds, Waits, IsShown
  <2>3. Splitter(where, p, w)
    BY <1>2, <1>5 DEF Position, Splitter
  <2>4. Renderer(p, w)
    BY <1>2, <1>4, <1>5 DEF Position, Renderer
  <2> QED
    BY <2>1, <2>2, <2>3, <2>4 DEF Position, Session
<1>6. ASSUME StreamView(v)
      PROVE  StreamView(w)
  BY <1>1, <1>2, <1>6 DEF StreamView, Rendered, Holds, Waits
<1> QED
  BY <1>1, <1>5, <1>6

-----------------------------------------------------------------------------
(***************************************************************************)
(* A read of commands.log registers the commands of its start lines.       *)
(***************************************************************************)

\* What registering leaves alone in the view of a terminal.
Registered(v, w) == Session(w) /\ SameRenderer(v, w) /\ w.active \in {0, v.active}

\* The lines a read of a terminal's log returns.
LEMMA LinesEffect ==
    ASSUME NEW lines \in Seq(Command), kind = "terminal", NEW v, Session(v)
    PROVE  Registered(v, FoldLeft(LAMBDA w, k : Register(w, k, Unread), v, lines))
<1> DEFINE n == Len(lines)
<1>1. \E g : Unrolled(g, "line", v, lines, FoldLeft(LAMBDA w, k : Register(w, k, Unread), v, lines))
  BY LinesFold
<1> SUFFICES ASSUME NEW x, NEW g, Unrolled(g, "line", v, lines, x)
             PROVE  Registered(v, x)
  BY <1>1
<1>2. n \in Nat
  OBVIOUS
<1> DEFINE S == {i \in Nat : i \in 0 .. n => Registered(v, g[i])}
<1>3. 0 \in S
  BY DEF Unrolled, Registered, SameRenderer
<1>4. ASSUME NEW i \in Nat, i \in S
      PROVE  i + 1 \in S
  <2> SUFFICES ASSUME i + 1 \in 1 .. n PROVE Registered(v, g[i + 1])
    OBVIOUS
  <2>1. Registered(v, g[i])
    BY <1>2, <1>4
  <2>2. lines[i + 1] \in Command
    OBVIOUS
  <2>3. /\ Session(Register(g[i], lines[i + 1], Unread))
        /\ SameRenderer(g[i], Register(g[i], lines[i + 1], Unread))
        /\ Register(g[i], lines[i + 1], Unread).active \in {0, g[i].active}
    BY <2>1, <2>2, RegisterEffect DEF Registered
  <2>4. g[i + 1] = Register(g[i], lines[i + 1], Unread)
    BY DEF Unrolled, Apply
  <2> QED
    BY <2>1, <2>3, <2>4 DEF Registered, SameRenderer
<1>5. Nat \subseteq S
  <2> HIDE DEF S, n
  <2> QED
    BY <1>3, <1>4, Induction
<1>6. n \in S /\ n \in 0 .. n
  BY <1>2, <1>5
<1> QED
  BY <1>6 DEF Unrolled

\* The place of the view in the bytes stays.
LEMMA RegisteredPosition ==
    ASSUME NEW where, NEW p, NEW v, NEW w, Position(where, p, v), Registered(v, w)
    PROVE  Position(where, p, w)
<1>1. w.active # 0 => Own(w) = Own(v)
  BY DEF Registered, Own
<1>2. Splitter(where, p, w)
  BY DEF Registered, SameRenderer, Position, Splitter
<1>3. Renderer(p, w)
  BY <1>1 DEF Registered, SameRenderer, Position, Renderer
<1> QED
  BY <1>2, <1>3 DEF Position, Registered

\* The lines a read of the log of an ssh command returns.
LEMMA StreamLinesEffect ==
    ASSUME NEW lines \in Seq(Command), \A i \in 1 .. Len(lines) : lines[i] = 1,
           kind = "ssh-command", NEW v, StreamView(v)
    PROVE  LET x == FoldLeft(LAMBDA w, k : Register(w, k, Unread), v, lines)
           IN  StreamView(x) /\ SameRenderer(v, x)
<1> DEFINE n == Len(lines)
<1>1. \E g : Unrolled(g, "line", v, lines, FoldLeft(LAMBDA w, k : Register(w, k, Unread), v, lines))
  BY LinesFold
<1> SUFFICES ASSUME NEW x, NEW g, Unrolled(g, "line", v, lines, x)
             PROVE  StreamView(x) /\ SameRenderer(v, x)
  BY <1>1
<1>2. n \in Nat
  OBVIOUS
<1> DEFINE S == {i \in Nat : i \in 0 .. n => StreamView(g[i]) /\ SameRenderer(v, g[i])}
<1>3. 0 \in S
  BY DEF Unrolled, SameRenderer
<1>4. ASSUME NEW i \in Nat, i \in S
      PROVE  i + 1 \in S
  <2> SUFFICES ASSUME i + 1 \in 1 .. n PROVE StreamView(g[i + 1]) /\ SameRenderer(v, g[i + 1])
    OBVIOUS
  <2>1. StreamView(g[i]) /\ SameRenderer(v, g[i])
    BY <1>2, <1>4
  <2>2. Unread \in BOOLEAN
    BY DEF Unread
  <2>3. /\ StreamView(Register(g[i], 1, Unread))
        /\ SameRenderer(g[i], Register(g[i], 1, Unread))
    BY <2>1, <2>2, StreamRegister
  <2>4. g[i + 1] = Register(g[i], 1, Unread)
    BY DEF Unrolled, Apply
  <2> QED
    BY <2>1, <2>3, <2>4 DEF SameRenderer
<1>5. Nat \subseteq S
  <2> HIDE DEF S, n
  <2> QED
    BY <1>3, <1>4, Induction
<1>6. n \in S /\ n \in 0 .. n
  BY <1>2, <1>5
<1> QED
  BY <1>6 DEF Unrolled

-----------------------------------------------------------------------------
(***************************************************************************)
(* The shell, and the types of everything but what the view holds.         *)
(***************************************************************************)
LinesSent == IF stage = "prompt" THEN 2 * entered ELSE 2 * entered - 1

ShellInv ==
    /\ kind \in {"terminal", "ssh-command"} /\ history \in History
    /\ made \in {"nothing", "directory", "files"}
    /\ stage \in {"prompt", "logged", "running", "printed", "ended"}
    /\ entered \in 0 .. MaxCommand
    /\ stage # "prompt" => entered # 0
    /\ sent = LinesSent
    /\ output \in Seq(MarkedByte)
    /\ written \in 0 .. Len(output)
    /\ pc \in Steps \cup {"off"}
    /\ pc = "metadata" => kind = "ssh-command"
    /\ skipped \in 0 .. MaxSkips
    /\ kind = "ssh-command" =>
           /\ entered <= 1
           /\ entered = 0 => output = <<>>
           /\ \A i \in 1 .. Len(output) : output[i].label.cmd = 1 /\ ~IsMark(output[i])

\* What PrintOutput appends.
LEMMA LabelledBytes ==
    ASSUME NEW k \in Command, NEW o \in Output[k]
    PROVE  LET s == LabelledOutput(k, o.bytes)
           IN  /\ s \in Seq(MarkedByte)
               /\ \A i \in 1 .. Len(s) : s[i].label.cmd = k /\ ~IsMark(s[i])
<1> DEFINE bytes == o.bytes
           count(i) == Cardinality({j \in 1 .. i - 1 : bytes[j] = "newline"})
           s == LabelledOutput(k, bytes)
<1>1. bytes \in Seq(Byte)
  BY OutputAssumption DEF Command
<1>2. DOMAIN bytes = 1 .. Len(bytes) /\ Len(bytes) \in Nat
  BY <1>1
<1> HIDE DEF bytes
<1>3. ASSUME NEW i \in 1 .. Len(bytes)
      PROVE  /\ s[i] \in MarkedByte /\ s[i].label.cmd = k /\ ~IsMark(s[i])
  <2>1. i \in Nat /\ i - 1 \in Nat
    BY <1>2
  <2>2. IsFiniteSet(1 .. i - 1)
    BY <2>1, FS_Interval
  <2>3. IsFiniteSet({j \in 1 .. i - 1 : bytes[j] = "newline"})
    BY <2>2, FS_Subset
  <2>4. count(i) \in Nat
    BY <2>3, FS_CardinalityType
  <2>5. s[i] = At(bytes[i], [cmd |-> k, line |-> 1 + count(i)])
    BY <1>2 DEF LabelledOutput
  <2>6. k \in 0 .. MaxCommand /\ 1 + count(i) \in Nat /\ bytes[i] \in Byte
    BY <1>1, <2>4, Constants DEF Command
  <2> HIDE DEF s, count
  <2> DEFINE line == 1 + count(i)
  <2> HIDE DEF line
  <2>7. line \in Nat /\ s[i] = At(bytes[i], [cmd |-> k, line |-> line])
    BY <2>5, <2>6 DEF line
  <2>8. ~IsMark(s[i]) /\ s[i].label.cmd = k
    BY <2>6, <2>7 DEF IsMark, At, Byte
  <2>9. s[i] \in [byte : Byte \cup {"start", "end"}, label : Label]
    BY <2>6, <2>7 DEF At, Label
  <2> QED
    BY <2>8, <2>9 DEF MarkedByte
<1>4. s = [i \in 1 .. Len(bytes) |-> s[i]]
  BY <1>2 DEF LabelledOutput
<1> HIDE DEF s
<1>5. s \in [1 .. Len(bytes) -> MarkedByte]
  BY <1>3, <1>4
<1>6. s \in Seq(MarkedByte) /\ Len(s) = Len(bytes)
  BY <1>2, <1>5
<1> QED
  BY <1>3, <1>6 DEF s, bytes

\* The output grows by the bytes s.
LEMMA Grows ==
    ASSUME output \in Seq(MarkedByte), NEW s \in Seq(MarkedByte), output' = output \o s
    PROVE  /\ output' \in Seq(MarkedByte) /\ Len(output) \in Nat /\ Len(s) \in Nat
           /\ Len(output') = Len(output) + Len(s)
           /\ \A i \in 1 .. Len(output) : output'[i] = output[i]
           /\ \A i \in 1 .. Len(s) : output'[Len(output) + i] = s[i]
<1>1. Len(output) \in Nat /\ Len(s) \in Nat
  OBVIOUS
<1>2. /\ output \o s \in Seq(MarkedByte)
      /\ Len(output \o s) = Len(output) + Len(s)
      /\ \A i \in 1 .. Len(output) + Len(s) :
             (output \o s)[i] = IF i <= Len(output) THEN output[i] ELSE s[i - Len(output)]
  BY ConcatProperties
<1> QED
  BY <1>1, <1>2

\* What Enter and LogEnd append.
LEMMA TerminalByte ==
    ASSUME NEW byte \in {"newline", "char"}
    PROVE  /\ At(byte, Terminal) \in MarkedByte
           /\ ~IsMark(At(byte, Terminal)) /\ At(byte, Terminal).byte = byte
           /\ output \in Seq(MarkedByte) =>
                  Append(output, At(byte, Terminal)) = output \o <<At(byte, Terminal)>>
<1>1. At(byte, Terminal) \in MarkedByte
  BY Constants DEF At, MarkedByte, Byte, IsMark
<1>2. ~IsMark(At(byte, Terminal)) /\ At(byte, Terminal).byte = byte
  BY DEF At, IsMark
<1> QED
  BY <1>1, <1>2, AppendIsConcat

\* What MarkStart and MarkEnd append.
LEMMA MarkerBytes ==
    ASSUME NEW event \in {"start", "end"}, NEW k \in Command
    PROVE  LET s == Marker(event, k)
           IN  /\ s \in Seq(MarkedByte) /\ Len(s) = 3
               /\ s[1] = At("escape", Terminal) /\ s[3] = At("bell", Terminal)
               /\ s[2].byte = event /\ s[2].label.cmd = k
<1> DEFINE a == At("escape", Terminal)
           b == At(event, [cmd |-> k, line |-> 0])
           c == At("bell", Terminal)
<1>1. k \in 0 .. MaxCommand
  BY Constants DEF Command
<1>2. a \in MarkedByte /\ c \in MarkedByte
  BY Constants DEF At, MarkedByte, Byte, IsMark
<1>3. [cmd |-> k, line |-> 0] \in Label
  BY <1>1 DEF Label
<1>4. b \in MarkedByte /\ b.byte = event /\ b.label.cmd = k
  BY <1>3 DEF At, MarkedByte, Byte, IsMark
<1> HIDE DEF a, b, c
<1>5. <<a, b, c>> \in Seq(MarkedByte) /\ Len(<<a, b, c>>) = 3
  BY <1>2, <1>4
<1>6. <<a, b, c>>[1] = a /\ <<a, b, c>>[2] = b /\ <<a, b, c>>[3] = c
  OBVIOUS
<1> QED
  BY <1>4, <1>5, <1>6 DEF Marker, a, b, c

\* The shell at first.
LEMMA InitShellInv == Init => ShellInv
<1> SUFFICES ASSUME Init PROVE ShellInv
  OBVIOUS
<1>1. MaxCommand \in Nat \ {0} /\ MaxSkips \in Nat
  BY Constants
<1>2. output = <<>> /\ output \in Seq(MarkedByte) /\ Len(output) = 0
  BY DEF Init
<1> QED
  BY <1>1, <1>2 DEF Init, ShellInv, LinesSent

\* The commands, their bytes and their log lines go together.
LEMMA NextShellInv == ShellInv /\ [Next]_vars => ShellInv'
<1> SUFFICES ASSUME ShellInv, [Next]_vars PROVE ShellInv'
  OBVIOUS
<1> DEFINE bytes == <<kind, history, stage, entered, output>>
<1>1. MaxCommand \in Nat \ {0} /\ MaxSkips \in Nat
  BY Constants
<1>2. CASE UNCHANGED <<bytes, made, written, sent, pc, skipped>>
  BY <1>2 DEF ShellInv, LinesSent
<1>3. CASE MakeDirectory \/ MakeFiles \/ MakeOtherSession
  <2>1. UNCHANGED <<bytes, written, sent, pc, skipped>>
    BY <1>3 DEF MakeDirectory, MakeFiles, MakeOtherSession, loop, shell, syslog
  <2>2. made' \in {made, "directory", "files"}
    BY <1>3 DEF MakeDirectory, MakeFiles, MakeOtherSession, shell
  <2> QED
    BY <2>1, <2>2 DEF ShellInv, LinesSent
<1>4. CASE Enter
  <2> DEFINE b == At("newline", Terminal)
  <2>1. /\ stage = "prompt" /\ stage' = "logged" /\ entered' = entered + 1 /\ sent' = sent + 1
        /\ UNCHANGED <<kind, history, made, written, pc, skipped>>
    BY <1>4 DEF Enter, loop
  <2>2. CASE kind = "terminal"
    <3>1. output' = Append(output, b) /\ entered < MaxCommand
      BY <1>4, <2>2 DEF Enter
    <3>2. b \in MarkedByte /\ output \in Seq(MarkedByte) /\ Len(output) \in Nat
      BY TerminalByte DEF ShellInv
    <3> HIDE DEF b
    <3>3. output' \in Seq(MarkedByte) /\ Len(output') = Len(output) + 1
      BY <3>1, <3>2, AppendProperties
    <3>4. entered' \in 0 .. MaxCommand /\ entered' # 0 /\ sent' = LinesSent'
      BY <1>1, <2>1, <3>1 DEF ShellInv, LinesSent
    <3>5. written' \in 0 .. Len(output')
      BY <2>1, <3>2, <3>3 DEF ShellInv
    <3> QED
      BY <2>1, <2>2, <3>3, <3>4, <3>5 DEF ShellInv
  <2>3. CASE kind = "ssh-command"
    <3>1. output' = <<>> /\ entered < 1
      BY <1>4, <2>3 DEF Enter
    <3>2. output = <<>>
      BY <2>3, <3>1 DEF ShellInv
    <3> QED
      BY <1>1, <2>1, <2>3, <3>1, <3>2 DEF ShellInv, LinesSent
  <2> QED
    BY <2>2, <2>3 DEF ShellInv
<1>5. ASSUME NEW s \in Seq(MarkedByte), output' = output \o s, entered # 0,
             stage # "prompt", stage' \in {"running", "printed", "ended"},
             kind = "ssh-command" => \A i \in 1 .. Len(s) : s[i].label.cmd = 1 /\ ~IsMark(s[i]),
             UNCHANGED <<kind, history, entered, made, written, sent, pc, skipped>>
      PROVE  ShellInv'
  <2>1. /\ output' \in Seq(MarkedByte) /\ Len(output) \in Nat /\ Len(s) \in Nat
        /\ Len(output') = Len(output) + Len(s)
        /\ \A i \in 1 .. Len(output) : output'[i] = output[i]
        /\ \A i \in 1 .. Len(s) : output'[Len(output) + i] = s[i]
    BY <1>5, Grows DEF ShellInv
  <2>2. ASSUME kind = "ssh-command", NEW i \in 1 .. Len(output')
        PROVE  output'[i].label.cmd = 1 /\ ~IsMark(output'[i])
    <3>1. CASE i <= Len(output)
      BY <2>1, <2>2, <3>1 DEF ShellInv
    <3>2. CASE i > Len(output)
      <4>1. i - Len(output) \in 1 .. Len(s) /\ Len(output) + (i - Len(output)) = i
        BY <2>1, <3>2
      <4> QED
        BY <1>5, <2>1, <2>2, <4>1
    <3> QED
      BY <2>1, <3>1, <3>2
  <2>3. written' \in 0 .. Len(output')
    BY <1>5, <2>1 DEF ShellInv
  <2> QED
    BY <1>5, <2>1, <2>2, <2>3 DEF ShellInv, LinesSent, IsMark
<1>6. stage # "prompt" => entered \in Command
  BY <1>1 DEF ShellInv, Command
<1>7. CASE MarkStart
  <2>1. Marker("start", entered) \in Seq(MarkedByte)
    BY <1>6, <1>7, MarkerBytes DEF MarkStart
  <2> QED
    BY <1>5, <1>7, <2>1 DEF MarkStart, ShellInv, syslog, loop
<1>8. CASE MarkEnd
  <2>1. Marker("end", entered) \in Seq(MarkedByte)
    BY <1>6, <1>8, MarkerBytes DEF MarkEnd
  <2> QED
    BY <1>5, <1>8, <2>1 DEF MarkEnd, ShellInv, syslog, loop
<1>9. ASSUME NEW o, PrintOutput(o)
      PROVE  ShellInv'
  <2> DEFINE s == LabelledOutput(entered, o.bytes)
  <2>1. /\ stage \in {"running", "logged"} /\ stage' = "printed" /\ output' = output \o s
        /\ o \in Output[entered]
        /\ UNCHANGED <<kind, history, entered, made, written, sent, pc, skipped>>
    BY <1>9 DEF PrintOutput, syslog, loop
  <2>2. entered \in Command
    BY <1>6, <2>1
  <2>3. s \in Seq(MarkedByte) /\ \A i \in 1 .. Len(s) : s[i].label.cmd = entered /\ ~IsMark(s[i])
    BY <2>1, <2>2, LabelledBytes
  <2>4. kind = "ssh-command" => entered = 1
    BY <1>1, <2>2 DEF ShellInv, Command
  <2> HIDE DEF s
  <2>5. entered # 0 /\ stage # "prompt" /\ stage' \in {"running", "printed", "ended"}
    BY <2>1, <2>2 DEF Command
  <2>6. kind = "ssh-command" => \A i \in 1 .. Len(s) : s[i].label.cmd = 1 /\ ~IsMark(s[i])
    BY <2>3, <2>4
  <2> QED
    BY ONLY <1>5, <2>1, <2>3, <2>5, <2>6
<1>10. CASE EndStream
  BY <1>10 DEF EndStream, ShellInv, LinesSent, syslog, loop
<1>11. CASE LogEnd
  <2> DEFINE b == At("char", Terminal)
  <2>1. /\ stage = "ended" /\ stage' = "prompt" /\ sent' = sent + 1
        /\ UNCHANGED <<kind, history, made, entered, written, pc, skipped>>
    BY <1>11 DEF LogEnd, loop
  <2>2. CASE kind = "terminal"
    <3>1. output' = Append(output, b)
      BY <1>11, <2>2 DEF LogEnd
    <3>2. b \in MarkedByte /\ output \in Seq(MarkedByte) /\ Len(output) \in Nat
      BY TerminalByte DEF ShellInv
    <3> HIDE DEF b
    <3>3. output' \in Seq(MarkedByte) /\ Len(output') = Len(output) + 1
      BY <3>1, <3>2, AppendProperties
    <3> QED
      BY <1>1, <2>1, <2>2, <3>2, <3>3 DEF ShellInv, LinesSent
  <2>3. CASE kind = "ssh-command"
    <3>1. output' = output
      BY <1>11, <2>3 DEF LogEnd
    <3> QED
      BY <1>1, <2>1, <2>3, <3>1 DEF ShellInv, LinesSent
  <2> QED
    BY <2>2, <2>3 DEF ShellInv
<1>12. ASSUME NEW n \in 1 .. Len(output), Flush(n)
       PROVE  ShellInv'
  <2>1. /\ written + n <= Len(output) /\ written' = written + n
        /\ UNCHANGED <<bytes, made, sent, pc, skipped>>
    BY <1>12 DEF Flush, shell, syslog, loop
  <2>2. written' \in 0 .. Len(output)
    BY <2>1 DEF ShellInv
  <2> QED
    BY <2>1, <2>2 DEF ShellInv, LinesSent
<1>13. CASE Deliver \/ Rotate
  BY <1>2, <1>13 DEF Deliver, Rotate, shell, loop
<1>14. CASE Start \/ Discover
  BY <1>14 DEF Start, Discover, shell, syslog, loop, ShellInv, LinesSent, Steps
<1>15. CASE ReadLog
  BY <1>15 DEF ReadLog, shell, syslog, ShellInv, LinesSent, Steps
<1>16. CASE Poll
  <2>1. /\ UNCHANGED <<bytes, made, written, sent>> /\ skipped' = 0 /\ pc' = AfterPoll
    BY <1>16 DEF Poll, shell, syslog
  <2>2. pc' \in Steps /\ (pc' = "metadata" => kind = "ssh-command")
    BY <2>1 DEF AfterPoll, Steps
  <2> QED
    BY <1>1, <2>1, <2>2 DEF ShellInv, LinesSent
<1>17. CASE SkipPoll
  <2>1. /\ UNCHANGED <<bytes, made, written, sent>> /\ skipped < MaxSkips
        /\ skipped' = skipped + 1 /\ pc' = "read"
    BY <1>17 DEF SkipPoll, shell, syslog
  <2> QED
    BY <1>1, <2>1 DEF ShellInv, LinesSent, Steps
<1>18. CASE PollMetadata
  BY <1>18 DEF PollMetadata, shell, syslog, loop, ShellInv, LinesSent, Steps
<1>19. CASE UNCHANGED vars
  BY <1>2, <1>19 DEF vars, shell, syslog, loop
<1> QED
  BY <1>3, <1>4, <1>7, <1>8, <1>9, <1>10, <1>11, <1>12, <1>13, <1>14, <1>15, <1>16, <1>17,
     <1>18, <1>19
  DEF Next, Shell, Syslog, Viewer

-----------------------------------------------------------------------------
(***************************************************************************)
(* The terminal's bytes and the view that is somewhere in them.            *)
(***************************************************************************)
InCommand == IF stage \in {"running", "printed"} THEN entered ELSE 0

\* Where the shell is: after all of the bytes.
ShellIsAt(where) ==
    /\ where[Len(output)] = InCommand
    /\ stage = "logged" => Len(output) > 0 /\ output[Len(output)] = At("newline", Terminal)
    /\ Len(output) > 0 => ~IsMark(output[Len(output)])

\* A terminal's view that was not polled yet has read nothing.
Fresh(v) == ~v.opened => v.active = 0 /\ v.buffer = <<>> /\ v.text = <<>>

Extends(where, more) == \A i \in Places : more[i] = where[i]

\* Bytes that are no marker are appended: the terminal stays where it is.
LEMMA PlainGrows ==
    ASSUME output \in Seq(MarkedByte), NEW where, MarkersAreWhole(where),
           NEW s \in Seq(MarkedByte), output' = output \o s,
           Len(output) > 0 => ~IsMark(output[Len(output)]),
           \A i \in 1 .. Len(s) :
               ~IsMark(s[i]) /\ (where[Len(output)] # 0 => s[i].label.cmd = where[Len(output)])
    PROVE  \E more : /\ MarkersAreWhole(more)' /\ Extends(where, more)
                     /\ more[Len(output')] = where[Len(output)]
                     /\ Len(output') > 0 => ~IsMark(output'[Len(output')])
<1> DEFINE n == Len(output)
           l == Len(s)
<1>1. /\ output' \in Seq(MarkedByte) /\ n \in Nat /\ l \in Nat
      /\ Len(output') = n + l
      /\ \A i \in 1 .. n : output'[i] = output[i]
      /\ \A i \in 1 .. l : output'[n + i] = s[i]
  BY Grows
<1>2. PICK more : /\ \A i \in 0 .. n : more[i] = where[i]
                  /\ \A i \in n .. n + l : more[i] = where[n]
  <2> DEFINE f == [i \in 0 .. n + l |-> IF i <= n THEN where[i] ELSE where[n]]
  <2>1. /\ \A i \in 0 .. n : f[i] = where[i]
        /\ \A i \in n .. n + l : f[i] = where[n]
    BY <1>1
  <2> QED
    BY <2>1
<1>3. \A i \in n + 1 .. n + l :
          ~IsMark(output'[i]) /\ (where[n] # 0 => output'[i].label.cmd = where[n])
  <2> SUFFICES ASSUME NEW i \in n + 1 .. n + l
               PROVE  ~IsMark(output'[i]) /\ (where[n] # 0 => output'[i].label.cmd = where[n])
    OBVIOUS
  <2>1. i - n \in 1 .. l /\ n + (i - n) = i
    BY <1>1
  <2>2. output'[i] = s[i - n]
    BY <1>1, <2>1
  <2> QED
    BY <2>1, <2>2
<1>4. n > 0 => ~IsMark(output[n])
  OBVIOUS
<1>5. ASSUME NEW i \in 1 .. n + l, IsMark(output'[i])
      PROVE  /\ i > 1 /\ i < n + l
             /\ output'[i - 1] = At("escape", Terminal)
             /\ output'[i + 1] = At("bell", Terminal)
             /\ output'[i].label.cmd \in Command
             /\ more[i] = more[i - 1]
             /\ output'[i].byte = "start" =>
                    /\ i > 2 /\ output'[i - 2] = At("newline", Terminal)
                    /\ more[i] = 0 /\ more[i + 1] = output'[i].label.cmd
             /\ output'[i].byte = "end" =>
                    more[i] = output'[i].label.cmd /\ more[i + 1] = 0
  <2>1. i \in 1 .. n
    BY <1>1, <1>3, <1>5
  <2>2. IsMark(output[i]) /\ output'[i] = output[i]
    BY <1>1, <1>5, <2>1
  <2>3. i > 1 /\ i < n
    BY <2>1, <2>2 DEF MarkersAreWhole
  <2>4. i - 1 \in 1 .. n /\ i + 1 \in 1 .. n /\ (i > 2 => i - 2 \in 1 .. n)
        /\ i \in 0 .. n /\ i - 1 \in 0 .. n /\ i + 1 \in 0 .. n
    BY <1>1, <2>1, <2>3
  <2>5. /\ more[i] = where[i] /\ more[i - 1] = where[i - 1] /\ more[i + 1] = where[i + 1]
        /\ output'[i - 1] = output[i - 1] /\ output'[i + 1] = output[i + 1]
        /\ i > 2 => output'[i - 2] = output[i - 2]
    BY <1>1, <1>2, <2>4
  <2>6. i < n + l
    BY <1>1, <2>3
  <2> QED
    BY <2>1, <2>2, <2>3, <2>5, <2>6 DEF MarkersAreWhole
<1>6. ASSUME NEW i \in 1 .. n + l, i = 1 \/ ~IsMark(output'[i - 1])
      PROVE  /\ more[i] = more[i - 1]
             /\ more[i] # 0 /\ ~IsMark(output'[i]) /\ output'[i].byte # "escape" =>
                    output'[i].label.cmd = more[i]
  <2>1. CASE i <= n
    <3>1. i \in 1 .. n /\ i \in 0 .. n /\ i - 1 \in 0 .. n /\ (i # 1 => i - 1 \in 1 .. n)
      BY <1>1, <2>1
    <3>2. more[i] = where[i] /\ more[i - 1] = where[i - 1] /\ output'[i] = output[i]
          /\ (i # 1 => output'[i - 1] = output[i - 1])
      BY <1>1, <1>2, <3>1
    <3> QED
      BY <1>6, <3>1, <3>2 DEF MarkersAreWhole
  <2>2. CASE i > n
    <3>1. i \in n .. n + l /\ i - 1 \in n .. n + l /\ i \in n + 1 .. n + l
      BY <1>1, <2>2
    <3> QED
      BY <1>2, <1>3, <3>1
  <2> QED
    BY <1>1, <2>1, <2>2
<1>7. more[0] = 0
  BY <1>1, <1>2 DEF MarkersAreWhole
<1>8. MarkersAreWhole(more)'
  BY <1>1, <1>5, <1>6, <1>7 DEF MarkersAreWhole, IsMark
<1>9. Extends(where, more)
  BY <1>2 DEF Extends, Places
<1>10. more[Len(output')] = where[n]
  BY <1>1, <1>2
<1>11. Len(output') > 0 => ~IsMark(output'[Len(output')])
  <2>1. CASE l = 0
    BY <1>1, <1>4, <2>1
  <2>2. CASE l # 0
    BY <1>1, <1>3, <2>2
  <2> QED
    BY <2>1, <2>2
<1> QED
  BY <1>8, <1>9, <1>10, <1>11

\* A marker is appended: the terminal enters or leaves a command.
LEMMA MarkerGrows ==
    ASSUME output \in Seq(MarkedByte), NEW where, MarkersAreWhole(where),
           NEW event \in {"start", "end"}, NEW k \in Command,
           output' = output \o Marker(event, k),
           Len(output) > 0 => ~IsMark(output[Len(output)]),
           event = "start" => /\ where[Len(output)] = 0 /\ Len(output) > 0
                              /\ output[Len(output)] = At("newline", Terminal),
           event = "end" => where[Len(output)] = k
    PROVE  \E more : /\ MarkersAreWhole(more)' /\ Extends(where, more)
                     /\ more[Len(output')] = IF event = "start" THEN k ELSE 0
                     /\ ~IsMark(output'[Len(output')])
                     /\ Len(output') > Len(output)
                     /\ output'[Len(output) + 1] = At("escape", Terminal)
<1> DEFINE n == Len(output)
           s == Marker(event, k)
           next == IF event = "start" THEN k ELSE 0
<1>1. /\ s \in Seq(MarkedByte) /\ Len(s) = 3
      /\ s[1] = At("escape", Terminal) /\ s[3] = At("bell", Terminal)
      /\ s[2].byte = event /\ s[2].label.cmd = k
  BY MarkerBytes
<1> HIDE DEF s
<1>2. /\ output' \in Seq(MarkedByte) /\ n \in Nat
      /\ Len(output') = n + 3
      /\ \A i \in 1 .. n : output'[i] = output[i]
      /\ \A i \in 1 .. 3 : output'[n + i] = s[i]
  BY <1>1, Grows DEF s
<1>3. /\ output'[n + 1] = At("escape", Terminal) /\ output'[n + 3] = At("bell", Terminal)
      /\ output'[n + 2].byte = event /\ output'[n + 2].label.cmd = k
  BY <1>1, <1>2
<1>4. /\ ~IsMark(output'[n + 1]) /\ output'[n + 1].byte = "escape" /\ ~IsMark(output'[n + 3])
      /\ IsMark(output'[n + 2])
  BY <1>3 DEF IsMark, At
<1>5. PICK more : /\ \A i \in 0 .. n : more[i] = where[i]
                  /\ more[n + 1] = where[n] /\ more[n + 2] = where[n] /\ more[n + 3] = next
  <2> DEFINE f == [i \in 0 .. n + 3 |-> IF i <= n THEN where[i]
                                        ELSE IF i = n + 3 THEN next ELSE where[n]]
  <2> HIDE DEF next
  <2>1. /\ \A i \in 0 .. n : f[i] = where[i]
        /\ f[n + 1] = where[n] /\ f[n + 2] = where[n] /\ f[n + 3] = next
    BY <1>2
  <2> QED
    BY <2>1
<1> HIDE DEF next
<1>6. event = "start" => where[n] = 0 /\ next = k /\ n > 0 /\ output[n] = At("newline", Terminal)
  BY DEF next
<1>7. event = "end" => where[n] = k /\ next = 0
  BY DEF next
<1>8. n > 0 => ~IsMark(output[n])
  OBVIOUS
<1>9. ASSUME NEW i \in 1 .. n + 3, IsMark(output'[i])
      PROVE  /\ i > 1 /\ i < n + 3
             /\ output'[i - 1] = At("escape", Terminal)
             /\ output'[i + 1] = At("bell", Terminal)
             /\ output'[i].label.cmd \in Command
             /\ more[i] = more[i - 1]
             /\ output'[i].byte = "start" =>
                    /\ i > 2 /\ output'[i - 2] = At("newline", Terminal)
                    /\ more[i] = 0 /\ more[i + 1] = output'[i].label.cmd
             /\ output'[i].byte = "end" =>
                    more[i] = output'[i].label.cmd /\ more[i + 1] = 0
  <2>1. CASE i <= n
    <3>1. i \in 1 .. n
      BY <1>2, <2>1
    <3>2. IsMark(output[i]) /\ output'[i] = output[i]
      BY <1>2, <1>9, <3>1
    <3>3. i > 1 /\ i < n
      BY <3>1, <3>2 DEF MarkersAreWhole
    <3>4. i - 1 \in 1 .. n /\ i + 1 \in 1 .. n /\ (i > 2 => i - 2 \in 1 .. n)
          /\ i \in 0 .. n /\ i - 1 \in 0 .. n /\ i + 1 \in 0 .. n
      BY <1>2, <3>1, <3>3
    <3>5. /\ more[i] = where[i] /\ more[i - 1] = where[i - 1] /\ more[i + 1] = where[i + 1]
          /\ output'[i - 1] = output[i - 1] /\ output'[i + 1] = output[i + 1]
          /\ i > 2 => output'[i - 2] = output[i - 2]
      BY <1>2, <1>5, <3>4
    <3>6. i < n + 3
      BY <1>2, <3>3
    <3> QED
      BY <3>1, <3>2, <3>3, <3>5, <3>6 DEF MarkersAreWhole
  <2>2. CASE i > n
    <3>1. i = n + 2
      <4>1. i = n + 1 \/ i = n + 2 \/ i = n + 3
        BY <1>2, <2>2
      <4> QED
        BY <1>4, <1>9, <4>1
    <3>2. i - 1 = n + 1 /\ i + 1 = n + 3 /\ i - 2 = n /\ i > 1 /\ i < n + 3
          /\ (n > 0 => i > 2 /\ output'[n] = output[n])
      BY <1>2, <3>1
    <3>3. output'[i].byte = event /\ output'[i].label.cmd = k
          /\ more[i] = where[n] /\ more[i - 1] = where[n] /\ more[i + 1] = next
          /\ output'[i - 1] = At("escape", Terminal) /\ output'[i + 1] = At("bell", Terminal)
      BY <1>3, <1>5, <3>1, <3>2
    <3>4. event = "start" => i > 2 /\ output'[i - 2] = At("newline", Terminal)
      BY <1>6, <3>2
    <3> QED
      BY <1>6, <1>7, <3>2, <3>3, <3>4
  <2>3. i <= n \/ i > n
    BY <1>2
  <2> QED
    BY <2>1, <2>2, <2>3, Zenon
<1>10. ASSUME NEW i \in 1 .. n + 3, i = 1 \/ ~IsMark(output'[i - 1])
       PROVE  /\ more[i] = more[i - 1]
              /\ more[i] # 0 /\ ~IsMark(output'[i]) /\ output'[i].byte # "escape" =>
                     output'[i].label.cmd = more[i]
  <2>1. CASE i <= n
    <3>1. i \in 1 .. n /\ i \in 0 .. n /\ i - 1 \in 0 .. n /\ (i # 1 => i - 1 \in 1 .. n)
      BY <1>2, <2>1
    <3>2. more[i] = where[i] /\ more[i - 1] = where[i - 1] /\ output'[i] = output[i]
          /\ (i # 1 => output'[i - 1] = output[i - 1])
      BY <1>2, <1>5, <3>1
    <3> QED
      BY <1>10, <3>1, <3>2 DEF MarkersAreWhole
  <2>2. CASE i > n
    <3>1. i = n + 1 \/ i = n + 2
      <4>1. i = n + 1 \/ i = n + 2 \/ i = n + 3
        BY <1>2, <2>2
      <4>2. i = n + 3 => i # 1 /\ i - 1 = n + 2
        BY <1>2
      <4> QED
        BY <1>4, <1>10, <4>1, <4>2
    <3>2. n \in 0 .. n /\ n + 1 - 1 = n /\ n + 2 - 1 = n + 1
      BY <1>2
    <3>3. more[i] = more[i - 1]
      <4>1. more[n + 1 - 1] = where[n] /\ more[n + 2 - 1] = where[n]
        BY <1>5, <3>2
      <4> QED
        BY <1>5, <3>1, <4>1
    <3> QED
      BY <1>4, <3>1, <3>3
  <2> QED
    BY <1>2, <2>1, <2>2
<1>11. more[0] = 0
  BY <1>2, <1>5 DEF MarkersAreWhole
<1>12. MarkersAreWhole(more)'
  BY <1>2, <1>9, <1>10, <1>11 DEF MarkersAreWhole, IsMark
<1>13. Extends(where, more)
  BY <1>5 DEF Extends, Places
<1>14. more[Len(output')] = next /\ ~IsMark(output'[Len(output')]) /\ Len(output') > n
  BY <1>2, <1>4, <1>5
<1> QED
  BY <1>3, <1>12, <1>13, <1>14 DEF next

\* The place of the view in the bytes stays when more bytes come.
LEMMA PositionStays ==
    ASSUME NEW where, NEW more, Extends(where, more), NEW p \in Places, NEW v,
           Position(where, p, v),
           Len(output) \in Nat, Len(output') \in Nat, Len(output') >= Len(output),
           \A i \in 1 .. Len(output) : output'[i] = output[i],
           Len(output') > Len(output) => output'[Len(output) + 1].byte # "start"
    PROVE  Position(more, p, v)'
<1> DEFINE n == Len(output)
<1>1. p \in 0 .. n /\ n \in Nat /\ (p > 0 => p \in 1 .. n) /\ (p > 1 => p - 1 \in 1 .. n)
      /\ (p < n => p + 1 \in 1 .. n)
  BY DEF Places
<1>2. /\ p > 0 => output'[p] = output[p]
      /\ p > 1 => output'[p - 1] = output[p - 1]
      /\ p < n => output'[p + 1] = output[p + 1]
      /\ more[p] = where[p]
  BY <1>1 DEF Extends, Places
<1>3. p < Len(output') /\ output'[p + 1].byte = "start" => p < n /\ output[p + 1].byte = "start"
  <2>1. p < n \/ p = n
    BY <1>1
  <2> QED
    BY <1>1, <1>2, <2>1
<1>4. Splitter(more, p, v)'
  BY <1>1, <1>2 DEF Position, Splitter, IsMark
<1>5. Renderer(p, v)'
  BY <1>1, <1>2, <1>3 DEF Position, Renderer, Own
<1>6. Session(v)'
  BY DEF Position
<1> QED
  BY <1>4, <1>5, <1>6 DEF Position

ViewInv ==
    /\ view \in View /\ view.offset \in 0 .. written
    /\ kind = "terminal" =>
           /\ Fresh(view)
           /\ \E where : /\ MarkersAreWhole(where) /\ ShellIsAt(where)
                         /\ Position(where, view.offset, view)
    /\ kind = "ssh-command" => StreamView(view)

\* A new view has read nothing.
LEMMA NewViewFacts ==
    ASSUME NEW b \in BOOLEAN, NEW v, v = NewView(b), kind \in {"terminal", "ssh-command"}
    PROVE  /\ v \in View /\ v.offset = 0
           /\ kind = "terminal" => Fresh(v) /\ \A where : Position(where, 0, v)
           /\ kind = "ssh-command" => StreamView(v)
<1> DEFINE act == IF kind = "ssh-command" THEN Stream ELSE 0
           marks == IF kind = "ssh-command" /\ ~b THEN {1} ELSE {}
<1>1. 1 \in Command /\ Stream \in 0 .. Stream /\ 0 \in 0 .. Stream /\ 0 \in 0 .. MaxCommand
      /\ MaxPending \in Nat
  BY Constants DEF Command, Stream
<1>2. act \in 0 .. Stream /\ marks \in SUBSET Command
  BY <1>1
<1>3. \A S : <<>> \in Seq(S)
  OBVIOUS
<1>4. <<>> \in {p \in Seq(Seq(Label)) : Len(FlattenSeq(p)) <= MaxPending}
  <2>1. FlattenSeq(<<>>) = <<>> /\ Len(<<>>) = 0
    BY DEF FlattenSeq
  <2> QED
    BY <1>1, <2>1
<1>5. kind = "terminal" => act = 0 /\ marks = {}
  OBVIOUS
<1> HIDE DEF act, marks
<1>6. v = [atEnd |-> b, opened |-> FALSE, offset |-> 0, buffer |-> <<>>,
           mode |-> "normal", return |-> FALSE, text |-> <<>>,
           waiting |-> {}, completed |-> {}, active |-> act,
           event |-> 0, pending |-> <<>>, line |-> <<>>,
           finished |-> FALSE, requested |-> TRUE, shown |-> {},
           marked |-> marks, late |-> FALSE, overflow |-> FALSE, raced |-> FALSE]
  BY DEF NewView, act, marks
<1>7. v \in View
  <2>1. <<>> \in Seq(MarkedByte) /\ <<>> \in Seq(Label)
    OBVIOUS
  <2> QED
    BY <1>1, <1>2, <1>4, <1>6, <2>1 DEF View
<1>8. /\ v.offset = 0 /\ v.opened = FALSE /\ v.buffer = <<>> /\ v.mode = "normal" /\ v.return = FALSE
      /\ v.text = <<>> /\ v.waiting = {} /\ v.completed = {} /\ v.active = act /\ v.event = 0
      /\ v.pending = <<>> /\ v.line = <<>> /\ v.shown = {} /\ v.marked = marks
  BY <1>6
<1>9. \A P, C : Holds(v, P, C)
  <2> SUFFICES ASSUME NEW P, NEW C PROVE Holds(v, P, C)
    OBVIOUS
  <2>1. Waits(v, P)
    BY <1>8, NothingWaits
  <2>2. v.line \in Seq(C)
    BY <1>3, <1>8, Zenon
  <2> QED
    BY <1>7, <2>1, <2>2 DEF Holds
<1>10. ASSUME kind = "terminal"
       PROVE  Fresh(v) /\ \A where : Position(where, 0, v)
  <2>1. v.active = 0 /\ Unregistered(v) = {}
    BY <1>5, <1>8, <1>10 DEF Unregistered
  <2>2. Registration(v)
    BY <1>8, <2>1 DEF Registration
  <2>3. Session(v)
    BY <1>8, <1>9, <2>2 DEF Session, IsShown
  <2>4. Renderer(0, v)
    BY <1>8, <2>1 DEF Renderer
  <2>5. \A where : Splitter(where, 0, v)
    BY <1>8, <2>1 DEF Splitter
  <2> QED
    BY <1>8, <2>1, <2>3, <2>4, <2>5 DEF Fresh, Position
<1>11. StreamView(v)
  <2>1. v.text \in Seq(One)
    BY <1>3, <1>8, Zenon
  <2> QED
    BY <1>8, <1>9, <2>1 DEF StreamView, Rendered
<1> QED
  BY <1>7, <1>8, <1>10, <1>11

\* Nothing is read at first.
LEMMA InitViewInv == Init => ViewInv
<1> SUFFICES ASSUME Init PROVE ViewInv
  OBVIOUS
<1>1. ShellInv
  BY InitShellInv
<1>2. kind \in {"terminal", "ssh-command"} /\ view = NewView(FALSE) /\ output = <<>>
      /\ written = 0 /\ stage = "prompt" /\ Len(output) = 0
  BY DEF Init
<1>3. /\ view \in View /\ view.offset = 0
      /\ kind = "terminal" => Fresh(view) /\ \A where : Position(where, 0, view)
      /\ kind = "ssh-command" => StreamView(view)
  BY <1>2, NewViewFacts
<1>4. ASSUME kind = "terminal"
      PROVE  \E where : /\ MarkersAreWhole(where) /\ ShellIsAt(where)
                        /\ Position(where, view.offset, view)
  <2> DEFINE where == [i \in {0} |-> 0]
  <2>1. where[0] = 0
    OBVIOUS
  <2> HIDE DEF where
  <2>2. MarkersAreWhole(where)
    BY <1>2, <2>1 DEF MarkersAreWhole
  <2>3. ShellIsAt(where)
    BY <1>2, <2>1 DEF ShellIsAt, InCommand
  <2> QED
    BY <1>3, <1>4, <2>2, <2>3
<1>5. view \in View /\ view.offset \in 0 .. written
  <2>1. view \in View /\ view.offset = 0
    BY <1>3, Zenon
  <2>2. written = 0
    BY <1>2
  <2> QED
    BY <2>1, <2>2
<1>6. (kind = "terminal" => Fresh(view)) /\ (kind = "ssh-command" => StreamView(view))
  BY <1>3, Zenon
<1> QED
  BY <1>4, <1>5, <1>6 DEF ViewInv

\* What the shell does is nothing to the view but more bytes.
LEMMA ShellGrows ==
    ASSUME ViewInv, view' = view, kind' = kind, written' = written,
           Len(output) \in Nat, Len(output') \in Nat, written \in 0 .. Len(output),
           kind = "terminal" =>
               \A where : MarkersAreWhole(where) /\ ShellIsAt(where) =>
                   \E more : /\ MarkersAreWhole(more)' /\ ShellIsAt(more)' /\ Extends(where, more)
                             /\ Len(output') >= Len(output)
                             /\ \A i \in 1 .. Len(output) : output'[i] = output[i]
                             /\ Len(output') > Len(output) =>
                                    output'[Len(output) + 1].byte # "start"
    PROVE  ViewInv'
<1>1. ASSUME kind = "terminal"
      PROVE  (\E where : /\ MarkersAreWhole(where) /\ ShellIsAt(where)
                         /\ Position(where, view.offset, view))'
  <2>1. PICK where : MarkersAreWhole(where) /\ ShellIsAt(where) /\ Position(where, view.offset, view)
    BY <1>1 DEF ViewInv
  <2>2. PICK more : /\ MarkersAreWhole(more)' /\ ShellIsAt(more)' /\ Extends(where, more)
                    /\ Len(output') >= Len(output)
                    /\ \A i \in 1 .. Len(output) : output'[i] = output[i]
                    /\ Len(output') > Len(output) => output'[Len(output) + 1].byte # "start"
    BY <1>1, <2>1
  <2>3. view.offset \in Places
    BY DEF ViewInv, Places
  <2>4. Position(more, view.offset, view)'
    BY <2>1, <2>2, <2>3, PositionStays
  <2> QED
    BY <2>2, <2>4
<1>2. kind = "terminal" => Fresh(view)'
  BY DEF ViewInv, Fresh
<1>3. kind = "ssh-command" => StreamView(view)'
  BY DEF ViewInv
<1>4. view' \in View /\ view'.offset \in 0 .. written'
  BY DEF ViewInv
<1> QED
  BY <1>1, <1>2, <1>3, <1>4 DEF ViewInv

\* A step that appends bytes of no marker.
LEMMA PlainStep ==
    ASSUME ShellInv, ViewInv, view' = view, UNCHANGED <<kind, written>>,
           NEW s \in Seq(MarkedByte), output' = output \o s,
           stage' # "logged" \/ (Len(s) > 0 /\ s[Len(s)] = At("newline", Terminal)),
           InCommand' = InCommand,
           \A i \in 1 .. Len(s) :
               ~IsMark(s[i]) /\ (InCommand # 0 => s[i].label.cmd = InCommand)
    PROVE  ViewInv'
<1>1. /\ output \in Seq(MarkedByte) /\ written \in 0 .. Len(output)
  BY DEF ShellInv
<1>2. /\ Len(output) \in Nat /\ Len(s) \in Nat
      /\ Len(output') = Len(output) + Len(s)
      /\ \A i \in 1 .. Len(output) : output'[i] = output[i]
      /\ \A i \in 1 .. Len(s) : output'[Len(output) + i] = s[i]
  BY <1>1, Grows
<1>3. ASSUME NEW where, MarkersAreWhole(where), ShellIsAt(where)
      PROVE  \E more : /\ MarkersAreWhole(more)' /\ ShellIsAt(more)' /\ Extends(where, more)
                       /\ Len(output') >= Len(output)
                       /\ \A i \in 1 .. Len(output) : output'[i] = output[i]
                       /\ Len(output') > Len(output) =>
                              output'[Len(output) + 1].byte # "start"
  <2>1. where[Len(output)] = InCommand /\ (Len(output) > 0 => ~IsMark(output[Len(output)]))
    BY <1>3 DEF ShellIsAt
  <2>2. PICK more : /\ MarkersAreWhole(more)' /\ Extends(where, more)
                    /\ more[Len(output')] = where[Len(output)]
                    /\ Len(output') > 0 => ~IsMark(output'[Len(output')])
    BY <1>1, <1>3, <2>1, PlainGrows
  <2>3. stage' = "logged" => Len(output') > 0 /\ output'[Len(output')] = At("newline", Terminal)
    BY <1>2
  <2>4. ShellIsAt(more)'
    BY <2>1, <2>2, <2>3 DEF ShellIsAt, IsMark
  <2>5. Len(output') > Len(output) => output'[Len(output) + 1].byte # "start"
    <3> SUFFICES ASSUME Len(output') > Len(output) PROVE output'[Len(output) + 1].byte # "start"
      OBVIOUS
    <3>1. 1 \in 1 .. Len(s)
      BY <1>2
    <3> QED
      BY <1>2, <3>1 DEF IsMark
  <2> QED
    BY <1>2, <2>2, <2>4, <2>5
<1> QED
  BY <1>1, <1>2, <1>3, ShellGrows

\* A step that leaves the bytes alone.
LEMMA QuietStep ==
    ASSUME ShellInv, ViewInv, view' = view, UNCHANGED <<kind, output>>,
           written' \in written .. Len(output),
           kind = "terminal" => UNCHANGED <<stage, entered>>
    PROVE  ViewInv'
<1>1. view' \in View /\ view'.offset \in 0 .. written'
  BY DEF ViewInv, ShellInv
<1>2. ASSUME kind = "terminal"
      PROVE  (\E where : /\ MarkersAreWhole(where) /\ ShellIsAt(where)
                         /\ Position(where, view.offset, view))'
  <2>1. PICK where : MarkersAreWhole(where) /\ ShellIsAt(where) /\ Position(where, view.offset, view)
    BY <1>2 DEF ViewInv
  <2>2. MarkersAreWhole(where)' /\ ShellIsAt(where)'
    BY <1>2, <2>1 DEF MarkersAreWhole, IsMark, ShellIsAt, InCommand
  <2>3. Position(where, view.offset, view)'
    BY <2>1 DEF Position, Splitter, Renderer, IsMark
  <2> QED
    BY <2>2, <2>3
<1>3. kind = "terminal" => Fresh(view)'
  BY DEF ViewInv
<1>4. kind = "ssh-command" => StreamView(view)'
  BY DEF ViewInv
<1> QED
  BY <1>1, <1>2, <1>3, <1>4 DEF ViewInv

\* The shell enters a marker, after its line end or in its command.
LEMMA MarkerStep ==
    ASSUME ShellInv, ViewInv, view' = view, UNCHANGED <<kind, written, entered>>,
           kind = "terminal",
           NEW event \in {"start", "end"}, output' = output \o Marker(event, entered),
           stage = IF event = "start" THEN "logged" ELSE "printed",
           stage' = IF event = "start" THEN "running" ELSE "ended"
    PROVE  ViewInv'
<1>1. /\ output \in Seq(MarkedByte) /\ written \in 0 .. Len(output) /\ entered \in Command
  BY Constants DEF ShellInv, Command
<1>2. Marker(event, entered) \in Seq(MarkedByte)
  BY <1>1, MarkerBytes
<1>3. /\ Len(output) \in Nat /\ Len(output') \in Nat
      /\ \A i \in 1 .. Len(output) : output'[i] = output[i]
  BY <1>1, <1>2, Grows
<1>4. ASSUME NEW where, MarkersAreWhole(where), ShellIsAt(where)
      PROVE  \E more : /\ MarkersAreWhole(more)' /\ ShellIsAt(more)' /\ Extends(where, more)
                       /\ Len(output') >= Len(output)
                       /\ \A i \in 1 .. Len(output) : output'[i] = output[i]
                       /\ Len(output') > Len(output) =>
                              output'[Len(output) + 1].byte # "start"
  <2>1. Len(output) > 0 => ~IsMark(output[Len(output)])
    BY <1>4 DEF ShellIsAt
  <2>2. event = "start" => /\ where[Len(output)] = 0 /\ Len(output) > 0
                           /\ output[Len(output)] = At("newline", Terminal)
    BY <1>4 DEF ShellIsAt, InCommand
  <2>3. event = "end" => where[Len(output)] = entered
    BY <1>4 DEF ShellIsAt, InCommand
  <2>4. PICK more : /\ MarkersAreWhole(more)' /\ Extends(where, more)
                    /\ more[Len(output')] = IF event = "start" THEN entered ELSE 0
                    /\ ~IsMark(output'[Len(output')])
                    /\ Len(output') > Len(output)
                    /\ output'[Len(output) + 1] = At("escape", Terminal)
    BY <1>1, <1>4, <2>1, <2>2, <2>3, MarkerGrows
  <2>5. ShellIsAt(more)'
    BY <2>4 DEF ShellIsAt, InCommand, IsMark
  <2>6. output'[Len(output) + 1].byte # "start"
    BY <2>4 DEF At
  <2> QED
    BY <1>3, <2>4, <2>5, <2>6
<1> QED
  BY <1>1, <1>3, <1>4, ShellGrows

\* The view of a terminal changes, and the bytes do not.
LEMMA TerminalMoves ==
    ASSUME kind = "terminal", UNCHANGED <<kind, stage, entered, output, written>>,
           NEW where, MarkersAreWhole(where), ShellIsAt(where),
           Position(where, view'.offset, view'), Fresh(view'), view'.offset \in 0 .. written
    PROVE  ViewInv'
<1>1. MarkersAreWhole(where)' /\ ShellIsAt(where)'
  BY DEF MarkersAreWhole, IsMark, ShellIsAt, InCommand
<1>2. Position(where, view.offset, view)'
  BY DEF Position, Splitter, Renderer, IsMark
<1>3. view' \in View
  BY DEF Position, Session, Holds
<1>4. Fresh(view)'
  BY DEF Fresh
<1>5. view'.offset \in 0 .. written' /\ kind' = "terminal"
  OBVIOUS
<1> QED
  BY <1>1, <1>2, <1>3, <1>4, <1>5 DEF ViewInv

\* The view of an ssh command changes.
LEMMA StreamMoves ==
    ASSUME kind = "ssh-command", UNCHANGED <<kind, written>>,
           StreamView(view'), view'.offset \in 0 .. written
    PROVE  ViewInv'
<1>1. view' \in View
  BY DEF StreamView, Rendered, Holds
<1>2. StreamView(view)'
  OBVIOUS
<1>3. view'.offset \in 0 .. written' /\ kind' = "ssh-command"
  OBVIOUS
<1> QED
  BY <1>1, <1>2, <1>3 DEF ViewInv

\* A scan follows the session with a new view, or leaves it.
LEMMA DiscoverStep == ShellInv /\ ViewInv /\ Discover => ViewInv'
<1> SUFFICES ASSUME ShellInv, ViewInv, Discover PROVE ViewInv'
  OBVIOUS
<1>1. UNCHANGED <<kind, stage, entered, output, written>>
  BY DEF Discover, shell
<1>2. CASE view' = view
  <2>1. written' \in written .. Len(output)
    BY <1>1 DEF ShellInv
  <2> QED
    BY <1>1, <1>2, <2>1, QuietStep
<1>3. CASE view' = NewView(history = 0 /\ ~scanned)
  <2> DEFINE b == history = 0 /\ ~scanned
  <2>1. b \in BOOLEAN
    OBVIOUS
  <2>2. kind \in {"terminal", "ssh-command"} /\ written \in Nat
    BY DEF ShellInv
  <2>3. view' = NewView(b)
    BY <1>3
  <2> HIDE DEF b
  <2>4. /\ view' \in View /\ view'.offset = 0
        /\ kind = "terminal" => Fresh(view') /\ \A where : Position(where, 0, view')
        /\ kind = "ssh-command" => StreamView(view')
    BY <2>1, <2>2, <2>3, NewViewFacts
  <2>5. view'.offset = 0
    BY <2>4, Zenon
  <2>6. view'.offset \in 0 .. written
    BY <2>2, <2>5
  <2>7. CASE kind = "terminal"
    <3>1. PICK where : MarkersAreWhole(where) /\ ShellIsAt(where)
      BY <2>7 DEF ViewInv
    <3>2. Position(where, view'.offset, view') /\ Fresh(view')
      BY <2>4, <2>5, <2>7, Zenon
    <3> QED
      BY <1>1, <2>6, <2>7, <3>1, <3>2, TerminalMoves
  <2>8. CASE kind = "ssh-command"
    <3>1. StreamView(view')
      BY <2>4, <2>8, Zenon
    <3> QED
      BY <1>1, <2>6, <2>8, <3>1, StreamMoves
  <2> QED
    BY <2>2, <2>7, <2>8
<1> QED
  BY <1>2, <1>3 DEF Discover

\* Among n lines there are starts of half of them, or one more.
LEMMA StartsBound ==
    ASSUME NEW n \in Nat, NEW m \in Nat, n <= 2 * m
    PROVE  Starts(n) \in Nat /\ Starts(n) <= m
  BY DEF Starts

\* The commands of the lines that are read, by their numbers.
LEMMA LinesRead ==
    ASSUME ShellInv, LinesInv
    PROVE  LET lines == StartLines(Kept(ReadFrom))
           IN  /\ lines \in Seq(Command)
               /\ kind = "ssh-command" => \A i \in 1 .. Len(lines) : lines[i] = 1
<1> DEFINE from == Kept(ReadFrom)
           a == Starts(from)
           d == Starts(delivered)
           lines == StartLines(from)
<1>1. MaxCommand \in Nat \ {0}
  BY Constants
<1>2. /\ delivered \in Nat /\ delivered <= 2 * entered
      /\ entered \in Nat /\ entered <= MaxCommand
      /\ kind = "ssh-command" => entered <= 1
  BY <1>1 DEF ShellInv, LinesInv, LinesSent
<1>3. history \in Nat
  BY OutputAssumption DEF ShellInv
<1>4. ReadFrom \in Nat
  BY DEF ReadFrom, LinesInv
<1>5. from \in Nat
  BY <1>2, <1>3, <1>4 DEF Kept
<1>6. d \in Nat /\ d <= entered
  BY <1>2, StartsBound
<1>7. a \in Nat
  BY <1>5, StartsBound
<1>8. lines = [i \in 1 .. d - a |-> a + i]
  BY DEF StartLines
<1> HIDE DEF lines, a, d, from
<1>9. \A i \in 1 .. d - a : a + i \in Command /\ (kind = "ssh-command" => a + i = 1)
  BY <1>1, <1>2, <1>6, <1>7 DEF Command
<1>10. CASE d - a \in Nat
  <2>1. lines \in [1 .. d - a -> Command]
    BY <1>8, <1>9
  <2>2. lines \in Seq(Command) /\ Len(lines) = d - a
    BY <1>10, <2>1
  <2>3. \A i \in 1 .. d - a : lines[i] = a + i
    BY <1>8
  <2> QED
    BY <1>9, <2>2, <2>3 DEF lines, from
<1>11. CASE ~(d - a \in Nat)
  <2>1. 1 .. d - a = 1 .. 0
    BY <1>6, <1>7, <1>11
  <2>2. lines = [i \in 1 .. 0 |-> a + i]
    BY <1>8, <2>1
  <2>3. lines \in [1 .. 0 -> Command]
    BY <2>2
  <2>4. lines \in Seq(Command) /\ Len(lines) = 0
    BY <2>3
  <2> QED
    BY <2>4 DEF lines, from
<1> QED
  BY <1>10, <1>11

\* Lines are registered.
LEMMA ReadLogStep == ShellInv /\ LinesInv /\ ViewInv /\ ReadLog => ViewInv'
<1> SUFFICES ASSUME ShellInv, LinesInv, ViewInv, ReadLog PROVE ViewInv'
  OBVIOUS
<1> DEFINE lines == StartLines(Kept(ReadFrom))
<1>1. UNCHANGED <<kind, stage, entered, output, written>>
  BY DEF ReadLog, shell
<1>2. CASE ~followed
  <2>1. written' \in written .. Len(output) /\ view' = view
    BY <1>1, <1>2 DEF ShellInv, ReadLog
  <2> QED
    BY <1>1, <2>1, QuietStep
<1>3. CASE followed
  <2>1. view' = FoldLeft(LAMBDA v, k : Register(v, k, Unread), view, lines)
    BY <1>3, Zenon DEF ReadLog
  <2>2. lines \in Seq(Command) /\ (kind = "ssh-command" => \A i \in 1 .. Len(lines) : lines[i] = 1)
    BY LinesRead
  <2>3. view.offset \in 0 .. written
    BY DEF ViewInv
  <2> HIDE DEF lines
  <2>4. CASE kind = "terminal"
    <3>1. PICK where : MarkersAreWhole(where) /\ ShellIsAt(where) /\ Position(where, view.offset, view)
      BY <2>4, Zenon DEF ViewInv
    <3>2. Registered(view, view')
      <4>1. Session(view)
        BY <3>1, Zenon DEF Position
      <4> QED
        BY <2>1, <2>2, <2>4, <4>1, LinesEffect, Zenon
    <3>3. Position(where, view.offset, view')
      BY <3>1, <3>2, RegisteredPosition, Zenon
    <3>4. view'.offset = view.offset
      BY <3>2, Zenon DEF Registered, SameRenderer
    <3>5. Fresh(view')
      <4>1. Fresh(view)
        BY <2>4, Zenon DEF ViewInv
      <4> QED
        BY ONLY <3>2, <4>1 DEF Fresh, Registered, SameRenderer
    <3> QED
      BY ONLY <1>1, <2>3, <2>4, <3>1, <3>3, <3>4, <3>5, TerminalMoves
  <2>5. CASE kind = "ssh-command"
    <3>1. StreamView(view)
      BY <2>5, Zenon DEF ViewInv
    <3>2. StreamView(view') /\ SameRenderer(view, view')
      BY <2>1, <2>2, <2>5, <3>1, StreamLinesEffect, Zenon
    <3>3. view'.offset = view.offset
      BY <3>2, Zenon DEF SameRenderer
    <3> QED
      BY ONLY <1>1, <2>3, <2>5, <3>2, <3>3, StreamMoves
  <2>6. kind = "terminal" \/ kind = "ssh-command"
    BY DEF ShellInv
  <2> QED
    BY <2>4, <2>5, <2>6, Zenon
<1> QED
  BY <1>2, <1>3, Zenon

\* A poll of a view whose file was not opened and is read from its end.
LEMMA AtEnd ==
    ASSUME NEW where, NEW p, NEW n \in Nat, NEW v, Position(where, p, v), Fresh(v), ~v.opened
    PROVE  Position(where, n, v)
<1>1. v.active = 0 /\ v.buffer = <<>> /\ v.text = <<>>
  BY DEF Fresh
<1>2. Splitter(where, n, v)
  BY <1>1 DEF Splitter
<1>3. Renderer(n, v)
  BY <1>1 DEF Position, Renderer
<1> QED
  BY <1>2, <1>3 DEF Position

\* Nothing is fed.
LEMMA NothingFed ==
    ASSUME NEW v
    PROVE  FoldLeft(Feed, v, <<>>) = v
<1>1. <<>> \in Seq({}) /\ Len(<<>>) = 0
  OBVIOUS
<1>2. PICK g : Unrolled(g, "feed", v, <<>>, FoldLeft(Feed, v, <<>>))
  BY <1>1, FeedFold
<1> QED
  BY <1>1, <1>2 DEF Unrolled

\* The bytes of a poll are fed.
LEMMA PollStep == ShellInv /\ ViewInv /\ Poll => ViewInv'
<1> SUFFICES ASSUME ShellInv, ViewInv, Poll PROVE ViewInv'
  OBVIOUS
<1> DEFINE skips == view.atEnd /\ ~view.opened
           data == IF skips THEN <<>> ELSE SubSeq(output, view.offset + 1, written)
           fed == FoldLeft(Feed, view, data)
<1>1. UNCHANGED <<kind, stage, entered, output, written>>
  BY DEF Poll, shell
<1>2. view' = Polled(fed, written)
  BY Zenon DEF Poll, Polled
<1>3. /\ output \in Seq(MarkedByte) /\ written \in Nat /\ written <= Len(output)
      /\ view.offset \in Nat /\ view.offset <= written
  BY DEF ShellInv, ViewInv
<1>4. kind = "terminal" \/ kind = "ssh-command"
  BY DEF ShellInv
<1>5. skips => fed = view
  BY NothingFed, Zenon
<1>6. ~skips => fed = FoldLeft(Feed, view, SubSeq(output, view.offset + 1, written))
  BY Zenon
<1>7. skips => ~view.opened
  OBVIOUS
<1> HIDE DEF skips, data, fed
<1>8. ASSUME fed \in View
      PROVE  /\ view'.opened = TRUE /\ view'.offset = written /\ view'.offset \in 0 .. written
             /\ \A where, p : Position(where, p, fed) => Position(where, p, view')
             /\ StreamView(fed) => StreamView(view')
  <2>1. /\ view'.opened = TRUE /\ view'.offset = written
        /\ \A where, p : Position(where, p, fed) => Position(where, p, view')
        /\ StreamView(fed) => StreamView(view')
    BY ONLY <1>2, <1>3, <1>8, PolledEffect
  <2>2. view'.offset \in 0 .. written
    BY <1>3, <2>1
  <2> QED
    BY <2>1, <2>2
<1>9. CASE kind = "terminal"
  <2>1. PICK where : MarkersAreWhole(where) /\ ShellIsAt(where) /\ Position(where, view.offset, view)
    BY <1>9, Zenon DEF ViewInv
  <2>2. Position(where, written, fed)
    <3>1. CASE skips
      <4>1. Fresh(view)
        BY <1>9, Zenon DEF ViewInv
      <4>2. Position(where, written, view)
        BY <1>3, <1>7, <2>1, <3>1, <4>1, AtEnd
      <4> QED
        BY <1>5, <3>1, <4>2
    <3>2. CASE ~skips
      <4>1. Position(where, written, FoldLeft(Feed, view, SubSeq(output, view.offset + 1, written)))
        BY ONLY <1>3, <2>1, BytesEffect
      <4> QED
        BY <1>6, <3>2, <4>1, Zenon
    <3> QED
      BY <3>1, <3>2
  <2>3. fed \in View
    BY <2>2, Zenon DEF Position, Session, Holds
  <2>4. /\ view'.opened = TRUE /\ view'.offset = written /\ view'.offset \in 0 .. written
        /\ Position(where, written, view')
    BY <1>8, <2>2, <2>3, Zenon
  <2>5. Fresh(view') /\ Position(where, view'.offset, view')
    BY <2>4, Zenon DEF Fresh
  <2> QED
    BY ONLY <1>1, <1>9, <2>1, <2>4, <2>5, TerminalMoves
<1>10. CASE kind = "ssh-command"
  <2>1. StreamView(view)
    BY <1>10, Zenon DEF ViewInv
  <2>2. StreamView(fed)
    <3>1. CASE skips
      BY <1>5, <2>1, <3>1
    <3>2. CASE ~skips
      <4> DEFINE bytes == SubSeq(output, view.offset + 1, written)
                 from == view.offset
      <4>1. /\ bytes \in Seq(MarkedByte) /\ Len(bytes) = written - from
            /\ \A i \in 1 .. Len(bytes) : bytes[i] = output[from + i]
        BY ONLY <1>3, PolledBytes
      <4>2. \A i \in 1 .. Len(output) : output[i].label.cmd = 1 /\ ~IsMark(output[i])
        BY <1>10 DEF ShellInv
      <4>3. from \in Nat
        BY <1>3
      <4> HIDE DEF bytes, from
      <4>4. \A i \in 1 .. Len(bytes) : from + i \in 1 .. Len(output)
        BY <1>3, <4>1, <4>3
      <4>5. \A i \in 1 .. Len(bytes) : bytes[i].label.cmd = 1 /\ ~IsMark(bytes[i])
        BY <4>1, <4>2, <4>4
      <4>6. StreamView(FoldLeft(Feed, view, bytes))
        BY ONLY <2>1, <4>1, <4>5, StreamBytesEffect
      <4> QED
        BY <1>6, <3>2, <4>6, Zenon DEF bytes
    <3> QED
      BY <3>1, <3>2
  <2>3. fed \in View
    BY <2>2, Zenon DEF StreamView, Rendered, Holds
  <2>4. StreamView(view') /\ view'.offset \in 0 .. written
    BY <1>8, <2>2, <2>3, Zenon
  <2> QED
    BY ONLY <1>1, <1>10, <2>4, StreamMoves
<1> QED
  BY <1>4, <1>9, <1>10, Zenon

\* The end of an ssh command is found in its metadata.
LEMMA MetadataStep == ShellInv /\ ViewInv /\ PollMetadata => ViewInv'
<1> SUFFICES ASSUME ShellInv, ViewInv, PollMetadata PROVE ViewInv'
  OBVIOUS
<1> DEFINE v == [view EXCEPT !.finished = TRUE]
<1>1. UNCHANGED <<kind, output, written>> /\ kind = "ssh-command"
  BY DEF PollMetadata, shell, ShellInv
<1>2. view' = IF ~ended THEN view ELSE IF v.event # 0 THEN FinishStream(v, Unread) ELSE v
  BY Zenon DEF PollMetadata
<1>3. StreamView(view) /\ view \in View /\ view.offset \in 0 .. written
  BY <1>1 DEF ViewInv
<1>4. v \in View
  BY <1>3 DEF View
<1>5. /\ SameRenderer(view, v) /\ v.event = view.event
      /\ v.line = view.line /\ v.pending = view.pending /\ v.shown = view.shown
  BY <1>3 DEF View, SameRenderer
<1> HIDE DEF v
<1>6. StreamView(v)
  <2>1. Holds(v, One, One)
    BY <1>3, <1>4, <1>5 DEF StreamView, Rendered, Holds, Waits
  <2>2. v.event \in {0, 1} /\ \A s \in v.shown : s.under = 1 /\ s.text.cmd = 1
    BY <1>3, <1>5 DEF StreamView
  <2> QED
    BY <1>3, <1>5, <2>1, <2>2, StreamKept
<1>7. v.event # 0 => /\ StreamView(FinishStream(v, Unread))
                     /\ SameRenderer(v, FinishStream(v, Unread))
  <2> SUFFICES ASSUME v.event # 0
               PROVE  /\ StreamView(FinishStream(v, Unread))
                      /\ SameRenderer(v, FinishStream(v, Unread))
    OBVIOUS
  <2>1. v.event = 1
    BY <1>6 DEF StreamView
  <2>2. Unread \in BOOLEAN
    BY DEF Unread
  <2> QED
    BY <1>6, <2>1, <2>2, StreamFinish
<1>8. StreamView(view') /\ view'.offset = view.offset
  <2>1. CASE ~ended
    BY <1>2, <1>3, <2>1, Zenon
  <2>2. CASE ended /\ v.event # 0
    <3>1. view' = FinishStream(v, Unread)
      BY <1>2, <2>2, Zenon
    <3> QED
      BY <1>5, <1>7, <2>2, <3>1, Zenon DEF SameRenderer
  <2>3. CASE ended /\ v.event = 0
    <3>1. view' = v
      BY <1>2, <2>3, Zenon
    <3> QED
      BY <1>5, <1>6, <3>1, Zenon DEF SameRenderer
  <2> QED
    BY <2>1, <2>2, <2>3
<1>9. view'.offset \in 0 .. written
  BY <1>3, <1>8
<1> QED
  BY <1>1, <1>8, <1>9, StreamMoves

\* A command is entered: a line end, or nothing yet of an ssh command.
LEMMA EnterStep == ShellInv /\ ViewInv /\ Enter => ViewInv'
<1> SUFFICES ASSUME ShellInv, ViewInv, Enter PROVE ViewInv'
  OBVIOUS
<1> DEFINE b == At("newline", Terminal)
<1>1. /\ view' = view /\ UNCHANGED <<kind, written>>
      /\ stage = "prompt" /\ stage' = "logged"
      /\ InCommand = 0 /\ InCommand' = 0
  BY DEF Enter, InCommand
<1>2. /\ output \in Seq(MarkedByte) /\ written \in 0 .. Len(output)
      /\ kind \in {"terminal", "ssh-command"}
  BY DEF ShellInv
<1>3. CASE kind = "terminal"
  <2>1. b \in MarkedByte /\ ~IsMark(b) /\ Append(output, b) = output \o <<b>>
    BY <1>2, TerminalByte
  <2>2. output' = output \o <<b>>
    BY <1>3, <2>1 DEF Enter
  <2> DEFINE s == <<b>>
  <2> HIDE DEF b
  <2>3. s \in Seq(MarkedByte) /\ Len(s) = 1 /\ s[1] = b
    BY <2>1
  <2> HIDE DEF s
  <2>4. \A i \in 1 .. Len(s) : ~IsMark(s[i]) /\ (InCommand # 0 => s[i].label.cmd = InCommand)
    BY <1>1, <2>1, <2>3
  <2>5. Len(s) > 0 /\ s[Len(s)] = At("newline", Terminal)
    BY <2>3 DEF b
  <2>6. output' = output \o s
    BY <2>2 DEF s
  <2> QED
    BY <1>1, <2>3, <2>4, <2>5, <2>6, PlainStep
<1>4. CASE kind = "ssh-command"
  <2>1. output' = <<>> /\ entered < 1 /\ output = <<>>
    BY <1>4 DEF Enter, ShellInv
  <2>2. output' = output /\ written' \in written .. Len(output)
    BY <1>1, <1>2, <2>1
  <2>3. kind # "terminal"
    BY <1>4
  <2> QED
    BY <1>1, <2>2, <2>3, QuietStep
<1> QED
  BY <1>2, <1>3, <1>4

\* A command prints.
LEMMA PrintStep == ASSUME NEW o PROVE ShellInv /\ ViewInv /\ PrintOutput(o) => ViewInv'
<1> SUFFICES ASSUME ShellInv, ViewInv, PrintOutput(o) PROVE ViewInv'
  OBVIOUS
<1> DEFINE s == LabelledOutput(entered, o.bytes)
<1>1. /\ view' = view /\ UNCHANGED <<kind, entered, written>> /\ stage' = "printed"
      /\ output' = output \o s /\ o \in Output[entered]
      /\ stage = IF kind = "terminal" THEN "running" ELSE "logged"
  BY DEF PrintOutput, ShellInv
<1>2. entered \in Command
  BY <1>1, Constants DEF ShellInv, Command
<1>3. s \in Seq(MarkedByte) /\ \A i \in 1 .. Len(s) : s[i].label.cmd = entered /\ ~IsMark(s[i])
  BY <1>1, <1>2, LabelledBytes
<1> HIDE DEF s
<1>4. CASE kind = "terminal"
  <2>1. InCommand = entered /\ InCommand' = entered
    BY <1>1, <1>4 DEF InCommand
  <2>2. \A i \in 1 .. Len(s) : ~IsMark(s[i]) /\ (InCommand # 0 => s[i].label.cmd = InCommand)
    BY <1>3, <2>1
  <2>3. stage' # "logged" \/ (Len(s) > 0 /\ s[Len(s)] = At("newline", Terminal))
    BY <1>1
  <2>4. InCommand' = InCommand
    BY <2>1
  <2> QED
    BY <1>1, <1>3, <2>2, <2>3, <2>4, PlainStep
<1>5. CASE kind = "ssh-command"
  <2>1. output \in Seq(MarkedByte) /\ written \in 0 .. Len(output)
    BY DEF ShellInv
  <2>2. Len(output) \in Nat /\ Len(output') \in Nat
    BY <1>1, <1>3, <2>1, Grows
  <2>3. kind # "terminal"
    BY <1>5
  <2> QED
    BY <1>1, <2>1, <2>2, <2>3, ShellGrows
<1> QED
  BY <1>4, <1>5 DEF ShellInv

\* The end of a command is logged: the prompt, or nothing of an ssh command.
LEMMA LogEndStep == ShellInv /\ ViewInv /\ LogEnd => ViewInv'
<1> SUFFICES ASSUME ShellInv, ViewInv, LogEnd PROVE ViewInv'
  OBVIOUS
<1> DEFINE b == At("char", Terminal)
<1>1. /\ view' = view /\ UNCHANGED <<kind, written>>
      /\ stage = "ended" /\ stage' = "prompt"
      /\ InCommand = 0 /\ InCommand' = 0
  BY DEF LogEnd, InCommand
<1>2. /\ output \in Seq(MarkedByte) /\ written \in 0 .. Len(output)
      /\ kind \in {"terminal", "ssh-command"}
  BY DEF ShellInv
<1>3. CASE kind = "terminal"
  <2>1. b \in MarkedByte /\ ~IsMark(b) /\ Append(output, b) = output \o <<b>>
    BY <1>2, TerminalByte
  <2>2. output' = output \o <<b>>
    BY <1>3, <2>1 DEF LogEnd
  <2> DEFINE s == <<b>>
  <2> HIDE DEF b
  <2>3. s \in Seq(MarkedByte) /\ Len(s) = 1 /\ s[1] = b
    BY <2>1
  <2> HIDE DEF s
  <2>4. \A i \in 1 .. Len(s) : ~IsMark(s[i]) /\ (InCommand # 0 => s[i].label.cmd = InCommand)
    BY <1>1, <2>1, <2>3
  <2>5. output' = output \o s /\ stage' # "logged"
    BY <1>1, <2>2 DEF s
  <2> QED
    BY <1>1, <2>3, <2>4, <2>5, PlainStep
<1>4. CASE kind = "ssh-command"
  <2>1. output' = output /\ written' \in written .. Len(output) /\ kind # "terminal"
    BY <1>1, <1>2, <1>4 DEF LogEnd
  <2> QED
    BY <1>1, <2>1, QuietStep
<1> QED
  BY <1>2, <1>3, <1>4

\* Every step keeps where the view is in the bytes.
LEMMA NextViewInv == ShellInv /\ LinesInv /\ ViewInv /\ [Next]_vars => ViewInv'
<1> SUFFICES ASSUME ShellInv, LinesInv, ViewInv, [Next]_vars PROVE ViewInv'
  OBVIOUS
<1>1. ASSUME UNCHANGED <<kind, stage, entered, output, written, view>>
      PROVE  ViewInv'
  <2>1. written' \in written .. Len(output)
    BY <1>1 DEF ShellInv
  <2> QED
    BY <1>1, <2>1, QuietStep
<1>2. CASE MakeDirectory \/ MakeFiles \/ MakeOtherSession
  BY <1>1, <1>2 DEF MakeDirectory, MakeFiles, MakeOtherSession, shell
<1>3. CASE Enter
  BY <1>3, EnterStep
<1>4. CASE MarkStart
  <2>1. /\ view' = view /\ UNCHANGED <<kind, written, entered>> /\ kind = "terminal"
        /\ output' = output \o Marker("start", entered)
        /\ stage = "logged" /\ stage' = "running"
    BY <1>4 DEF MarkStart
  <2> QED
    BY <2>1, MarkerStep
<1>5. CASE MarkEnd
  <2>1. /\ view' = view /\ UNCHANGED <<kind, written, entered>> /\ kind = "terminal"
        /\ output' = output \o Marker("end", entered)
        /\ stage = "printed" /\ stage' = "ended"
    BY <1>5 DEF MarkEnd
  <2> QED
    BY <2>1, MarkerStep
<1>6. CASE \E o \in UNION {Output[k] : k \in Command} : PrintOutput(o)
  BY <1>6, PrintStep
<1>7. CASE EndStream
  <2>1. view' = view /\ UNCHANGED <<kind, output, written>> /\ kind # "terminal"
    BY <1>7 DEF EndStream
  <2>2. written' \in written .. Len(output)
    BY <2>1 DEF ShellInv
  <2> QED
    BY <2>1, <2>2, QuietStep
<1>8. CASE LogEnd
  BY <1>8, LogEndStep
<1>9. ASSUME NEW n \in 1 .. Len(output), Flush(n)
      PROVE  ViewInv'
  <2>1. /\ view' = view /\ UNCHANGED <<kind, output, stage, entered>>
        /\ written + n <= Len(output) /\ written' = written + n
    BY <1>9 DEF Flush, shell
  <2>2. written' \in written .. Len(output)
    BY <2>1 DEF ShellInv
  <2> QED
    BY <2>1, <2>2, QuietStep
<1>10. CASE Deliver \/ Rotate \/ Start \/ SkipPoll
  BY <1>1, <1>10 DEF Deliver, Rotate, Start, SkipPoll, shell
<1>11. CASE Discover
  BY <1>11, DiscoverStep
<1>12. CASE ReadLog
  BY <1>12, ReadLogStep
<1>13. CASE Poll
  BY <1>13, PollStep
<1>14. CASE PollMetadata
  BY <1>14, MetadataStep
<1>15. CASE UNCHANGED vars
  BY <1>1, <1>15 DEF vars, shell
<1> QED
  BY <1>2, <1>3, <1>4, <1>5, <1>6, <1>7, <1>8, <1>9, <1>10, <1>11, <1>12, <1>13, <1>14, <1>15
  DEF Next, Shell, Syslog, Viewer

-----------------------------------------------------------------------------
\* The inductive invariant of the shell, the reader of the log and the view.
LEMMA Invariants == Spec => [](ShellInv /\ LinesInv /\ ViewInv)
<1>1. Init => ShellInv /\ LinesInv /\ ViewInv
  BY InitShellInv, InitLinesInv, InitViewInv
<1>2. (ShellInv /\ LinesInv /\ ViewInv) /\ [Next]_vars => (ShellInv /\ LinesInv /\ ViewInv)'
  BY NextShellInv, NextLinesInv, NextViewInv
<1> QED
  BY <1>1, <1>2, PTL DEF Spec

\* The types; and the memory of output that waits for its command is bounded
\* (redteam_logcat.py, MAX_PENDING_OUTPUT).
THEOREM TypesAreKept == Spec => []TypeOK
<1>1. ShellInv /\ LinesInv /\ ViewInv => TypeOK
  <2> SUFFICES ASSUME ShellInv, LinesInv, ViewInv PROVE TypeOK
    OBVIOUS
  <2>1. /\ view \in View /\ view.offset \in 0 .. written
    BY DEF ViewInv
  <2>2. /\ view.waiting \in SUBSET Command /\ view.completed \in SUBSET Command
        /\ view.active \in 0 .. Stream /\ view.event \in 0 .. MaxCommand
        /\ view.text \in Seq(Label) /\ view.line \in Seq(Label)
        /\ Len(FlattenSeq(view.pending)) <= MaxPending
    BY <2>1 DEF View
  <2>3. Labels(view.text) /\ Labels(view.line)
    BY <2>2 DEF Labels
  <2>4. rotated \in 0 .. delivered /\ delivered \in 0 .. sent
    BY DEF LinesInv
  <2> QED
    BY <2>1, <2>2, <2>3, <2>4 DEF TypeOK, ShellInv
<1> QED
  BY <1>1, Invariants, PTL

\* Neither a prompt nor an echoed command line is ever printed as output
\* (redteam_logcat.py, SessionView), late log lines or not.
THEOREM PromptStaysHidden == Spec => []PromptIsHidden
<1>1. ShellInv /\ LinesInv /\ ViewInv => PromptIsHidden
  <2> SUFFICES ASSUME ShellInv, ViewInv PROVE PromptIsHidden
    OBVIOUS
  <2>1. CASE kind = "terminal"
    <3>1. IsShown(view)
      BY <2>1 DEF ViewInv, Position, Session
    <3> QED
      BY <3>1 DEF IsShown, PromptIsHidden
  <2>2. CASE kind = "ssh-command"
    <3>1. \A s \in view.shown : s.under = 1 /\ s.text.cmd = 1
      BY <2>2 DEF ViewInv, StreamView
    <3> QED
      BY <3>1 DEF PromptIsHidden
  <2> QED
    BY <2>1, <2>2 DEF ShellInv
<1> QED
  BY <1>1, Invariants, PTL

\* As long as no log line comes after the start marker of a later command,
\* what is printed under a command is its own output: no partial line, cut
\* marker or escape sequence carries text across a boundary
\* (redteam_logcat.py, MarkerSplitter, PlainTextRenderer and SessionView).
THEOREM OutputIsGrouped == Spec => []GroupedUntilLate
<1>1. ShellInv /\ LinesInv /\ ViewInv => GroupedUntilLate
  <2> SUFFICES ASSUME ShellInv, ViewInv PROVE GroupedUntilLate
    OBVIOUS
  <2>1. CASE kind = "terminal"
    <3>1. IsShown(view)
      BY <2>1 DEF ViewInv, Position, Session
    <3> QED
      BY <3>1 DEF IsShown, GroupedUntilLate
  <2>2. CASE kind = "ssh-command"
    <3>1. \A s \in view.shown : s.under = 1 /\ s.text.cmd = 1
      BY <2>2 DEF ViewInv, StreamView
    <3> QED
      BY <3>1 DEF GroupedUntilLate
  <2> QED
    BY <2>1, <2>2 DEF ShellInv
<1> QED
  BY <1>1, Invariants, PTL

=============================================================================
