----------------------------- MODULE WriterProofs -----------------------------
(***************************************************************************)
(* Theorems about FileWriter and its SessionWriters, for every producer,   *)
(* every number of sessions and every order of their calls: through every  *)
(* flush, and every flush that raises, the records a session accepted are  *)
(* those it wrote, then those its merge holds, then those it buffers, and  *)
(* a file marked complete holds what was accepted.                         *)
(***************************************************************************)
EXTENDS FileWriting, OperatorProofs

-------------------------------------------------------------------------------
(* Kept: the recursion has a solution, only one, and it goes record by record *)

\* What f[n] has to be, given f[n - 1].
Keeping(f, s, S, n) ==
    IF n = 0 THEN << >> ELSE IF s[n] \in S THEN Append(f[n - 1], s[n]) ELSE f[n - 1]

\* f filters the prefixes of s up to length m.
Filters(f, s, S, m) == f = [n \in 0 .. m |-> Keeping(f, s, S, n)]

\* The prefixes of a sequence can be filtered.
LEMMA FilterExists ==
    ASSUME NEW s, NEW S, NEW k \in Nat
    PROVE  \E f : Filters(f, s, S, k)
<1> DEFINE T == { m \in Nat : ~ \E f : Filters(f, s, S, m) }
<1> SUFFICES ASSUME T # {} PROVE FALSE
  BY DEF T
<1>1. PICK m \in T : \A n \in T : m <= n
  <2>1. T \subseteq Nat
    OBVIOUS
  <2> QED BY <2>1, LeastNatural
<1>2. CASE m = 0
  <2> DEFINE g == [n \in 0 .. 0 |-> << >>]
  <2>1. g = [n \in 0 .. 0 |-> Keeping(g, s, S, n)]
    BY DEF Keeping
  <2>2. Filters(g, s, S, 0)
    BY <2>1 DEF Filters
  <2> QED BY <1>1, <1>2, <2>2
<1>3. CASE m # 0
  <2>1. m - 1 \in Nat /\ m - 1 \notin T
    BY <1>1, <1>3
  <2>2. PICK f : Filters(f, s, S, m - 1)
    BY <2>1
  <2> DEFINE g == [n \in 0 .. m |-> IF n = m THEN Keeping(f, s, S, m) ELSE f[n]]
  <2>3. \A n \in 0 .. m - 1 : f[n] = Keeping(f, s, S, n)
    BY <2>2 DEF Filters
  <2>4. \A n \in 0 .. m : g[n] = Keeping(g, s, S, n)
    <3> TAKE n \in 0 .. m
    <3>1. n # 0 => n - 1 \in 0 .. m - 1 /\ g[n - 1] = f[n - 1]
      BY <2>1
    <3>2. Keeping(g, s, S, n) = Keeping(f, s, S, n)
      BY <3>1 DEF Keeping
    <3>3. n # m => n \in 0 .. m - 1
      BY <2>1
    <3> QED BY <2>3, <3>2, <3>3
  <2>5. g = [n \in 0 .. m |-> Keeping(g, s, S, n)]
    <3> HIDE DEF g
    <3> DEFINE h == [n \in 0 .. m |-> Keeping(g, s, S, n)]
    <3>1. g = [n \in 0 .. m |-> g[n]]
      BY DEF g
    <3> QED BY <2>4, <3>1
  <2>6. Filters(g, s, S, m)
    BY <2>5 DEF Filters
  <2> QED BY <1>1, <2>6
<1> QED BY <1>2, <1>3

\* Two filters agree as far as what they filter does.
LEMMA FilterUnique ==
    ASSUME NEW f, NEW g, NEW s, NEW t, NEW S, NEW m \in Nat, NEW k \in Nat, m <= k,
           Filters(f, s, S, m), Filters(g, t, S, k), \A n \in 1 .. m : s[n] = t[n]
    PROVE  \A n \in 0 .. m : f[n] = g[n]
<1> DEFINE T == { n \in 0 .. m : f[n] # g[n] }
<1> SUFFICES ASSUME T # {} PROVE FALSE
  BY DEF T
<1>1. PICK n \in T : \A i \in T : n <= i
  <2>1. T \subseteq Nat
    OBVIOUS
  <2> QED BY <2>1, LeastNatural
<1>2. n \in 0 .. m /\ n \in 0 .. k /\ f[n] # g[n]
  BY <1>1
<1>3. f[n] = Keeping(f, s, S, n) /\ g[n] = Keeping(g, t, S, n)
  BY <1>2 DEF Filters
<1>4. n # 0
  BY <1>2, <1>3 DEF Keeping
<1>5. n - 1 \in 0 .. m /\ n - 1 \notin T /\ n \in 1 .. m
  BY <1>1, <1>2, <1>4
<1>6. f[n - 1] = g[n - 1] /\ s[n] = t[n]
  BY <1>5
<1> QED BY <1>2, <1>3, <1>4, <1>6 DEF Keeping

\* Kept is the last value of a filter.
LEMMA KeptFilters ==
    ASSUME NEW s, NEW S, Len(s) \in Nat
    PROVE  \E f : Filters(f, s, S, Len(s)) /\ Kept(s, S) = f[Len(s)]
<1> DEFINE f == CHOOSE f : Filters(f, s, S, Len(s))
<1>1. Filters(f, s, S, Len(s))
  BY FilterExists
<1>2. Kept(s, S) = f[Len(s)]
  BY DEF Kept, Filters, Keeping
<1> QED BY <1>1, <1>2

\* Of no blocks none are kept.
LEMMA KeptOfNone ==
    ASSUME NEW S
    PROVE  Kept(<< >>, S) = << >>
<1>1. PICK f : Filters(f, << >>, S, 0) /\ Kept(<< >>, S) = f[0]
  BY KeptFilters
<1> QED BY <1>1 DEF Filters, Keeping

\* One block more is kept behind the others, or is not.
LEMMA KeptAppended ==
    ASSUME NEW T, NEW s \in Seq(T), NEW x \in T, NEW S
    PROVE  Kept(Append(s, x), S) = IF x \in S THEN Append(Kept(s, S), x) ELSE Kept(s, S)
<1> DEFINE t == Append(s, x)
<1>1. Len(s) \in Nat /\ Len(t) = Len(s) + 1 /\ t[Len(s) + 1] = x /\ \A n \in 1 .. Len(s) : s[n] = t[n]
  OBVIOUS
<1> HIDE DEF t
<1>2. PICK f : Filters(f, s, S, Len(s)) /\ Kept(s, S) = f[Len(s)]
  BY <1>1, KeptFilters
<1>3. PICK g : Filters(g, t, S, Len(t)) /\ Kept(t, S) = g[Len(t)]
  BY <1>1, KeptFilters
<1>4. f[Len(s)] = g[Len(s)]
  BY <1>1, <1>2, <1>3, FilterUnique
<1>5. g[Len(t)] = Keeping(g, t, S, Len(t))
  BY <1>1, <1>3 DEF Filters
<1>6. Len(t) # 0 /\ Len(t) - 1 = Len(s) /\ t[Len(t)] = x
  BY <1>1
<1>7. g[Len(t)] = IF x \in S THEN Append(g[Len(s)], x) ELSE g[Len(s)]
  BY <1>5, <1>6 DEF Keeping
<1> QED BY <1>2, <1>3, <1>4, <1>7 DEF t

\* What is kept of a sequence is a sequence.
LEMMA KeptType ==
    ASSUME NEW T, NEW s \in Seq(T), NEW S
    PROVE  Kept(s, S) \in Seq(T)
<1>1. PICK f : Filters(f, s, S, Len(s)) /\ Kept(s, S) = f[Len(s)]
  BY KeptFilters
<1> DEFINE U == { n \in 0 .. Len(s) : f[n] \notin Seq(T) }
<1>2. CASE U = {}
  BY <1>1, <1>2
<1>3. CASE U # {}
  <2>1. PICK n \in U : \A i \in U : n <= i
    <3>1. U \subseteq Nat
      OBVIOUS
    <3> QED BY <1>3, <3>1, LeastNatural
  <2>2. n \in 0 .. Len(s) /\ f[n] \notin Seq(T)
    BY <2>1
  <2>3. f[n] = Keeping(f, s, S, n)
    BY <1>1, <2>2 DEF Filters
  <2>4. n # 0
    BY <2>2, <2>3 DEF Keeping
  <2>5. n - 1 \in 0 .. Len(s) /\ n - 1 \notin U /\ s[n] \in T
    BY <2>1, <2>2, <2>4
  <2>6. f[n - 1] \in Seq(T)
    BY <2>5
  <2>7. Append(f[n - 1], s[n]) \in Seq(T)
    BY <2>5, <2>6
  <2> QED BY <2>2, <2>3, <2>4, <2>6, <2>7 DEF Keeping
<1> QED BY <1>2, <1>3

\* A sequence and one element more has the members of both.
LEMMA AppendMembers ==
    ASSUME NEW T, NEW s \in Seq(T), NEW x \in T
    PROVE  Append(s, x) \in Seq(T) /\ ToSet(Append(s, x)) = ToSet(s) \cup {x}
<1>1. PICK t \in Seq(T) : t = Append(s, x)
  <2>1. Append(s, x) \in Seq(T)
    OBVIOUS
  <2> QED BY <2>1
<1>2. /\ DOMAIN t = 1 .. Len(t) /\ DOMAIN s = 1 .. Len(s) /\ Len(s) \in Nat
      /\ Len(t) = Len(s) + 1 /\ t[Len(s) + 1] = x /\ \A i \in 1 .. Len(s) : t[i] = s[i]
  BY <1>1
<1>3. \A i : i \in 1 .. Len(t) <=> i \in 1 .. Len(s) \/ i = Len(s) + 1
  BY <1>2
<1>4. ToSet(t) = ToSet(s) \cup {x}
  BY <1>2, <1>3 DEF ToSet
<1> QED BY <1>1, <1>4

\* And it has the members of the sequence that are in the set.
LEMMA KeptMembers ==
    ASSUME NEW T, NEW s \in Seq(T), NEW S
    PROVE  ToSet(Kept(s, S)) = ToSet(s) \cap S
<1>1. PICK f : Filters(f, s, S, Len(s)) /\ Kept(s, S) = f[Len(s)]
  BY KeptFilters
<1> DEFINE Upto(n) == { s[i] : i \in 1 .. n } \cap S
           U == { n \in 0 .. Len(s) : ~ (f[n] \in Seq(T) /\ ToSet(f[n]) = Upto(n)) }
<1>2. CASE U = {}
  <2>1. ToSet(s) = { s[i] : i \in 1 .. Len(s) } /\ Len(s) \in 0 .. Len(s)
    BY DEF ToSet
  <2> QED BY <1>1, <1>2, <2>1
<1>3. CASE U # {}
  <2>1. PICK n \in U : \A i \in U : n <= i
    <3>1. U \subseteq Nat
      OBVIOUS
    <3> QED BY <1>3, <3>1, LeastNatural
  <2>2. n \in 0 .. Len(s) /\ ~ (f[n] \in Seq(T) /\ ToSet(f[n]) = Upto(n))
    BY <2>1
  <2>3. f[n] = Keeping(f, s, S, n)
    BY <1>1, <2>2 DEF Filters
  <2>4. n # 0
    <3>1. << >> \in Seq(T) /\ ToSet(<< >>) = {} /\ Upto(0) = {}
      BY DEF ToSet
    <3> QED BY <2>2, <2>3, <3>1 DEF Keeping
  <2>5. n - 1 \in 0 .. Len(s) /\ n - 1 \notin U /\ s[n] \in T
    <3> HIDE DEF Upto
    <3>1. n \in 1 .. Len(s) /\ n - 1 \in 0 .. Len(s) /\ ~ (n <= n - 1)
      BY <2>2, <2>4
    <3> QED BY <2>1, <3>1
  <2>6. f[n - 1] \in Seq(T) /\ ToSet(f[n - 1]) = Upto(n - 1)
    BY <2>5
  <2>7. Upto(n) = Upto(n - 1) \cup ({s[n]} \cap S)
    <3>1. 1 .. n = (1 .. n - 1) \cup {n}
      BY <2>2, <2>4
    <3> QED BY <3>1
  <2>8. /\ Append(f[n - 1], s[n]) \in Seq(T)
        /\ ToSet(Append(f[n - 1], s[n])) = ToSet(f[n - 1]) \cup {s[n]}
    BY <2>5, <2>6, AppendMembers
  <2> QED BY <2>2, <2>3, <2>4, <2>6, <2>7, <2>8 DEF Keeping
<1> QED BY <1>2, <1>3

-------------------------------------------------------------------------------
(* The inductive invariant *)

\* What close() of a stage fills its output with.
Fills ==
    [kind : {"undecoded"}, source : {0}, input : Inputs, start : Nat, end : Nat,
     decoder : DecoderIds, reason : {"gap", "skipped"}, class : {None}]

\* What a file begun by a stage or a transform may open with, and the breaks that
\* a stage writes of itself.
Scaffolds ==
    [kind : {"source"}, id : SourceIds, source : {"capture", "zpf", "unknown"}]
    \cup [kind : {"decoder"}, id : DecoderIds, layer : {"transport", "decoded", "undefined"}]
    \cup [kind : {"participant"}, sid : Sids, pid : Pids, isn : SeqNum \cup {None},
          adjacency : {"contiguous", "units", "undefined"}]
    \cup [kind : {"discontinuity"}, sid : Sids, pid : Pids]

\* What the writer may hand to its sink.
Blocks ==
    Producer.records \cup Producer.declarations \cup Producer.participants \cup Producer.breaks
    \cup {Header, [kind |-> "end"]}
    \cup [kind : {"session"}, sid : Sids]
    \cup [kind : {"sessionEnd"}, sid : Sids \cup {None}, extents : Seq(ExtentType)]
    \cup Scaffolds \cup Fills

\* What session s holds of participant p and has not written.
Out(s, p) == InFlight(s, p) \o sessions[s].pending[p]

\* The sessions a call has yet to flush exist; of those close() is through with,
\* none buffers a record, and none is in the running merge and the buffer at once.
CallKnown ==
    /\ call \in [op : {"none", "end", "close"}, sid : Sids \cup {None}, extents : Seq(ExtentType),
                 left : Seq(Sids), step : {"none", "flush", "merge", "raise"}]
    /\ call.step \in {"merge", "raise"} => call.left # << >>
    /\ \A i \in DOMAIN call.left : sessions[call.left[i]] # None
    /\ call.step = "merge" => sessions[Head(call.left)].pending = NoStreams
    /\ call.op = "close" =>
          /\ ~ closed
          /\ \A s \in Sids : sessions[s] # None /\ sessions[s].pending # NoStreams =>
                \E i \in DOMAIN call.left : call.left[i] = s

\* close() flushes every session that may buffer.
FlushKnown ==
    /\ linearizing \in Seq(Sids)
    /\ \A i \in DOMAIN linearizing : sessions[linearizing[i]] # None
    /\ \A s \in Sids : sessions[s] # None /\ sessions[s].linearize =>
          \E i \in DOMAIN linearizing : linearizing[i] = s

\* A session buffers its own records, if it linearizes; one not begun has none.
WritersKnown ==
    /\ sessions \in [Sids -> WriterType \cup {None}]
    /\ \A s \in Sids : sessions[s] # None =>
          /\ \A p \in Pair : sessions[s].pending[p] \in Seq(Sent[s][p])
          /\ ~ sessions[s].linearize => sessions[s].pending = NoStreams
    /\ \A s \in Sids : sessions[s] = None =>
          /\ accepted[s] = << >> /\ late[s] = 0 /\ rejected[s] = 0
          /\ Kept(file, SentIn[s]) = << >>
          /\ \A p \in Pids : Kept(file, Sent[s][p]) = << >>

\* The head of a frontier is the record of its stream loaded last, and there is
\* none only before the first and behind the last.
HeadInStream(p) ==
    LET f == frontier[p]
    IN  /\ {"loaded", "head"} \subseteq DOMAIN f
        /\ f.loaded \in 0 .. Len(streams[p])
        /\ f.head # None => f.loaded > 0 /\ f.head = streams[p][f.loaded]
        /\ f.head = None => f.loaded = Len(streams[p]) \/ (f.loaded = 0 /\ status = "priming")

\* The running merge has the records of one session.
MergeKnown ==
    call.step = "merge" =>
        /\ DOMAIN frontier = Pair /\ DOMAIN streams = Pair
        /\ \A p \in Pair : streams[p] \in Seq(Sent[Head(call.left)][p]) /\ HeadInStream(p)
        /\ status = "done" => \A p \in Pair : frontier[p].head = None

HistoryKnown ==
    /\ accepted \in [Sids -> Seq(Producer.records)]
    /\ late \in [Sids -> Nat] /\ rejected \in [Sids -> Nat]
    /\ closed \in BOOLEAN
    /\ ~ closed => \A s \in Sids : late[s] = 0
    /\ file \in Seq(Blocks) /\ file # << >>
    /\ Complete => closed

\* The sessions a flush of which has raised, or is raising.
Spoiled == lost \cup (IF call.step = "raise" THEN {Head(call.left)} ELSE {})

\* RecordsConserved of one session, participant by participant and in number.
Conserved(s) ==
    sessions[s] # None =>
       /\ \A p \in Pids : Kept(accepted[s], Sent[s][p]) =
             Kept(file, Sent[s][p]) \o (IF p \in Pair THEN Out(s, p) ELSE << >>)
       /\ rejected[s] = 0
       /\ \A a, b \in Pair : a # b =>
             Len(accepted[s]) = Len(Kept(file, SentIn[s])) + Len(Out(s, a)) + Len(Out(s, b))

WriterInv ==
    /\ CallKnown
    /\ FlushKnown
    /\ WritersKnown
    /\ MergeKnown
    /\ HistoryKnown
    /\ \A s \in Sids \ Spoiled : Conserved(s)
    /\ CleanFileIsWhole

-------------------------------------------------------------------------------
(* The guards of a session keep its type, and leave its buffer alone *)

\* The fields the walks and the order rules read.
Hints(b) == [seq |-> b.seq, ack |-> b.ack, len |-> b.len, flag |-> b.flag, ts |-> b.ts]

\* The order check reads of a block only those.
LEMMA OnlyHintsRead ==
    ASSUME NEW b, NEW order, NEW count, NEW p
    PROVE  /\ OrderObserved(order, count, p, b) = OrderObserved(order, count, p, Hints(b))
           /\ OrderRefuses(order, count, p, b) <=> OrderRefuses(order, count, p, Hints(b))
           /\ \A offset : SequenceEnd(b, offset) = SequenceEnd(Hints(b), offset)
<1>1. /\ b.seq = Hints(b).seq /\ b.ack = Hints(b).ack
      /\ b.len = Hints(b).len /\ b.flag = Hints(b).flag
  BY DEF Hints
<1> HIDE DEF Hints
<1>2. \A placer : Started(placer, b) = Started(placer, Hints(b))
  BY <1>1 DEF Started
<1>3. \A placer : OffsetOf(placer, b) = OffsetOf(placer, Hints(b))
  BY <1>1, <1>2 DEF OffsetOf
<1>4. \A placer : Placed(placer, b) = Placed(placer, Hints(b))
  <2> TAKE placer
  <2>1. PICK seq : seq = b.seq /\ seq = Hints(b).seq
    BY <1>1
  <2>2. PICK at : at = Started(placer, b) /\ at = Started(placer, Hints(b))
    BY <1>2
  <2>3. PICK offset : offset = OffsetOf(placer, b) /\ offset = OffsetOf(placer, Hints(b))
    BY <1>3
  <2> QED BY <2>1, <2>2, <2>3 DEF Placed
<1>5. \A offset : SequenceEnd(b, offset) = SequenceEnd(Hints(b), offset)
  BY <1>1 DEF SequenceEnd
<1>6. PrecedesLastSeq(order, p, b) = PrecedesLastSeq(order, p, Hints(b))
  BY <1>1 DEF PrecedesLastSeq
<1>7. OrderRefuses(order, count, p, b) = OrderRefuses(order, count, p, Hints(b))
  BY <1>2, <1>3, <1>5, <1>6 DEF OrderRefuses
<1>8. OrderObserved(order, count, p, b) = OrderObserved(order, count, p, Hints(b))
  BY <1>1, <1>4, <1>6, <1>7 DEF OrderObserved
<1> QED BY <1>5, <1>7, <1>8

\* A record a producer sends is its session's, and has what those rules read.
LEMMA SentType ==
    ASSUME NEW b \in Producer.records
    PROVE  /\ Hints(b) \in RecordType
           /\ b.kind = "record" /\ b # None
           /\ b.sid \in Sids /\ b.pid \in Pids
           /\ b.seq \in SeqNum \cup {None}
           /\ b \in SentIn[b.sid] /\ b \in Sent[b.sid][b.pid] /\ b \in Blocks
           /\ \A s \in Sids : s # b.sid => b \notin SentIn[s]
           /\ \A s \in Sids, p \in Pids : s # b.sid \/ p # b.pid => b \notin Sent[s][p]
<1>1. SessionRecord(b) /\ b # None
  BY WriterAssumption
<1>2. Hints(b) \in RecordType
  BY <1>1 DEF SessionRecord, Hints, RecordType
<1> QED BY <1>1, <1>2 DEF SessionRecord, SentIn, Sent, Blocks

\* A writer with another buffer.
LEMMA BufferType ==
    ASSUME NEW writer \in WriterType, NEW pending \in [Pair -> Seq(Producer.records)]
    PROVE  /\ [writer EXCEPT !.pending = pending] \in WriterType
           /\ [writer EXCEPT !.pending = pending].pending = pending
           /\ [writer EXCEPT !.pending = pending].linearize = writer.linearize
  BY DEF WriterType

\* The guards, written or not, leave a session writer with its buffer and mode.
LEMMA AfterRecordType ==
    ASSUME NEW writer \in WriterType, NEW b \in Producer.records
    PROVE  /\ AfterRecord(writer, b) \in WriterType
           /\ AfterRecord(writer, b).pending = writer.pending
           /\ AfterRecord(writer, b).linearize = writer.linearize
<1>1. b.seq \in SeqNum \cup {None} /\ b.pid \in Pids /\ Hints(b) \in RecordType
  BY SentType
<1> DEFINE moved == Advance(writer, b)
<1>2. /\ moved \in WriterType /\ moved.pending = writer.pending
      /\ moved.linearize = writer.linearize /\ moved.order = writer.order
  <2>1. CASE Guarded(writer, b) /\ SerialDelta(b.seq, writer.anchor[b.pid]) >= 0
    <3>1. b.seq \in SeqNum
      BY <1>1, <2>1 DEF Guarded
    <3>2. moved = [writer EXCEPT !.anchor[b.pid] = b.seq]
      BY <2>1 DEF Advance
    <3>3. PICK anchor \in [Pids -> SeqNum \cup {None}] :
            anchor = [writer.anchor EXCEPT ![b.pid] = b.seq]
      BY <1>1, <3>1 DEF WriterType
    <3>4. moved = [writer EXCEPT !.anchor = anchor]
      BY <3>2, <3>3
    <3> QED BY <3>3, <3>4 DEF WriterType
  <2>2. CASE ~ (Guarded(writer, b) /\ SerialDelta(b.seq, writer.anchor[b.pid]) >= 0)
    BY <2>2 DEF Advance
  <2> QED BY <2>1, <2>2
<1> HIDE DEF moved
<1> DEFINE order == OrderObserved(moved.order, None, b.pid, b)
<1>3. order \in OrderType
  <2>1. moved.order \in OrderType
    BY <1>2 DEF WriterType
  <2> QED BY <1>1, <2>1, OnlyHintsRead, OrderObservedType
<1> HIDE DEF order
<1> DEFINE checked == [moved EXCEPT !.order = order]
<1>4. /\ checked \in WriterType /\ checked.pending = writer.pending
      /\ checked.linearize = writer.linearize
  BY <1>2, <1>3 DEF WriterType
<1>5. AfterRecord(writer, b) \in {writer, moved, checked}
  BY DEF AfterRecord, moved, order
<1> HIDE DEF checked
<1> QED BY <1>2, <1>4, <1>5

Modes == [verify : BOOLEAN, linearize : BOOLEAN]

\* A new session buffers nothing.
LEMMA NewSessionType ==
    ASSUME NEW mode \in Modes
    PROVE  /\ NewSession(mode) \in WriterType
           /\ NewSession(mode).pending = NoStreams
           /\ NewSession(mode).linearize = mode.linearize
<1>1. mode.verify \in BOOLEAN /\ mode.linearize \in BOOLEAN
  BY DEF Modes
<1>2. [p \in Pids |-> None] \in [Pids -> SeqNum \cup {None}]
  OBVIOUS
<1>3. NewOrder(None, [p \in Pids |-> None]) \in OrderType
  BY <1>2, NewOrderType
<1>4. NoStreams \in [Pair -> Seq(Producer.records)]
  BY DEF NoStreams
<1> QED BY <1>1, <1>2, <1>3, <1>4 DEF NewSession, WriterType

\* Declaring a participant leaves the buffer and the mode.
LEMMA DeclaredInType ==
    ASSUME NEW writer \in WriterType, NEW b, b.pid \in Pids, b.isn \in SeqNum \cup {None}
    PROVE  /\ DeclaredIn(writer, b) \in WriterType
           /\ DeclaredIn(writer, b).pending = writer.pending
           /\ DeclaredIn(writer, b).linearize = writer.linearize
<1>1. b.pid \in Pids /\ b.isn \in SeqNum \cup {None}
  OBVIOUS
<1>2. PICK placer \in PlacerType : placer = NewPlacer(b.isn)
  BY <1>1, NewPlacerType
<1>3. PICK anchor \in SeqNum \cup {None} :
        anchor = IF b.isn = None THEN None ELSE (b.isn + 1) % SeqSpace
  <2>1. b.isn # None => (b.isn + 1) % SeqSpace \in SeqNum
    BY <1>1, SeqSpaceAssumption DEF SeqNum
  <2> QED BY <2>1
<1>4. DeclaredIn(writer, b) =
        [writer EXCEPT !.pids = @ \cup {b.pid}, !.isn[b.pid] = b.isn, !.anchor[b.pid] = anchor,
                       !.order.placers[b.pid] = placer]
  BY <1>2, <1>3 DEF DeclaredIn
<1>5. PICK order \in OrderType : order = [writer.order EXCEPT !.placers[b.pid] = placer]
  <2>1. PICK placers \in [Pids -> PlacerType] : placers = [writer.order.placers EXCEPT ![b.pid] = placer]
    BY <1>1 DEF WriterType, OrderType
  <2>2. [writer.order EXCEPT !.placers = placers] \in OrderType
    BY DEF WriterType, OrderType
  <2> QED BY <2>1, <2>2
<1>6. PICK origins \in [Pids -> SeqNum \cup {None}] : origins = [writer.isn EXCEPT ![b.pid] = b.isn]
  BY <1>1 DEF WriterType
<1>7. PICK anchors \in [Pids -> SeqNum \cup {None}] : anchors = [writer.anchor EXCEPT ![b.pid] = anchor]
  BY <1>1 DEF WriterType
<1>8. PICK pids \in SUBSET Pids : pids = writer.pids \cup {b.pid}
  BY <1>1 DEF WriterType
<1>9. DeclaredIn(writer, b) =
        [writer EXCEPT !.pids = pids, !.isn = origins, !.anchor = anchors, !.order = order]
  BY <1>4, <1>5, <1>6, <1>7, <1>8
<1> QED BY <1>5, <1>6, <1>7, <1>8, <1>9 DEF WriterType

-------------------------------------------------------------------------------
(* Sequences: what is left of a stream *)

\* The rest of a stream from its beginning is all of it, from behind its end none.
LEMMA RestEnds ==
    ASSUME NEW T, NEW st \in Seq(T)
    PROVE  /\ SubSeq(st, 1, Len(st)) = st
           /\ SubSeq(st, Len(st) + 1, Len(st)) = << >>
           /\ \A k \in 1 .. Len(st) + 1 : SubSeq(st, k, Len(st)) \in Seq(T)
  OBVIOUS

\* Sequences put behind one another.
LEMMA ConcatType ==
    ASSUME NEW T, NEW a \in Seq(T), NEW b \in Seq(T)
    PROVE  a \o b \in Seq(T) /\ Len(a \o b) = Len(a) + Len(b) /\ Len(a) \in Nat /\ Len(b) \in Nat
  OBVIOUS

\* A sequence and one element more.
LEMMA AppendType ==
    ASSUME NEW T, NEW a \in Seq(T), NEW x \in T
    PROVE  Append(a, x) \in Seq(T) /\ Len(Append(a, x)) = Len(a) + 1 /\ Len(a) \in Nat
  OBVIOUS

\* A record that goes from the head of one sequence to the end of another.
LEMMA HeadMoves ==
    ASSUME NEW a \in Seq(Blocks), NEW b \in Seq(Blocks), NEW c \in Seq(Blocks), NEW x \in Blocks
    PROVE  /\ a \o ((<<x>> \o b) \o c) = Append(a, x) \o (b \o c)
           /\ Len((<<x>> \o b) \o c) = Len(b \o c) + 1
  OBVIOUS

\* A record added at the end of what is held.
LEMMA EndGrows ==
    ASSUME NEW a \in Seq(Blocks), NEW b \in Seq(Blocks), NEW c \in Seq(Blocks), NEW x \in Blocks
    PROVE  /\ Append(a \o (b \o c), x) = a \o (b \o Append(c, x))
           /\ Len(b \o Append(c, x)) = Len(b \o c) + 1
<1>1. Append(c, x) = c \o <<x>> /\ <<x>> \in Seq(Blocks) /\ b \o c \in Seq(Blocks) /\ a \o (b \o c) \in Seq(Blocks)
  OBVIOUS
<1>2. Append(a \o (b \o c), x) = (a \o (b \o c)) \o <<x>>
  BY <1>1, AppendIsConcat
<1>3. (a \o (b \o c)) \o <<x>> = a \o ((b \o c) \o <<x>>)
  BY <1>1, ConcatAssociative
<1>4. (b \o c) \o <<x>> = b \o (c \o <<x>>)
  BY <1>1, ConcatAssociative
<1>5. Len(b \o Append(c, x)) = Len(b \o c) + 1
  OBVIOUS
<1> QED BY <1>1, <1>2, <1>3, <1>4, <1>5

-------------------------------------------------------------------------------
(* What a step leaves alone *)

\* The same sessions, with the same buffers and modes.
SessionsAlike ==
    \A s \in Sids :
        /\ sessions'[s] = None <=> sessions[s] = None
        /\ sessions[s] # None => /\ sessions'[s].pending = sessions[s].pending
                                 /\ sessions'[s].linearize = sessions[s].linearize

\* The file has the same records of every session and participant.
KeptAlike ==
    \A s \in Sids : /\ Kept(file', SentIn[s]) = Kept(file, SentIn[s])
                    /\ \A p \in Pids : Kept(file', Sent[s][p]) = Kept(file, Sent[s][p])

LEMMA CallStays ==
    ASSUME CallKnown, SessionsAlike, UNCHANGED <<call, closed>>
    PROVE  CallKnown'
<1>1. call.left \in Seq(Sids)
  BY DEF CallKnown
<1>2. call.step = "merge" => Head(call.left) \in Sids /\ sessions[Head(call.left)] # None
  BY <1>1 DEF CallKnown
<1>3. call.step = "merge" => sessions'[Head(call.left)].pending = NoStreams
  BY <1>2 DEF CallKnown, SessionsAlike
<1>4. \A i \in DOMAIN call.left : sessions'[call.left[i]] # None
  BY <1>1 DEF CallKnown, SessionsAlike
<1>5. call.op = "close" => \A s \in Sids : sessions'[s] # None /\ sessions'[s].pending # NoStreams =>
        \E i \in DOMAIN call.left : call.left[i] = s
  BY DEF CallKnown, SessionsAlike
<1> QED BY <1>3, <1>4, <1>5 DEF CallKnown

LEMMA FlushStays ==
    ASSUME FlushKnown, SessionsAlike, UNCHANGED linearizing
    PROVE  FlushKnown'
  BY DEF FlushKnown, SessionsAlike

LEMMA WritersStay ==
    ASSUME WritersKnown, sessions' \in [Sids -> WriterType \cup {None}], SessionsAlike, KeptAlike,
           UNCHANGED <<accepted, late, rejected>>
    PROVE  WritersKnown'
<1>1. \A s \in Sids : sessions'[s] # None =>
        /\ \A p \in Pair : sessions'[s].pending[p] \in Seq(Sent[s][p])
        /\ ~ sessions'[s].linearize => sessions'[s].pending = NoStreams
  BY DEF WritersKnown, SessionsAlike
<1>2. \A s \in Sids : sessions'[s] = None =>
        /\ accepted[s] = << >> /\ late[s] = 0 /\ rejected[s] = 0
        /\ Kept(file', SentIn[s]) = << >>
        /\ \A p \in Pids : Kept(file', Sent[s][p]) = << >>
  BY DEF WritersKnown, SessionsAlike, KeptAlike
<1> QED BY <1>1, <1>2 DEF WritersKnown

LEMMA ConservedStays ==
    ASSUME NEW s \in Sids, Conserved(s), SessionsAlike, KeptAlike,
           accepted'[s] = accepted[s], rejected'[s] = rejected[s],
           \A p \in Pair : InFlight(s, p)' = InFlight(s, p)
    PROVE  Conserved(s)'
<1> SUFFICES ASSUME sessions'[s] # None
             PROVE  Conserved(s)'
  BY DEF Conserved
<1>1. sessions[s] # None
  BY DEF SessionsAlike
<1>2. \A p \in Pair : Out(s, p)' = Out(s, p)
  BY <1>1 DEF Out, SessionsAlike
<1> QED BY <1>1, <1>2 DEF Conserved, KeptAlike

LEMMA MergeStays ==
    ASSUME MergeKnown, UNCHANGED <<call, mergeVars>>
    PROVE  /\ MergeKnown'
           /\ \A s, p : InFlight(s, p)' = InFlight(s, p)
  BY DEF MergeKnown, HeadInStream, mergeVars, InFlight, Held

\* A block written goes to the end of the file.
LEMMA FileGrows ==
    ASSUME HistoryKnown, NEW b \in Blocks, Emit(b)
    PROVE  /\ ~ Emits(b) => UNCHANGED file
           /\ file' \in Seq(Blocks) /\ file' # << >>
           /\ Emits(b) => /\ ~ closed
                          /\ file' = Append(file, b)
                          /\ Complete' <=> b.kind = "end"
<1>1. file \in Seq(Blocks) /\ file # << >>
  BY DEF HistoryKnown
<1>2. CASE ~ Emits(b)
  BY <1>1, <1>2 DEF Emit
<1>3. CASE Emits(b)
  <2>1. file' = Append(file, b) /\ ~ closed
    BY <1>3 DEF Emit, Emits
  <2>2. file' \in Seq(Blocks) /\ file' # << >> /\ file'[Len(file')] = b
    BY <1>1, <2>1
  <2> QED BY <1>3, <2>1, <2>2 DEF Complete
<1> QED BY <1>2, <1>3

\* A block that is no record leaves the file with the records it had.
LEMMA NoRecordWritten ==
    ASSUME HistoryKnown, NEW b \in Blocks, b.kind # "record", Emit(b)
    PROVE  KeptAlike
<1>1. \A s \in Sids : b \notin SentIn[s] /\ \A p \in Pids : b \notin Sent[s][p]
  BY WriterAssumption DEF SentIn, Sent, SessionRecord
<1>2. file \in Seq(Blocks)
  BY DEF HistoryKnown
<1>3. file' = file \/ file' = Append(file, b)
  BY FileGrows
<1>4. \A S : b \notin S => Kept(Append(file, b), S) = Kept(file, S)
  BY <1>2, KeptAppended
<1> QED BY <1>1, <1>3, <1>4 DEF KeptAlike

\* What is accepted, what came late, what is refused and what is lost are as they were.
LEMMA HistoryStays ==
    ASSUME HistoryKnown, file' \in Seq(Blocks), file' # << >>, Complete' => closed', closed' \in BOOLEAN,
           closed => closed', UNCHANGED <<accepted, late, rejected>>
    PROVE  HistoryKnown'
  BY DEF HistoryKnown

\* A call that writes one block, no record and not the End block, and leaves the
\* sessions as they were.
LEMMA BlockStep ==
    ASSUME WriterInv, NEW b \in Blocks, b.kind # "record", b.kind # "end", Emit(b),
           sessions' \in [Sids -> WriterType \cup {None}], SessionsAlike,
           UNCHANGED <<closed, linearizing, call, mergeVars, history>>
    PROVE  WriterInv'
<1>1. KeptAlike
  BY NoRecordWritten DEF WriterInv
<1>2. /\ file' \in Seq(Blocks) /\ file' # << >>
      /\ UNCHANGED file \/ ~ Complete'
  BY FileGrows DEF WriterInv
<1>3. CallKnown'
  BY CallStays DEF WriterInv
<1>4. FlushKnown'
  BY FlushStays DEF WriterInv
<1>5. WritersKnown'
  BY <1>1, WritersStay DEF WriterInv, history
<1>6. MergeKnown' /\ \A s, p : InFlight(s, p)' = InFlight(s, p)
  BY MergeStays DEF WriterInv
<1>7. HistoryKnown'
  BY <1>2, HistoryStays DEF WriterInv, HistoryKnown, history, Complete
<1>8. \A s \in Sids \ Spoiled' : Conserved(s)'
  <2>1. Spoiled' = Spoiled
    BY DEF Spoiled, history
  <2> QED BY <1>1, <1>6, <2>1, ConservedStays DEF WriterInv, history
<1>9. CleanFileIsWhole'
  BY <1>1, <1>2 DEF WriterInv, CleanFileIsWhole, Unwritten, KeptAlike, Complete, history
<1> QED BY <1>3, <1>4, <1>5, <1>6, <1>7, <1>8, <1>9 DEF WriterInv

-------------------------------------------------------------------------------
(* The calls that write a block and no record *)

LEMMA DeclareStep ==
    ASSUME WriterInv, NEW b \in Producer.declarations, Declare(b)
    PROVE  WriterInv'
<1>1. b \in Blocks /\ b.kind # "record" /\ b.kind # "end"
  BY WriterAssumption DEF Blocks, Stateless
<1>2. /\ Emit(b)
      /\ UNCHANGED <<sessions, closed, linearizing, call, mergeVars, history>>
  BY DEF Declare
<1>3. SessionsAlike /\ sessions' \in [Sids -> WriterType \cup {None}]
  BY <1>2 DEF SessionsAlike, WriterInv, WritersKnown
<1> QED BY <1>1, <1>2, <1>3, BlockStep

LEMMA DiscontinuityStep ==
    ASSUME WriterInv, NEW b \in Blocks, b.kind = "discontinuity", Discontinuity(b)
    PROVE  WriterInv'
<1>1. b.kind # "record" /\ b.kind # "end"
  OBVIOUS
<1>2. /\ Emit(b)
      /\ UNCHANGED <<sessions, closed, linearizing, call, mergeVars, history>>
  BY DEF Discontinuity
<1>3. SessionsAlike /\ sessions' \in [Sids -> WriterType \cup {None}]
  BY <1>2 DEF SessionsAlike, WriterInv, WritersKnown
<1> QED BY <1>1, <1>2, <1>3, BlockStep

LEMMA ParticipantStep ==
    ASSUME WriterInv, NEW b \in Producer.participants, Participant(b)
    PROVE  WriterInv'
<1>1. b \in Blocks /\ b.kind # "record" /\ b.kind # "end" /\ b.sid \in Sids
  BY WriterAssumption DEF Blocks
<1>2. /\ Emit(b)
      /\ sessions[b.sid] # None
      /\ UNCHANGED <<closed, linearizing, call, mergeVars, history>>
      /\ sessions' = IF Emits(b) THEN [sessions EXCEPT ![b.sid] = DeclaredIn(@, b)] ELSE sessions
  BY DEF Participant
<1>3. sessions \in [Sids -> WriterType \cup {None}] /\ sessions[b.sid] \in WriterType
  BY <1>1, <1>2 DEF WriterInv, WritersKnown
<1>4. PICK writer \in WriterType : /\ writer = DeclaredIn(sessions[b.sid], b)
                                   /\ writer.pending = sessions[b.sid].pending
                                   /\ writer.linearize = sessions[b.sid].linearize
  BY <1>3, WriterAssumption, DeclaredInType
<1>5. writer # None
  BY WriterAssumption
<1>6. sessions' = sessions \/ sessions' = [sessions EXCEPT ![b.sid] = writer]
  BY <1>2, <1>4
<1>7. SessionsAlike /\ sessions' \in [Sids -> WriterType \cup {None}]
  BY <1>1, <1>2, <1>3, <1>4, <1>5, <1>6 DEF SessionsAlike
<1> QED BY <1>1, <1>2, <1>7, BlockStep

LEMMA BeginSessionStep ==
    ASSUME WriterInv, NEW s \in Sids, NEW mode \in Modes, BeginSession(s, mode)
    PROVE  WriterInv'
<1> DEFINE b == [kind |-> "session", sid |-> s]
<1>1. s \in Sids /\ b \in Blocks /\ b.kind # "record" /\ b.kind # "end"
  BY WriterAssumption DEF Blocks
<1>2. /\ Emit(b)
      /\ sessions[s] = None /\ call = Idle
      /\ UNCHANGED <<closed, call, mergeVars, history>>
  BY DEF BeginSession, MayCall
<1>3. CASE ~ Emits(b)
  <2>1. UNCHANGED <<sessions, linearizing>>
    BY <1>3 DEF BeginSession
  <2>2. SessionsAlike /\ sessions' \in [Sids -> WriterType \cup {None}]
    BY <2>1 DEF SessionsAlike, WriterInv, WritersKnown
  <2> QED BY <1>1, <1>2, <2>1, <2>2, BlockStep
<1>4. CASE Emits(b)
  <2>1. PICK writer \in WriterType : /\ writer = NewSession(mode)
                                     /\ writer.pending = NoStreams
                                     /\ writer.linearize = mode.linearize
    BY NewSessionType
  <2>2. writer # None
    BY WriterAssumption
  <2>3. /\ sessions' = [sessions EXCEPT ![s] = writer]
        /\ linearizing' = IF writer.linearize THEN Append(linearizing, s) ELSE linearizing
    BY <1>4, <2>1 DEF BeginSession
  <2>4. sessions \in [Sids -> WriterType \cup {None}]
    BY DEF WriterInv, WritersKnown
  <2>5. /\ sessions' \in [Sids -> WriterType \cup {None}]
        /\ sessions'[s] = writer /\ \A r \in Sids \ {s} : sessions'[r] = sessions[r]
    BY <1>1, <2>3, <2>4
  <2>6. KeptAlike
    BY <1>1, <1>2, NoRecordWritten DEF WriterInv
  <2>7. /\ file' \in Seq(Blocks) /\ file' # << >> /\ ~ Complete' /\ ~ closed
    BY <1>1, <1>2, <1>4, FileGrows DEF WriterInv
  <2>8. \A p \in Pair : NoStreams[p] = << >> /\ << >> \in Seq(Sent[s][p])
    BY DEF NoStreams
  <2>9. CallKnown'
    <3>1. call.left = << >> /\ call.step = "none" /\ call.op = "none"
      BY <1>2 DEF Idle
    <3> QED BY <1>2, <3>1 DEF WriterInv, CallKnown
  <2>10. FlushKnown'
    <3>1. FlushKnown
      BY DEF WriterInv
    <3>2. CASE ~ writer.linearize
      BY <1>1, <1>2, <2>2, <2>3, <2>5, <3>1, <3>2 DEF FlushKnown
    <3>3. CASE writer.linearize
      <4>1. linearizing' = Append(linearizing, s)
        BY <2>3, <3>3
      <4>2. /\ linearizing' \in Seq(Sids)
            /\ \A i \in DOMAIN linearizing : i \in DOMAIN linearizing' /\ linearizing'[i] = linearizing[i]
            /\ \A i \in DOMAIN linearizing' : i \in DOMAIN linearizing \/ linearizing'[i] = s
            /\ \E i \in DOMAIN linearizing' : linearizing'[i] = s
        BY <1>1, <3>1, <4>1 DEF FlushKnown
      <4>3. \A i \in DOMAIN linearizing' : sessions'[linearizing'[i]] # None
        BY <2>2, <2>5, <3>1, <4>2 DEF FlushKnown
      <4>4. \A r \in Sids : sessions'[r] # None /\ sessions'[r].linearize =>
              \E i \in DOMAIN linearizing' : linearizing'[i] = r
        BY <2>5, <3>1, <4>2 DEF FlushKnown
      <4> QED BY <4>2, <4>3, <4>4 DEF FlushKnown
    <3> QED BY <3>2, <3>3
  <2>11. WritersKnown'
    <3>1. \A r \in Sids : sessions'[r] # None =>
            /\ \A p \in Pair : sessions'[r].pending[p] \in Seq(Sent[r][p])
            /\ ~ sessions'[r].linearize => sessions'[r].pending = NoStreams
      <4> TAKE r \in Sids
      <4>1. CASE r = s
        BY <2>1, <2>5, <2>8, <4>1
      <4>2. CASE r # s
        <5>1. sessions'[r] = sessions[r]
          BY <2>5, <4>2
        <5> QED BY <5>1 DEF WriterInv, WritersKnown
      <4> QED BY <4>1, <4>2
    <3>2. \A r \in Sids : sessions'[r] = None =>
            /\ accepted'[r] = << >> /\ late'[r] = 0 /\ rejected'[r] = 0
            /\ Kept(file', SentIn[r]) = << >>
            /\ \A p \in Pids : Kept(file', Sent[r][p]) = << >>
      BY <1>2, <2>2, <2>5, <2>6 DEF WriterInv, WritersKnown, KeptAlike, history
    <3> QED BY <2>5, <3>1, <3>2 DEF WritersKnown
  <2>12. MergeKnown' /\ \A r, p : InFlight(r, p)' = InFlight(r, p)
    BY <1>2, MergeStays DEF WriterInv
  <2>13. HistoryKnown'
    BY <1>2, <2>7, HistoryStays DEF WriterInv, HistoryKnown, history
  <2>14. ASSUME NEW r \in Sids \ Spoiled'
         PROVE  Conserved(r)'
    <3>1. r \in Sids \ Spoiled
      BY <1>2 DEF Spoiled, history
    <3>2. \A p : InFlight(r, p)' = << >> /\ InFlight(r, p) = << >>
      BY <1>2, <2>12 DEF InFlight, Idle
    <3>3. CASE r # s
      <4>1. \A p \in Pair : Out(r, p)' = Out(r, p)
        BY <2>5, <3>1, <3>2, <3>3 DEF Out
      <4>2. sessions'[r] = sessions[r] /\ accepted'[r] = accepted[r] /\ rejected'[r] = rejected[r]
        BY <1>2, <2>5, <3>3 DEF history
      <4>3. Conserved(r)
        BY <3>1 DEF WriterInv
      <4> QED BY <2>6, <4>1, <4>2, <4>3 DEF Conserved, KeptAlike
    <3>4. CASE r = s
      <4>1. \A p \in Pair : Out(s, p)' = << >>
        BY <2>1, <2>5, <2>8, <3>2, <3>4 DEF Out
      <4>2. /\ accepted'[s] = << >> /\ rejected'[s] = 0
            /\ Kept(file', SentIn[s]) = << >>
            /\ \A p \in Pids : Kept(file', Sent[s][p]) = << >>
        BY <1>1, <1>2, <2>6 DEF WriterInv, WritersKnown, KeptAlike, history
      <4>3. \A p \in Pids : Kept(<< >>, Sent[s][p]) = << >>
        BY KeptOfNone
      <4>4. \A p \in Pids :
              Kept(accepted'[s], Sent[s][p]) =
                Kept(file', Sent[s][p]) \o (IF p \in Pair THEN Out(s, p)' ELSE << >>)
        <5> TAKE p \in Pids
        <5>1. (IF p \in Pair THEN Out(s, p)' ELSE << >>) = << >>
          BY <4>1
        <5>2. << >> \o << >> = << >>
          OBVIOUS
        <5>3. Kept(accepted'[s], Sent[s][p]) = << >> /\ Kept(file', Sent[s][p]) = << >>
          BY <4>2, <4>3
        <5> QED BY <5>1, <5>2, <5>3, Zenon
      <4>5. \A a, c \in Pair : a # c =>
              Len(accepted'[s]) = Len(Kept(file', SentIn[s])) + Len(Out(s, a)') + Len(Out(s, c)')
        BY <4>1, <4>2
      <4> QED BY <3>4, <4>2, <4>4, <4>5 DEF Conserved
    <3> QED BY <3>3, <3>4
  <2>15. CleanFileIsWhole'
    BY <2>7 DEF CleanFileIsWhole
  <2> QED BY <2>9, <2>10, <2>11, <2>12, <2>13, <2>14, <2>15 DEF WriterInv
<1> QED BY <1>3, <1>4

-------------------------------------------------------------------------------
(* The calls that take a record *)

\* Two senders, no more and no less.
LEMMA PairIsTwo ==
    /\ Pair # {}
    /\ \A p \in Pair : \E q \in Pair : q # p
    /\ \A a, b, p \in Pair : a # b => p = a \/ p = b
<1>1. Pair \subseteq Pids /\ Cardinality(Pair) = 2 /\ IsFiniteSet(Pair)
  BY WriterAssumption, PidsAssumption, FS_Subset
<1>2. ASSUME NEW p \in Pair, \A q \in Pair : q = p
      PROVE  FALSE
  <2>1. Pair = {p}
    BY <1>2
  <2> QED BY <1>1, <2>1, FS_Singleton
<1>3. ASSUME NEW a \in Pair, NEW b \in Pair, NEW p \in Pair, a # b, p # a, p # b
      PROVE  FALSE
  <2>1. IsFiniteSet({a}) /\ Cardinality({a}) = 1
    BY FS_Singleton
  <2>2. IsFiniteSet({a} \cup {b}) /\ Cardinality({a} \cup {b}) = 2
    BY <1>3, <2>1, FS_AddElement
  <2>3. Cardinality(({a} \cup {b}) \cup {p}) = Cardinality({a} \cup {b}) + 1
    <3>1. p \notin {a} \cup {b}
      BY <1>3
    <3> QED BY <2>2, <3>1, FS_AddElement
  <2>4. Cardinality(({a} \cup {b}) \cup {p}) <= Cardinality(Pair)
    BY <1>1, FS_Subset
  <2> QED BY <1>1, <2>2, <2>3, <2>4
<1>4. Pair # {}
  BY <1>1, FS_EmptySet
<1> QED BY <1>2, <1>3, <1>4

\* What is held of a participant is a sequence of what it sent.
LEMMA HeldType ==
    ASSUME WriterInv, NEW s \in Sids, NEW p \in Pair
    PROVE  /\ InFlight(s, p) \in Seq(Sent[s][p])
           /\ sessions[s] # None => /\ sessions[s].pending[p] \in Seq(Sent[s][p])
                                    /\ Out(s, p) \in Seq(Sent[s][p])
<1>1. InFlight(s, p) \in Seq(Sent[s][p])
  <2>1. CASE ~ (call.step = "merge" /\ Head(call.left) = s)
    <3>1. << >> \in Seq(Sent[s][p])
      OBVIOUS
    <3> QED BY <2>1, <3>1, Zenon DEF InFlight
  <2>2. CASE call.step = "merge" /\ Head(call.left) = s
    <3>1. streams[p] \in Seq(Sent[s][p]) /\ HeadInStream(p)
      BY <2>2 DEF WriterInv, MergeKnown
    <3>2. PICK k \in 1 .. Len(streams[p]) + 1 : Held(p) = SubSeq(streams[p], k, Len(streams[p]))
      <4>1. Len(streams[p]) \in Nat /\ frontier[p].loaded \in Nat
        BY <3>1 DEF HeadInStream
      <4>2. CASE frontier[p].head = None
        BY <3>1, <4>1, <4>2 DEF Held, HeadInStream
      <4>3. CASE frontier[p].head # None
        BY <3>1, <4>1, <4>3 DEF Held, HeadInStream
      <4> QED BY <4>2, <4>3
    <3>3. Held(p) \in Seq(Sent[s][p])
      BY <3>1, <3>2, RestEnds
    <3> QED BY <2>2, <3>3 DEF InFlight
  <2> QED BY <2>1, <2>2
<1>2. sessions[s] # None => sessions[s].pending[p] \in Seq(Sent[s][p])
  BY DEF WriterInv, WritersKnown
<1>3. sessions[s] # None => InFlight(s, p) \o sessions[s].pending[p] \in Seq(Sent[s][p])
  BY <1>1, <1>2, ConcatType
<1> QED BY <1>2, <1>1, <1>3, Zenon DEF Out

\* What the records of one more block are.
LEMMA KeptOneMore ==
    ASSUME NEW T, NEW s \in Seq(T), NEW b \in Producer.records, b \in T
    PROVE  /\ Kept(Append(s, b), SentIn[b.sid]) = Append(Kept(s, SentIn[b.sid]), b)
           /\ Kept(Append(s, b), Sent[b.sid][b.pid]) = Append(Kept(s, Sent[b.sid][b.pid]), b)
           /\ Len(Kept(Append(s, b), SentIn[b.sid])) = Len(Kept(s, SentIn[b.sid])) + 1
           /\ \A r \in Sids : r # b.sid => Kept(Append(s, b), SentIn[r]) = Kept(s, SentIn[r])
           /\ \A r \in Sids, p \in Pids : r # b.sid \/ p # b.pid =>
                 Kept(Append(s, b), Sent[r][p]) = Kept(s, Sent[r][p])
<1>1. \A S : Kept(Append(s, b), S) = IF b \in S THEN Append(Kept(s, S), b) ELSE Kept(s, S)
  BY KeptAppended
<1>2. Kept(s, SentIn[b.sid]) \in Seq(T)
  BY KeptType
<1>3. Len(Append(Kept(s, SentIn[b.sid]), b)) = Len(Kept(s, SentIn[b.sid])) + 1
  BY <1>2
<1> QED BY <1>1, <1>3, SentType

LEMMA BufferStep ==
    ASSUME WriterInv, NEW b \in Producer.records, Buffer(b)
    PROVE  WriterInv'
<1> DEFINE s == b.sid
           p == b.pid
<1>1. /\ s \in Sids /\ p \in Pair /\ p \in Pids /\ b \in SentIn[s] /\ b \in Sent[s][p] /\ b # None
      /\ sessions[s] # None /\ sessions[s].linearize /\ call = Idle
      /\ sessions' = [sessions EXCEPT ![s].pending[p] = Append(@, b)]
      /\ accepted' = [accepted EXCEPT ![s] = Append(@, b)]
      /\ late' = IF closed THEN [late EXCEPT ![s] = @ + 1] ELSE late
      /\ UNCHANGED <<file, closed, linearizing, call, mergeVars, lost, rejected>>
  BY SentType DEF Buffer, MayCall, HasHandle
<1> HIDE DEF s, p
<1>2. /\ sessions \in [Sids -> WriterType \cup {None}] /\ sessions[s] \in WriterType
      /\ accepted \in [Sids -> Seq(Producer.records)] /\ accepted[s] \in Seq(Producer.records)
      /\ late \in [Sids -> Nat] /\ file \in Seq(Blocks)
  BY <1>1 DEF WriterInv, WritersKnown, HistoryKnown
<1>3. PICK pending \in [Pair -> Seq(Producer.records)] :
        pending = [sessions[s].pending EXCEPT ![p] = Append(@, b)]
  <2>1. sessions[s].pending \in [Pair -> Seq(Producer.records)]
    BY <1>2 DEF WriterType
  <2>2. sessions[s].pending[p] \in Seq(Producer.records)
    BY <1>1, <2>1
  <2>3. Append(sessions[s].pending[p], b) \in Seq(Producer.records)
    BY <2>2, AppendType
  <2> QED BY <1>1, <2>1, <2>3
<1>4. PICK writer \in WriterType : /\ writer = [sessions[s] EXCEPT !.pending = pending]
                                   /\ writer.pending = pending /\ writer.linearize
  <2>1. PICK writer \in WriterType : /\ writer = [sessions[s] EXCEPT !.pending = pending]
                                     /\ writer.pending = pending
                                     /\ writer.linearize = sessions[s].linearize
    BY <1>2, BufferType
  <2> QED BY <1>1, <2>1
<1>5. writer # None
  BY WriterAssumption
<1>6. /\ sessions' = [sessions EXCEPT ![s] = writer]
      /\ sessions' \in [Sids -> WriterType \cup {None}] /\ sessions'[s] = writer
      /\ \A r \in Sids \ {s} : sessions'[r] = sessions[r]
  BY <1>1, <1>2, <1>3, <1>4
<1>7. /\ accepted' \in [Sids -> Seq(Producer.records)] /\ accepted'[s] = Append(accepted[s], b)
      /\ \A r \in Sids \ {s} : accepted'[r] = accepted[r]
  <2>1. Append(accepted[s], b) \in Seq(Producer.records)
    BY <1>2, AppendType
  <2> QED BY <1>1, <1>2, <2>1
<1>8. /\ late' \in [Sids -> Nat] /\ \A r \in Sids \ {s} : late'[r] = late[r]
      /\ late'[s] = IF closed THEN late[s] + 1 ELSE late[s]
  BY <1>1, <1>2
<1>9. /\ pending[p] = Append(sessions[s].pending[p], b)
      /\ \A q \in Pair \ {p} : pending[q] = sessions[s].pending[q]
  BY <1>1, <1>2, <1>3 DEF WriterType
<1>10. CallKnown'
  <2>1. call.left = << >> /\ call.step = "none" /\ call.op = "none"
    BY <1>1 DEF Idle
  <2> QED BY <1>1, <2>1 DEF WriterInv, CallKnown
<1>11. FlushKnown'
  <2>1. \A r \in Sids : /\ sessions'[r] # None <=> sessions[r] # None
                        /\ sessions'[r] # None => (sessions'[r].linearize <=> sessions[r].linearize)
    BY <1>1, <1>4, <1>5, <1>6
  <2> QED BY <1>1, <2>1 DEF WriterInv, FlushKnown
<1>12. WritersKnown'
  <2>1. \A r \in Sids : sessions'[r] # None =>
          /\ \A q \in Pair : sessions'[r].pending[q] \in Seq(Sent[r][q])
          /\ ~ sessions'[r].linearize => sessions'[r].pending = NoStreams
    <3> TAKE r \in Sids
    <3>1. CASE r = s
      <4>1. \A q \in Pair : sessions[s].pending[q] \in Seq(Sent[s][q])
        BY <1>1 DEF WriterInv, WritersKnown
      <4>2. Append(sessions[s].pending[p], b) \in Seq(Sent[s][p])
        BY <1>1, <4>1, AppendType
      <4>3. \A q \in Pair : pending[q] \in Seq(Sent[s][q])
        BY <1>9, <4>1, <4>2
      <4>4. sessions'[r].pending = pending /\ sessions'[r].linearize
        BY <1>4, <1>6, <3>1
      <4> QED BY <3>1, <4>3, <4>4
    <3>2. CASE r # s
      <4>1. sessions'[r] = sessions[r]
        BY <1>6, <3>2
      <4> QED BY <4>1 DEF WriterInv, WritersKnown
    <3> QED BY <3>1, <3>2
  <2>2. \A r \in Sids : sessions'[r] = None =>
          /\ accepted'[r] = << >> /\ late'[r] = 0 /\ rejected'[r] = 0
          /\ Kept(file', SentIn[r]) = << >>
          /\ \A q \in Pids : Kept(file', Sent[r][q]) = << >>
    <3> SUFFICES ASSUME NEW r \in Sids, sessions'[r] = None
                 PROVE  /\ accepted'[r] = << >> /\ late'[r] = 0 /\ rejected'[r] = 0
                        /\ Kept(file', SentIn[r]) = << >>
                        /\ \A q \in Pids : Kept(file', Sent[r][q]) = << >>
      OBVIOUS
    <3>1. r # s /\ sessions[r] = None
      BY <1>5, <1>6
    <3> QED BY <1>1, <1>7, <1>8, <3>1 DEF WriterInv, WritersKnown
  <2> QED BY <1>6, <2>1, <2>2 DEF WritersKnown
<1>13. MergeKnown' /\ \A r, q : InFlight(r, q)' = << >> /\ InFlight(r, q) = << >>
  <2>1. call.step = "none" /\ call'.step = "none"
    BY <1>1 DEF Idle
  <2> QED BY <2>1 DEF MergeKnown, InFlight
<1>14. HistoryKnown'
  BY <1>1, <1>7, <1>8 DEF WriterInv, HistoryKnown, Complete
<1>15. ASSUME NEW r \in Sids \ Spoiled'
       PROVE  Conserved(r)'
  <2>1. r \in Sids \ Spoiled
    BY <1>1 DEF Spoiled
  <2>2. Conserved(r)
    BY <2>1 DEF WriterInv
  <2>3. CASE r # s
    <3>1. sessions'[r] = sessions[r] /\ accepted'[r] = accepted[r] /\ rejected'[r] = rejected[r]
      BY <1>1, <1>6, <1>7, <2>3
    <3>2. \A q \in Pair : Out(r, q)' = Out(r, q)
      BY <1>13, <3>1 DEF Out
    <3> QED BY <1>1, <2>2, <3>1, <3>2 DEF Conserved
  <2>4. CASE r = s
    <3>1. \A q \in Pair : /\ Out(s, q) = InFlight(s, q) \o sessions[s].pending[q]
                          /\ Out(s, q)' = InFlight(s, q) \o pending[q]
      BY <1>4, <1>6, <1>13 DEF Out
    <3>2. /\ Append(Kept(file, Sent[s][p]) \o Out(s, p), b) = Kept(file, Sent[s][p]) \o Out(s, p)'
          /\ Len(Out(s, p)') = Len(Out(s, p)) + 1
      <4>1. /\ Kept(file, Sent[s][p]) \in Seq(Blocks)
            /\ InFlight(s, p) \in Seq(Blocks)
            /\ sessions[s].pending[p] \in Seq(Blocks)
            /\ b \in Blocks
        <5>1. Kept(file, Sent[s][p]) \in Seq(Blocks)
          BY <1>2, KeptType
        <5>2. sessions[s].pending[p] \in Seq(Blocks)
          BY <1>1, <1>2 DEF WriterType, Blocks
        <5>3. InFlight(s, p) = << >> /\ b \in Blocks
          BY <1>13, SentType
        <5> QED BY <5>1, <5>2, <5>3
      <4>2. /\ Append(Kept(file, Sent[s][p]) \o (InFlight(s, p) \o sessions[s].pending[p]), b)
               = Kept(file, Sent[s][p]) \o (InFlight(s, p) \o Append(sessions[s].pending[p], b))
            /\ Len(InFlight(s, p) \o Append(sessions[s].pending[p], b))
               = Len(InFlight(s, p) \o sessions[s].pending[p]) + 1
        <5>1. PICK x \in Seq(Blocks), y \in Seq(Blocks), z \in Seq(Blocks) :
                x = Kept(file, Sent[s][p]) /\ y = InFlight(s, p) /\ z = sessions[s].pending[p]
          BY <4>1, Zenon
        <5>2. /\ Append(x \o (y \o z), b) = x \o (y \o Append(z, b))
              /\ Len(y \o Append(z, b)) = Len(y \o z) + 1
          <6>1. b \in Blocks
            BY <4>1, Zenon
          <6> QED BY <6>1, EndGrows
        <5> QED BY <5>1, <5>2, Zenon
      <4> QED BY <1>1, <1>9, <3>1, <4>2
    <3>3. \A q \in Pair \ {p} : Out(s, q)' = Out(s, q)
      BY <1>9, <3>1
    <3>4. /\ Kept(accepted'[s], Sent[s][p]) = Append(Kept(accepted[s], Sent[s][p]), b)
          /\ \A q \in Pids \ {p} : Kept(accepted'[s], Sent[s][q]) = Kept(accepted[s], Sent[s][q])
      <4>1. /\ Kept(Append(accepted[s], b), Sent[s][p]) = Append(Kept(accepted[s], Sent[s][p]), b)
            /\ \A q \in Pids \ {p} :
                  Kept(Append(accepted[s], b), Sent[s][q]) = Kept(accepted[s], Sent[s][q])
        <5>1. /\ Kept(Append(accepted[s], b), Sent[b.sid][b.pid]) = Append(Kept(accepted[s], Sent[b.sid][b.pid]), b)
              /\ \A other \in Sids, q \in Pids : other # b.sid \/ q # b.pid =>
                    Kept(Append(accepted[s], b), Sent[other][q]) = Kept(accepted[s], Sent[other][q])
          BY <1>2, KeptOneMore
        <5>2. s = b.sid /\ p = b.pid
          BY DEF s, p
        <5> QED BY <1>1, <5>1, <5>2
      <4> QED BY <1>7, <4>1
    <3>5. \A q \in Pids : Kept(accepted'[s], Sent[s][q]) =
            Kept(file', Sent[s][q]) \o (IF q \in Pair THEN Out(s, q)' ELSE << >>)
      <4> TAKE q \in Pids
      <4>1. Kept(accepted[s], Sent[s][q]) =
              Kept(file, Sent[s][q]) \o (IF q \in Pair THEN Out(s, q) ELSE << >>)
        BY <1>1, <2>2, <2>4 DEF Conserved
      <4>2. CASE q = p
        BY <1>1, <3>2, <3>4, <4>1, <4>2
      <4>3. CASE q # p
        BY <1>1, <3>3, <3>4, <4>1, <4>3
      <4> QED BY <4>2, <4>3
    <3>6. \A a, c \in Pair : a # c =>
            Len(accepted'[s]) = Len(Kept(file', SentIn[s])) + Len(Out(s, a)') + Len(Out(s, c)')
      <4> SUFFICES ASSUME NEW a \in Pair, NEW c \in Pair, a # c
                   PROVE  Len(accepted'[s]) = Len(Kept(file', SentIn[s])) + Len(Out(s, a)') + Len(Out(s, c)')
        OBVIOUS
      <4>1. Len(accepted[s]) = Len(Kept(file, SentIn[s])) + Len(Out(s, a)) + Len(Out(s, c))
        BY <1>1, <2>2, <2>4 DEF Conserved
      <4>2. p = a \/ p = c
        BY <1>1, PairIsTwo
      <4>3. Len(accepted'[s]) = Len(accepted[s]) + 1
        BY <1>2, <1>7
      <4>4. /\ Len(Kept(file, SentIn[s])) \in Nat /\ Len(Out(s, a)) \in Nat /\ Len(Out(s, c)) \in Nat
        <5>1. Kept(file, SentIn[s]) \in Seq(Blocks)
          BY <1>2, KeptType
        <5>2. Out(s, a) \in Seq(Sent[s][a]) /\ Out(s, c) \in Seq(Sent[s][c])
          BY <1>1, HeldType
        <5> QED BY <5>1, <5>2
      <4>5. CASE p = a
        <5>1. Out(s, c)' = Out(s, c) /\ Len(Out(s, a)') = Len(Out(s, a)) + 1 /\ file' = file
          BY <1>1, <3>2, <3>3, <4>5
        <5> QED BY <4>1, <4>3, <4>4, <5>1
      <4>6. CASE p = c
        <5>1. Out(s, a)' = Out(s, a) /\ Len(Out(s, c)') = Len(Out(s, c)) + 1 /\ file' = file
          BY <1>1, <3>2, <3>3, <4>6
        <5> QED BY <4>1, <4>3, <4>4, <5>1
      <4> QED BY <4>2, <4>5, <4>6
    <3>7. rejected'[s] = 0
      BY <1>1, <2>2, <2>4 DEF Conserved
    <3> QED BY <2>4, <3>5, <3>6, <3>7 DEF Conserved
  <2> QED BY <2>3, <2>4
<1>16. CleanFileIsWhole'
  <2> SUFFICES ASSUME Complete', NEW r \in Sids \ lost'
               PROVE  Unwritten(r)' = 0
    BY DEF CleanFileIsWhole
  <2>1. Complete /\ closed /\ r \in Sids \ lost
    BY <1>1 DEF Complete, WriterInv, HistoryKnown
  <2>2. Unwritten(r) = 0
    BY <2>1 DEF WriterInv, CleanFileIsWhole
  <2>3. CASE r # s
    BY <1>1, <1>7, <1>8, <2>2, <2>3 DEF Unwritten
  <2>4. CASE r = s
    <3>1. Len(accepted'[s]) = Len(accepted[s]) + 1 /\ Len(accepted[s]) \in Nat
      BY <1>2, <1>7
    <3>2. late'[s] = late[s] + 1 /\ late[s] \in Nat /\ rejected'[s] = rejected[s] /\ rejected[s] \in Nat
      BY <1>1, <1>2, <1>8, <2>1 DEF WriterInv, HistoryKnown
    <3>3. Len(Kept(file, SentIn[s])) \in Nat
      <4>1. Kept(file, SentIn[s]) \in Seq(Blocks)
        BY <1>2, KeptType
      <4> QED BY <4>1
    <3> QED BY <1>1, <2>2, <2>4, <3>1, <3>2, <3>3 DEF Unwritten
  <2> QED BY <2>3, <2>4
<1> QED BY <1>10, <1>11, <1>12, <1>13, <1>14, <1>15, <1>16 DEF WriterInv

\* A call that leaves the file, the sessions and the history as they were, but for
\* the guards of a session.
LEMMA QuietStep ==
    ASSUME WriterInv, sessions' \in [Sids -> WriterType \cup {None}], SessionsAlike,
           UNCHANGED <<file, closed, linearizing, call, mergeVars, history>>
    PROVE  WriterInv'
<1>1. KeptAlike
  BY DEF KeptAlike
<1>2. CallKnown'
  BY CallStays DEF WriterInv
<1>3. FlushKnown'
  BY FlushStays DEF WriterInv
<1>4. WritersKnown'
  BY <1>1, WritersStay DEF WriterInv, history
<1>5. MergeKnown' /\ \A s, p : InFlight(s, p)' = InFlight(s, p)
  BY MergeStays DEF WriterInv
<1>6. HistoryKnown'
  BY DEF WriterInv, HistoryKnown, history, Complete
<1>7. \A s \in Sids \ Spoiled' : Conserved(s)'
  <2>1. Spoiled' = Spoiled
    BY DEF Spoiled, history
  <2> QED BY <1>1, <1>5, <2>1, ConservedStays DEF WriterInv, history
<1>8. CleanFileIsWhole'
  BY DEF WriterInv, CleanFileIsWhole, Unwritten, Complete, history
<1> QED BY <1>2, <1>3, <1>4, <1>5, <1>6, <1>7, <1>8 DEF WriterInv

\* A record that passes its session's guards and the checker is written, and one
\* that does not is not; the guards alone move.
LEMMA EmitRecordEffect ==
    ASSUME WriterInv, NEW b \in Producer.records, sessions[b.sid] # None, EmitRecord(b.sid, b)
    PROVE  /\ sessions' \in [Sids -> WriterType \cup {None}] /\ SessionsAlike
           /\ file' \in Seq(Blocks) /\ file' # << >>
           /\ RecordEmits(b.sid, b) => file' = Append(file, b) /\ ~ closed /\ ~ Complete'
           /\ ~ RecordEmits(b.sid, b) => UNCHANGED file
<1>1. b.sid \in Sids /\ b \in Blocks /\ b.kind = "record"
  BY SentType
<1>2. sessions \in [Sids -> WriterType \cup {None}] /\ sessions[b.sid] \in WriterType
  BY <1>1 DEF WriterInv, WritersKnown
<1>3. PICK writer \in WriterType : /\ writer = AfterRecord(sessions[b.sid], b)
                                   /\ writer.pending = sessions[b.sid].pending
                                   /\ writer.linearize = sessions[b.sid].linearize
  BY <1>2, AfterRecordType
<1>4. writer # None
  BY WriterAssumption
<1>5. sessions' = [sessions EXCEPT ![b.sid] = writer]
  BY <1>3 DEF EmitRecord
<1>6. sessions' \in [Sids -> WriterType \cup {None}] /\ SessionsAlike
  BY <1>1, <1>2, <1>3, <1>4, <1>5 DEF SessionsAlike
<1>7. CASE Stopped(sessions[b.sid], b)
  <2>1. UNCHANGED file /\ ~ RecordEmits(b.sid, b)
    BY <1>7 DEF EmitRecord, RecordEmits
  <2> QED BY <1>6, <2>1 DEF WriterInv, HistoryKnown
<1>8. CASE ~ Stopped(sessions[b.sid], b)
  <2>1. Emit(b) /\ (RecordEmits(b.sid, b) <=> Emits(b))
    BY <1>8 DEF EmitRecord, RecordEmits
  <2>2. HistoryKnown
    BY DEF WriterInv
  <2> QED BY <1>1, <1>6, <2>1, <2>2, FileGrows
<1> QED BY <1>7, <1>8

\* A record written takes nothing from another session.
LEMMA OthersConserved ==
    ASSUME NEW b \in Producer.records, NEW r \in Sids, r # b.sid, Conserved(r), SessionsAlike,
           file \in Seq(Blocks), file' = Append(file, b),
           accepted'[r] = accepted[r], rejected'[r] = rejected[r],
           \A p \in Pair : InFlight(r, p)' = InFlight(r, p)
    PROVE  Conserved(r)'
<1> SUFFICES ASSUME sessions'[r] # None
             PROVE  Conserved(r)'
  BY DEF Conserved
<1>1. sessions[r] # None
  BY DEF SessionsAlike
<1>2. \A p \in Pair : Out(r, p)' = Out(r, p)
  BY <1>1 DEF Out, SessionsAlike
<1>3. /\ Kept(file', SentIn[r]) = Kept(file, SentIn[r])
      /\ \A p \in Pids : Kept(file', Sent[r][p]) = Kept(file, Sent[r][p])
  <2>1. b \in Blocks
    BY SentType
  <2> QED BY <2>1, KeptOneMore
<1> QED BY <1>1, <1>2, <1>3 DEF Conserved

\* A session not begun has no record in the file, also behind one of another.
LEMMA WritersGrow ==
    ASSUME WritersKnown, sessions' \in [Sids -> WriterType \cup {None}], SessionsAlike,
           NEW b \in Producer.records, sessions[b.sid] # None,
           file \in Seq(Blocks), file' = Append(file, b),
           \A r \in Sids \ {b.sid} :
               accepted'[r] = accepted[r] /\ late'[r] = late[r] /\ rejected'[r] = rejected[r]
    PROVE  WritersKnown'
<1>1. \A s \in Sids : sessions'[s] # None =>
        /\ \A p \in Pair : sessions'[s].pending[p] \in Seq(Sent[s][p])
        /\ ~ sessions'[s].linearize => sessions'[s].pending = NoStreams
  BY DEF WritersKnown, SessionsAlike
<1>2. ASSUME NEW s \in Sids, sessions'[s] = None
      PROVE  /\ accepted'[s] = << >> /\ late'[s] = 0 /\ rejected'[s] = 0
             /\ Kept(file', SentIn[s]) = << >>
             /\ \A p \in Pids : Kept(file', Sent[s][p]) = << >>
  <2>1. sessions[s] = None /\ s # b.sid
    BY <1>2 DEF SessionsAlike
  <2>2. /\ Kept(file', SentIn[s]) = Kept(file, SentIn[s])
        /\ \A p \in Pids : Kept(file', Sent[s][p]) = Kept(file, Sent[s][p])
    <3>1. b \in Blocks
      BY SentType
    <3> QED BY <2>1, <3>1, KeptOneMore
  <2> QED BY <2>1, <2>2 DEF WritersKnown
<1> QED BY <1>1, <1>2 DEF WritersKnown

LEMMA RecordStep ==
    ASSUME WriterInv, NEW b \in Producer.records, Record(b)
    PROVE  WriterInv'
<1> DEFINE s == b.sid
           p == b.pid
<1>1. /\ s \in Sids /\ p \in Pids /\ b \in SentIn[s] /\ b \in Sent[s][p] /\ b \in Blocks
      /\ sessions[s] # None /\ ~ sessions[s].linearize /\ call = Idle
      /\ EmitRecord(s, b)
      /\ accepted' = IF RecordEmits(s, b) THEN [accepted EXCEPT ![s] = Append(@, b)] ELSE accepted
      /\ UNCHANGED <<closed, linearizing, call, mergeVars, late, lost, rejected>>
  BY SentType DEF Record, MayCall, HasHandle
<1>2. /\ sessions' \in [Sids -> WriterType \cup {None}] /\ SessionsAlike
      /\ file' \in Seq(Blocks) /\ file' # << >>
      /\ RecordEmits(s, b) => file' = Append(file, b) /\ ~ closed /\ ~ Complete'
      /\ ~ RecordEmits(s, b) => UNCHANGED file
  BY <1>1, EmitRecordEffect
<1>3. CASE ~ RecordEmits(s, b)
  BY <1>1, <1>2, <1>3, QuietStep DEF history
<1>4. CASE RecordEmits(s, b)
  <2>1. file' = Append(file, b) /\ ~ closed /\ ~ Complete'
    BY <1>2, <1>4
  <2>2. accepted' = [accepted EXCEPT ![s] = Append(@, b)]
    BY <1>1, <1>4
  <2> HIDE DEF s, p
  <2>3. /\ accepted \in [Sids -> Seq(Producer.records)] /\ accepted[s] \in Seq(Producer.records)
        /\ file \in Seq(Blocks)
    BY <1>1 DEF WriterInv, HistoryKnown
  <2>4. /\ accepted' \in [Sids -> Seq(Producer.records)] /\ accepted'[s] = Append(accepted[s], b)
        /\ \A r \in Sids \ {s} : accepted'[r] = accepted[r]
    <3>1. Append(accepted[s], b) \in Seq(Producer.records)
      BY <2>3, AppendType
    <3> QED BY <1>1, <2>2, <2>3, <3>1
  <2>5. CallKnown'
    BY <1>1, <1>2, CallStays DEF WriterInv
  <2>6. FlushKnown'
    BY <1>1, <1>2, FlushStays DEF WriterInv
  <2>7. WritersKnown'
    BY <1>1, <1>2, <2>1, <2>3, <2>4, WritersGrow DEF WriterInv, s
  <2>8. MergeKnown' /\ \A r, q : InFlight(r, q)' = << >> /\ InFlight(r, q) = << >>
    <3>1. call.step = "none" /\ call'.step = "none"
      BY <1>1 DEF Idle
    <3> QED BY <3>1 DEF MergeKnown, InFlight
  <2>9. HistoryKnown'
    BY <1>1, <1>2, <2>1, <2>4 DEF WriterInv, HistoryKnown
  <2>10. ASSUME NEW r \in Sids \ Spoiled'
         PROVE  Conserved(r)'
    <3>1. r \in Sids \ Spoiled
      BY <1>1 DEF Spoiled
    <3>2. Conserved(r)
      BY <3>1 DEF WriterInv
    <3>3. CASE r # s
      BY <1>1, <1>2, <2>1, <2>3, <2>4, <2>8, <3>2, <3>3, OthersConserved DEF s
    <3>4. CASE r = s
      <4>1. \A q \in Pair : Out(s, q) = << >> /\ Out(s, q)' = << >>
        <5>1. sessions[s].pending = NoStreams /\ sessions'[s].pending = NoStreams
          BY <1>1, <1>2 DEF WriterInv, WritersKnown, SessionsAlike
        <5>2. << >> \o << >> = << >>
          OBVIOUS
        <5> QED BY <2>8, <5>1, <5>2 DEF Out, NoStreams
      <4>2. /\ Kept(accepted'[s], Sent[s][p]) = Append(Kept(accepted[s], Sent[s][p]), b)
            /\ Kept(file', Sent[s][p]) = Append(Kept(file, Sent[s][p]), b)
            /\ Len(Kept(file', SentIn[s])) = Len(Kept(file, SentIn[s])) + 1
            /\ \A q \in Pids \ {p} : /\ Kept(accepted'[s], Sent[s][q]) = Kept(accepted[s], Sent[s][q])
                                     /\ Kept(file', Sent[s][q]) = Kept(file, Sent[s][q])
        <5>1. /\ Kept(accepted'[s], Sent[b.sid][b.pid]) = Append(Kept(accepted[s], Sent[b.sid][b.pid]), b)
              /\ \A other \in Sids, q \in Pids : other # b.sid \/ q # b.pid =>
                    Kept(accepted'[s], Sent[other][q]) = Kept(accepted[s], Sent[other][q])
          <6>1. /\ Kept(Append(accepted[s], b), Sent[b.sid][b.pid]) =
                      Append(Kept(accepted[s], Sent[b.sid][b.pid]), b)
                /\ \A other \in Sids, q \in Pids : other # b.sid \/ q # b.pid =>
                      Kept(Append(accepted[s], b), Sent[other][q]) = Kept(accepted[s], Sent[other][q])
            BY <2>3, KeptOneMore
          <6> QED BY <2>4, <6>1
        <5>2. /\ Kept(file', Sent[b.sid][b.pid]) = Append(Kept(file, Sent[b.sid][b.pid]), b)
              /\ Len(Kept(file', SentIn[b.sid])) = Len(Kept(file, SentIn[b.sid])) + 1
              /\ \A other \in Sids, q \in Pids : other # b.sid \/ q # b.pid =>
                    Kept(file', Sent[other][q]) = Kept(file, Sent[other][q])
          BY <1>1, <2>1, <2>3, KeptOneMore
        <5>3. s = b.sid /\ p = b.pid
          BY DEF s, p
        <5> QED BY <1>1, <5>1, <5>2, <5>3
      <4>3. \A q \in Pids : Kept(file, Sent[s][q]) \in Seq(Blocks) /\ Kept(file', Sent[s][q]) \in Seq(Blocks)
        BY <1>2, <2>3, KeptType
      <4>4. \A q \in Pids : Kept(accepted[s], Sent[s][q]) = Kept(file, Sent[s][q])
        <5> TAKE q \in Pids
        <5>1. (IF q \in Pair THEN Out(s, q) ELSE << >>) = << >>
          BY <4>1
        <5>2. Kept(file, Sent[s][q]) \o << >> = Kept(file, Sent[s][q])
          BY <4>3
        <5>3. Kept(accepted[s], Sent[s][q]) =
                Kept(file, Sent[s][q]) \o (IF q \in Pair THEN Out(s, q) ELSE << >>)
          BY <1>1, <3>2, <3>4 DEF Conserved
        <5> QED BY <5>1, <5>2, <5>3, Zenon
      <4>5. \A q \in Pids : Kept(accepted'[s], Sent[s][q]) =
              Kept(file', Sent[s][q]) \o (IF q \in Pair THEN Out(s, q)' ELSE << >>)
        <5> TAKE q \in Pids
        <5>1. (IF q \in Pair THEN Out(s, q)' ELSE << >>) = << >>
          BY <4>1
        <5>2. Kept(file', Sent[s][q]) \o << >> = Kept(file', Sent[s][q])
          BY <4>3
        <5>3. Kept(accepted'[s], Sent[s][q]) = Kept(file', Sent[s][q])
          BY <4>2, <4>4
        <5> QED BY <5>1, <5>2, <5>3, Zenon
      <4>6. \A a, c \in Pair : a # c =>
              Len(accepted'[s]) = Len(Kept(file', SentIn[s])) + Len(Out(s, a)') + Len(Out(s, c)')
        <5>1. \A a, c \in Pair : a # c =>
                Len(accepted[s]) = Len(Kept(file, SentIn[s])) + Len(Out(s, a)) + Len(Out(s, c))
          BY <1>1, <3>2, <3>4 DEF Conserved
        <5>2. Len(accepted'[s]) = Len(accepted[s]) + 1 /\ Len(accepted[s]) \in Nat
          BY <2>3, <2>4, AppendType
        <5>3. Len(Kept(file, SentIn[s])) \in Nat
          <6>1. Kept(file, SentIn[s]) \in Seq(Blocks)
            BY <2>3, KeptType
          <6> QED BY <6>1
        <5>4. Len(<< >>) = 0
          OBVIOUS
        <5> QED BY <4>1, <4>2, <5>1, <5>2, <5>3, <5>4
      <4>7. rejected'[s] = 0
        BY <1>1, <3>2, <3>4 DEF Conserved
      <4> QED BY <3>4, <4>5, <4>6, <4>7 DEF Conserved
    <3> QED BY <3>3, <3>4
  <2>11. CleanFileIsWhole'
    BY <2>1 DEF CleanFileIsWhole
  <2> QED BY <2>5, <2>6, <2>7, <2>8, <2>9, <2>10, <2>11 DEF WriterInv
<1> QED BY <1>3, <1>4

-------------------------------------------------------------------------------
(* end() and close(): their beginning, their end, and a flush that raises *)

\* A step that moves the call or its merge and takes no record.
LEMMA MoveStep ==
    ASSUME WriterInv, CallKnown', MergeKnown', HistoryKnown', CleanFileIsWhole', KeptAlike,
           UNCHANGED <<sessions, linearizing, accepted, late, rejected>>,
           Spoiled \subseteq Spoiled',
           \A s \in Sids, p \in Pair : InFlight(s, p)' = InFlight(s, p)
    PROVE  WriterInv'
<1>1. SessionsAlike /\ sessions' \in [Sids -> WriterType \cup {None}]
  BY DEF SessionsAlike, WriterInv, WritersKnown
<1>2. FlushKnown'
  BY <1>1, FlushStays DEF WriterInv
<1>3. WritersKnown'
  BY <1>1, WritersStay DEF WriterInv
<1>4. ASSUME NEW s \in Sids \ Spoiled'
      PROVE  Conserved(s)'
  <2>1. Conserved(s)
    BY <1>4 DEF WriterInv
  <2> QED BY <1>1, <2>1, ConservedStays
<1> QED BY <1>2, <1>3, <1>4 DEF WriterInv

\* The same, with nothing written.
LEMMA SilentStep ==
    ASSUME WriterInv, CallKnown', MergeKnown',
           UNCHANGED <<file, closed, sessions, linearizing, accepted, late, rejected>>,
           Spoiled \subseteq Spoiled', lost \subseteq lost',
           \A s \in Sids, p \in Pair : InFlight(s, p)' = InFlight(s, p)
    PROVE  WriterInv'
<1>1. KeptAlike
  BY DEF KeptAlike
<1>2. HistoryKnown'
  BY DEF WriterInv, HistoryKnown, Complete
<1>3. CleanFileIsWhole'
  BY DEF WriterInv, CleanFileIsWhole, Unwritten, Complete
<1> QED BY <1>1, <1>2, <1>3, MoveStep

\* What is left of a list behind its head.
LEMMA TailKeeps ==
    ASSUME NEW left \in Seq(Sids), left # << >>
    PROVE  /\ Head(left) \in Sids /\ Tail(left) \in Seq(Sids)
           /\ \A i \in DOMAIN Tail(left) : i + 1 \in DOMAIN left /\ Tail(left)[i] = left[i + 1]
           /\ \A s \in Sids : s # Head(left) /\ (\E i \in DOMAIN left : left[i] = s) =>
                 \E i \in DOMAIN Tail(left) : Tail(left)[i] = s
<1>1. /\ Head(left) = left[1] /\ Tail(left) \in Seq(Sids) /\ Len(Tail(left)) = Len(left) - 1
      /\ \A i \in 1 .. Len(left) - 1 : Tail(left)[i] = left[i + 1]
      /\ DOMAIN left = 1 .. Len(left) /\ DOMAIN Tail(left) = 1 .. Len(left) - 1 /\ Len(left) \in Nat
      /\ 1 \in DOMAIN left
  OBVIOUS
<1>2. ASSUME NEW s \in Sids, s # Head(left), NEW i \in DOMAIN left, left[i] = s
      PROVE  \E j \in DOMAIN Tail(left) : Tail(left)[j] = s
  <2>1. i # 1 /\ i \in 1 .. Len(left)
    BY <1>1, <1>2
  <2>2. i - 1 \in DOMAIN Tail(left) /\ Tail(left)[i - 1] = left[(i - 1) + 1] /\ (i - 1) + 1 = i
    BY <1>1, <2>1
  <2> QED BY <1>2, <2>2
<1> QED BY <1>1, <1>2

LEMMA EndStep ==
    ASSUME WriterInv, NEW s \in Sids, NEW extents \in Seq(ExtentType), End(s, extents)
    PROVE  WriterInv'
<1>1. /\ call = Idle /\ sessions[s] # None
      /\ call' = [op |-> "end", sid |-> s, extents |-> extents, left |-> <<s>>, step |-> "flush"]
      /\ UNCHANGED <<file, closed, sessions, linearizing, mergeVars, accepted, late, lost, rejected>>
  BY DEF End, history
<1>2. <<s>> \in Seq(Sids) /\ \A i \in DOMAIN <<s>> : <<s>>[i] = s
  OBVIOUS
<1>3. CallKnown'
  BY <1>1, <1>2 DEF CallKnown
<1>4. MergeKnown' /\ \A r \in Sids, p \in Pair : InFlight(r, p)' = InFlight(r, p)
  <2>1. call.step # "merge" /\ call'.step # "merge"
    BY <1>1 DEF Idle
  <2> QED BY <2>1 DEF MergeKnown, InFlight
<1>5. Spoiled \subseteq Spoiled' /\ lost \subseteq lost'
  BY <1>1 DEF Spoiled, Idle
<1> QED BY <1>1, <1>3, <1>4, <1>5, SilentStep

LEMMA CloseStep ==
    ASSUME WriterInv, Close
    PROVE  WriterInv'
<1>1. /\ call = Idle /\ ~ closed
      /\ call' = [op |-> "close", sid |-> None, extents |-> << >>, left |-> linearizing, step |-> "flush"]
      /\ UNCHANGED <<file, closed, sessions, linearizing, mergeVars, accepted, late, lost, rejected>>
  BY DEF Close, history
<1>2. CallKnown'
  <2>1. FlushKnown /\ WritersKnown
    BY DEF WriterInv
  <2>2. \A s \in Sids : sessions[s] # None /\ sessions[s].pending # NoStreams =>
          \E i \in DOMAIN linearizing : linearizing[i] = s
    BY <2>1 DEF FlushKnown, WritersKnown
  <2> QED BY <1>1, <2>1, <2>2 DEF CallKnown, FlushKnown
<1>3. MergeKnown' /\ \A r \in Sids, p \in Pair : InFlight(r, p)' = InFlight(r, p)
  <2>1. call.step # "merge" /\ call'.step # "merge"
    BY <1>1 DEF Idle
  <2> QED BY <2>1 DEF MergeKnown, InFlight
<1>4. Spoiled \subseteq Spoiled' /\ lost \subseteq lost'
  BY <1>1 DEF Spoiled, Idle
<1> QED BY <1>1, <1>2, <1>3, <1>4, SilentStep

LEMMA AbandonStep ==
    ASSUME WriterInv, Abandon
    PROVE  WriterInv'
<1>1. /\ call = Idle /\ ~ closed /\ closed'
      /\ UNCHANGED <<file, sessions, linearizing, call, mergeVars, accepted, late, lost, rejected>>
  BY DEF Abandon, history
<1>2. closed' \in BOOLEAN
  BY DEF Abandon
<1>3. CallKnown'
  <2>1. call.op # "close"
    BY <1>1 DEF Idle
  <2> QED BY <1>1, <2>1 DEF WriterInv, CallKnown
<1>4. MergeKnown' /\ \A r, p : InFlight(r, p)' = InFlight(r, p)
  BY <1>1, MergeStays DEF WriterInv
<1>5. KeptAlike /\ Spoiled \subseteq Spoiled'
  BY <1>1 DEF KeptAlike, Spoiled
<1>6. HistoryKnown'
  BY <1>1, <1>2 DEF WriterInv, HistoryKnown, Complete
<1>7. CleanFileIsWhole'
  BY <1>1 DEF WriterInv, CleanFileIsWhole, HistoryKnown, Complete
<1> QED BY <1>1, <1>3, <1>4, <1>5, <1>6, <1>7, MoveStep

\* A block that close() of a stage writes: were it refused, the output is closed.
LEMMA FillStep ==
    ASSUME WriterInv, NEW b \in Fills, Emit(b), call = Idle, closed' \in BOOLEAN, closed => closed',
           UNCHANGED <<sessions, linearizing, call, mergeVars, history>>
    PROVE  WriterInv'
<1>1. b \in Blocks /\ b.kind # "record" /\ b.kind # "end"
  BY DEF Fills, Blocks
<1>2. KeptAlike
  BY <1>1, NoRecordWritten DEF WriterInv
<1>3. /\ file' \in Seq(Blocks) /\ file' # << >>
      /\ UNCHANGED file \/ ~ Complete'
  BY <1>1, FileGrows DEF WriterInv
<1>4. CallKnown'
  <2>1. call.op # "close" /\ call'.op # "close"
    BY DEF Idle
  <2> QED BY <2>1 DEF WriterInv, CallKnown
<1>5. MergeKnown' /\ \A s, p : InFlight(s, p)' = InFlight(s, p)
  BY MergeStays DEF WriterInv
<1>6. HistoryKnown'
  BY <1>3 DEF WriterInv, HistoryKnown, history, Complete
<1>7. CleanFileIsWhole'
  BY <1>2, <1>3 DEF WriterInv, CleanFileIsWhole, Unwritten, KeptAlike, Complete, history
<1>8. Spoiled' = Spoiled
  BY DEF Spoiled, history
<1> QED BY <1>2, <1>4, <1>5, <1>6, <1>7, <1>8, MoveStep DEF history

LEMMA SkipFlushStep ==
    ASSUME WriterInv, SkipFlush
    PROVE  WriterInv'
<1>1. /\ call.step = "flush" /\ call.left # << >>
      /\ sessions[Head(call.left)].pending = NoStreams
      /\ call' = [call EXCEPT !.left = Tail(@)]
      /\ UNCHANGED <<file, closed, sessions, linearizing, mergeVars, accepted, late, lost, rejected>>
  BY DEF SkipFlush, Flushing, PendingOf, history
<1>2. CallKnown
  BY DEF WriterInv
<1>3. PICK left \in Seq(Sids) : left = call.left
  BY <1>2 DEF CallKnown
<1>4. PICK rest \in Seq(Sids) :
        /\ rest = Tail(left)
        /\ \A i \in DOMAIN rest : i + 1 \in DOMAIN left /\ rest[i] = left[i + 1]
        /\ \A s \in Sids : s # Head(left) /\ (\E i \in DOMAIN left : left[i] = s) =>
              \E i \in DOMAIN rest : rest[i] = s
  BY <1>1, <1>3, TailKeeps
<1>5. call' = [call EXCEPT !.left = rest]
  BY <1>1, <1>3, <1>4
<1>6. CallKnown'
  <2>1. /\ call' \in [op : {"none", "end", "close"}, sid : Sids \cup {None}, extents : Seq(ExtentType),
                       left : Seq(Sids), step : {"none", "flush", "merge", "raise"}]
        /\ call'.left = rest /\ call'.op = call.op /\ call'.step = call.step
    BY <1>2, <1>5 DEF CallKnown
  <2>2. \A i \in DOMAIN rest : sessions[rest[i]] # None
    BY <1>2, <1>3, <1>4 DEF CallKnown
  <2>3. call.op = "close" =>
          /\ ~ closed
          /\ \A s \in Sids : sessions[s] # None /\ sessions[s].pending # NoStreams =>
                \E i \in DOMAIN rest : rest[i] = s
    BY <1>1, <1>2, <1>3, <1>4 DEF CallKnown
  <2> QED BY <1>1, <2>1, <2>2, <2>3 DEF CallKnown
<1>7. MergeKnown' /\ \A r \in Sids, p \in Pair : InFlight(r, p)' = InFlight(r, p)
  <2>1. call.step # "merge" /\ call'.step # "merge"
    BY <1>1, <1>2, <1>5 DEF CallKnown
  <2> QED BY <2>1 DEF MergeKnown, InFlight
<1>8. Spoiled \subseteq Spoiled' /\ lost \subseteq lost'
  BY <1>1, <1>2, <1>5 DEF Spoiled, CallKnown
<1> QED BY <1>1, <1>6, <1>7, <1>8, SilentStep

LEMMA FlushDoneStep ==
    ASSUME WriterInv, FlushDone
    PROVE  WriterInv'
<1>1. /\ call.step = "merge" /\ status = "done"
      /\ call' = [call EXCEPT !.step = "flush", !.left = Tail(@)]
      /\ UNCHANGED <<file, closed, sessions, linearizing, mergeVars, accepted, late, lost, rejected>>
  BY DEF FlushDone, history
<1>2. CallKnown /\ MergeKnown
  BY DEF WriterInv
<1>3. PICK left \in Seq(Sids) : left = call.left /\ left # << >>
  BY <1>1, <1>2 DEF CallKnown
<1>4. PICK rest \in Seq(Sids) :
        /\ rest = Tail(left)
        /\ \A i \in DOMAIN rest : i + 1 \in DOMAIN left /\ rest[i] = left[i + 1]
        /\ \A s \in Sids : s # Head(left) /\ (\E i \in DOMAIN left : left[i] = s) =>
              \E i \in DOMAIN rest : rest[i] = s
  BY <1>1, <1>3, TailKeeps
<1>5. call' = [call EXCEPT !.step = "flush", !.left = rest]
  BY <1>1, <1>3, <1>4
<1>6. /\ call' \in [op : {"none", "end", "close"}, sid : Sids \cup {None}, extents : Seq(ExtentType),
                    left : Seq(Sids), step : {"none", "flush", "merge", "raise"}]
      /\ call'.left = rest /\ call'.op = call.op /\ call'.step = "flush"
  BY <1>2, <1>5 DEF CallKnown
<1>7. CallKnown'
  <2>1. \A i \in DOMAIN rest : sessions[rest[i]] # None
    BY <1>2, <1>3, <1>4 DEF CallKnown
  <2>2. call.op = "close" =>
          /\ ~ closed
          /\ \A s \in Sids : sessions[s] # None /\ sessions[s].pending # NoStreams =>
                \E i \in DOMAIN rest : rest[i] = s
    BY <1>1, <1>2, <1>3, <1>4 DEF CallKnown
  <2> QED BY <1>1, <1>6, <2>1, <2>2 DEF CallKnown
<1>8. \A p \in Pair : Held(p) = << >>
  <2> TAKE p \in Pair
  <2>1. /\ streams[p] \in Seq(Sent[Head(call.left)][p]) /\ frontier[p].head = None
        /\ frontier[p].loaded = Len(streams[p])
    BY <1>1, <1>2 DEF MergeKnown, HeadInStream
  <2>2. Held(p) = SubSeq(streams[p], Len(streams[p]) + 1, Len(streams[p]))
    BY <2>1 DEF Held
  <2> QED BY <2>1, <2>2, RestEnds
<1>9. MergeKnown' /\ \A r \in Sids, p \in Pair : InFlight(r, p)' = InFlight(r, p)
  BY <1>6, <1>8 DEF MergeKnown, InFlight
<1>10. Spoiled \subseteq Spoiled' /\ lost \subseteq lost'
  BY <1>1, <1>6 DEF Spoiled
<1> QED BY <1>1, <1>7, <1>9, <1>10, SilentStep

LEMMA UnwindStep ==
    ASSUME WriterInv, Unwind
    PROVE  WriterInv'
<1>1. /\ call.step \in {"merge", "raise"}
      /\ call' = Idle /\ lost' = lost \cup {Head(call.left)}
      /\ UNCHANGED <<file, closed, sessions, linearizing, mergeVars, accepted, late, rejected>>
  BY DEF Unwind
<1>2. CallKnown'
  BY <1>1 DEF WriterInv, CallKnown, Idle
<1>3. MergeKnown'
  BY <1>1 DEF MergeKnown, Idle
<1>4. KeptAlike
  BY <1>1 DEF KeptAlike
<1>5. /\ SessionsAlike /\ sessions' \in [Sids -> WriterType \cup {None}]
  BY <1>1 DEF SessionsAlike, WriterInv, WritersKnown
<1>6. FlushKnown' /\ WritersKnown'
  BY <1>1, <1>4, <1>5, FlushStays, WritersStay DEF WriterInv
<1>7. HistoryKnown' /\ CleanFileIsWhole'
  BY <1>1 DEF WriterInv, HistoryKnown, CleanFileIsWhole, Unwritten, Complete
<1>8. ASSUME NEW s \in Sids \ Spoiled'
      PROVE  Conserved(s)'
  <2>1. s \in Sids \ Spoiled /\ s # Head(call.left)
    BY <1>1, <1>8 DEF Spoiled
  <2>2. \A p \in Pair : InFlight(s, p)' = InFlight(s, p)
    BY <1>1, <2>1 DEF InFlight, Idle
  <2>3. Conserved(s)
    BY <2>1 DEF WriterInv
  <2> QED BY <1>1, <1>4, <1>5, <2>2, <2>3, ConservedStays
<1> QED BY <1>2, <1>3, <1>6, <1>7, <1>8 DEF WriterInv

LEMMA EndSessionStep ==
    ASSUME WriterInv, EndSession
    PROVE  WriterInv'
<1> DEFINE b == SessionEndOf(call.sid, call.extents)
<1>1. /\ call.step = "flush" /\ Emit(b) /\ call' = Idle
      /\ UNCHANGED <<closed, sessions, linearizing, mergeVars, accepted, late, lost, rejected>>
  BY DEF EndSession, Flushed, history
<1>2. b \in Blocks /\ b.kind # "record" /\ b.kind # "end"
  BY DEF WriterInv, CallKnown, SessionEndOf, Blocks
<1> HIDE DEF b
<1>3. KeptAlike
  BY <1>1, <1>2, NoRecordWritten DEF WriterInv
<1>4. /\ file' \in Seq(Blocks) /\ file' # << >>
      /\ UNCHANGED file \/ ~ Complete'
  BY <1>1, <1>2, FileGrows DEF WriterInv
<1>5. CallKnown'
  BY <1>1 DEF WriterInv, CallKnown, Idle
<1>6. MergeKnown' /\ \A s \in Sids, p \in Pair : InFlight(s, p)' = InFlight(s, p)
  BY <1>1 DEF MergeKnown, InFlight, Idle
<1>7. HistoryKnown'
  BY <1>1, <1>4 DEF WriterInv, HistoryKnown, Complete
<1>8. CleanFileIsWhole'
  BY <1>1, <1>4 DEF WriterInv, CleanFileIsWhole, Unwritten, Complete
<1>9. Spoiled \subseteq Spoiled'
  BY <1>1 DEF Spoiled, Idle
<1> QED BY <1>1, <1>3, <1>5, <1>6, <1>7, <1>8, <1>9, MoveStep

\* The file is marked complete with every session flushed.
LEMMA EndFileStep ==
    ASSUME WriterInv, EndFile
    PROVE  WriterInv'
<1> DEFINE b == [kind |-> "end"]
<1>1. /\ call.op = "close" /\ call.step = "flush" /\ call.left = << >> /\ call' = Idle /\ closed' = TRUE
      /\ UNCHANGED <<sessions, linearizing, mergeVars, accepted, late, lost, rejected>>
  BY DEF EndFile, Flushed, history
<1>2. b \in Blocks /\ b.kind # "record"
  BY DEF Blocks
<1>3. ~ closed /\ ~ Complete
  BY <1>1 DEF WriterInv, CallKnown, HistoryKnown
<1>4. Emit(b)
  BY <1>3 DEF EndFile
<1> HIDE DEF b
<1>5. KeptAlike
  BY <1>2, <1>4, NoRecordWritten DEF WriterInv
<1>6. file' \in Seq(Blocks) /\ file' # << >>
  BY <1>2, <1>4, FileGrows DEF WriterInv
<1>7. CallKnown'
  BY <1>1 DEF WriterInv, CallKnown, Idle
<1>8. MergeKnown' /\ \A s \in Sids, p \in Pair : InFlight(s, p)' = << >> /\ InFlight(s, p) = << >>
  BY <1>1 DEF MergeKnown, InFlight, Idle
<1>9. HistoryKnown'
  BY <1>1, <1>3, <1>6 DEF WriterInv, HistoryKnown
<1>10. Spoiled \subseteq Spoiled'
  BY <1>1 DEF Spoiled, Idle
<1>11. CleanFileIsWhole'
  <2> SUFFICES ASSUME NEW s \in Sids \ lost'
               PROVE  Unwritten(s)' = 0
    BY DEF CleanFileIsWhole
  <2>1. s \in Sids \ Spoiled /\ late[s] = 0
    BY <1>1, <1>3 DEF Spoiled, WriterInv, HistoryKnown
  <2>2. CASE sessions[s] = None
    <3>1. accepted[s] = << >> /\ rejected[s] = 0 /\ Kept(file, SentIn[s]) = << >>
      BY <2>2 DEF WriterInv, WritersKnown
    <3> QED BY <1>1, <1>5, <2>1, <3>1 DEF Unwritten, KeptAlike
  <2>3. CASE sessions[s] # None
    <3>1. Conserved(s)
      BY <2>1 DEF WriterInv
    <3>2. PICK a \in Pair, c \in Pair : a # c
      BY PairIsTwo
    <3>3. sessions[s].pending = NoStreams
      BY <1>1, <2>3 DEF WriterInv, CallKnown
    <3>4. \A p \in Pair : Out(s, p) = << >>
      <4>1. << >> \o << >> = << >>
        OBVIOUS
      <4> QED BY <1>8, <3>3, <4>1 DEF Out, NoStreams
    <3>5. Len(accepted[s]) = Len(Kept(file, SentIn[s])) + Len(<< >>) + Len(<< >>) /\ rejected[s] = 0
      BY <2>3, <3>1, <3>2, <3>4 DEF Conserved
    <3>6. Len(Kept(file, SentIn[s])) \in Nat /\ Len(<< >>) = 0
      <4>1. Kept(file, SentIn[s]) \in Seq(Blocks)
        BY KeptType DEF WriterInv, HistoryKnown
      <4> QED BY <4>1
    <3> QED BY <1>1, <1>5, <2>1, <3>5, <3>6 DEF Unwritten, KeptAlike
  <2> QED BY <2>2, <2>3
<1> QED BY <1>1, <1>5, <1>7, <1>8, <1>9, <1>10, <1>11, MoveStep

-------------------------------------------------------------------------------
(* The flush of one session *)

\* The buffer of a session becomes the streams of its merge.
LEMMA StartFlushStep ==
    ASSUME WriterInv, StartFlush
    PROVE  WriterInv'
<1>1. CallKnown /\ FlushKnown /\ WritersKnown /\ HistoryKnown
  BY DEF WriterInv
<1>2. PICK s \in Sids : s = Head(call.left) /\ sessions[s] # None
  BY <1>1 DEF StartFlush, Flushing, CallKnown
<1>3. /\ call.step = "flush" /\ call.left # << >>
      /\ sessions' = [sessions EXCEPT ![s].pending = NoStreams]
      /\ streams' = sessions[s].pending
      /\ frontier' = [p \in Pair |-> Merge!NewFrontier(sessions[s].isn[p])]
      /\ status' = "priming"
      /\ call' = [call EXCEPT !.step = "merge"]
      /\ UNCHANGED <<file, closed, linearizing, accepted, late, lost, rejected>>
  BY <1>2 DEF StartFlush, Flushing, PendingOf, history
<1>4. /\ sessions \in [Sids -> WriterType \cup {None}] /\ sessions[s] \in WriterType
      /\ sessions[s].pending \in [Pair -> Seq(Producer.records)]
      /\ \A p \in Pair : sessions[s].pending[p] \in Seq(Sent[s][p])
  BY <1>1, <1>2 DEF WritersKnown, WriterType
<1>5. PICK writer \in WriterType : /\ writer = [sessions[s] EXCEPT !.pending = NoStreams]
                                   /\ writer.pending = NoStreams
                                   /\ writer.linearize = sessions[s].linearize
  <2>1. NoStreams \in [Pair -> Seq(Producer.records)]
    BY DEF NoStreams
  <2> QED BY <1>4, <2>1, BufferType
<1>6. writer # None
  BY WriterAssumption
<1>7. /\ sessions' = [sessions EXCEPT ![s] = writer]
      /\ sessions' \in [Sids -> WriterType \cup {None}] /\ sessions'[s] = writer
      /\ \A r \in Sids \ {s} : sessions'[r] = sessions[r]
  BY <1>3, <1>4, <1>5
<1>8. /\ call' \in [op : {"none", "end", "close"}, sid : Sids \cup {None}, extents : Seq(ExtentType),
                    left : Seq(Sids), step : {"none", "flush", "merge", "raise"}]
      /\ call'.left = call.left /\ call'.op = call.op /\ call'.step = "merge"
  BY <1>1, <1>3 DEF CallKnown
<1>9. \A p \in Pair : /\ {"loaded", "head"} \subseteq DOMAIN frontier'[p]
                      /\ frontier'[p].loaded = 0 /\ frontier'[p].head = None
  BY <1>3 DEF Merge!NewFrontier
<1>10. \A p \in Pair : /\ NoStreams[p] = << >> /\ << >> \in Seq(Sent[s][p])
  BY DEF NoStreams
<1>11. CallKnown'
  <2>1. \A i \in DOMAIN call.left : sessions'[call.left[i]] # None
    <3>1. \A i \in DOMAIN call.left : call.left[i] \in Sids /\ sessions[call.left[i]] # None
      BY <1>1 DEF CallKnown
    <3> QED BY <1>6, <1>7, <3>1
  <2>2. call.op = "close" =>
          /\ ~ closed
          /\ \A r \in Sids : sessions'[r] # None /\ sessions'[r].pending # NoStreams =>
                \E i \in DOMAIN call.left : call.left[i] = r
    BY <1>1, <1>5, <1>7 DEF CallKnown
  <2> QED BY <1>2, <1>3, <1>5, <1>7, <1>8, <2>1, <2>2 DEF CallKnown
<1>12. FlushKnown'
  <2>1. \A r \in Sids : /\ sessions'[r] # None <=> sessions[r] # None
                        /\ sessions'[r] # None => (sessions'[r].linearize <=> sessions[r].linearize)
    BY <1>2, <1>5, <1>6, <1>7
  <2> QED BY <1>1, <1>3, <2>1 DEF FlushKnown
<1>13. WritersKnown'
  <2>1. \A r \in Sids : sessions'[r] # None =>
          /\ \A p \in Pair : sessions'[r].pending[p] \in Seq(Sent[r][p])
          /\ ~ sessions'[r].linearize => sessions'[r].pending = NoStreams
    <3> TAKE r \in Sids
    <3>1. CASE r = s
      <4>1. \A p \in Pair : NoStreams[p] \in Seq(Sent[s][p])
        BY <1>10
      <4>2. sessions'[r].pending = NoStreams
        BY <1>5, <1>7, <3>1
      <4> QED BY <3>1, <4>1, <4>2
    <3>2. CASE r # s
      <4>1. sessions'[r] = sessions[r]
        BY <1>7, <3>2
      <4> QED BY <1>1, <4>1 DEF WritersKnown
    <3> QED BY <3>1, <3>2
  <2>2. \A r \in Sids : sessions'[r] = None =>
          /\ accepted'[r] = << >> /\ late'[r] = 0 /\ rejected'[r] = 0
          /\ Kept(file', SentIn[r]) = << >>
          /\ \A p \in Pids : Kept(file', Sent[r][p]) = << >>
    BY <1>1, <1>3, <1>6, <1>7 DEF WritersKnown
  <2> QED BY <1>7, <2>1, <2>2 DEF WritersKnown
<1>14. MergeKnown'
  <2>1. \A p \in Pair : HeadInStream(p)'
    <3> TAKE p \in Pair
    <3>1. Len(streams'[p]) \in Nat
      BY <1>3, <1>4
    <3> QED BY <1>3, <1>9, <3>1 DEF HeadInStream
  <2>2. DOMAIN frontier' = Pair /\ DOMAIN streams' = Pair
    BY <1>3, <1>4
  <2>3. \A p \in Pair : streams'[p] \in Seq(Sent[Head(call'.left)][p])
    BY <1>2, <1>3, <1>4, <1>8
  <2> QED BY <1>3, <2>1, <2>2, <2>3 DEF MergeKnown
<1>15. HistoryKnown'
  BY <1>1, <1>3 DEF HistoryKnown, Complete
<1>16. ASSUME NEW r \in Sids \ Spoiled'
       PROVE  Conserved(r)'
  <2>1. r \in Sids \ Spoiled
    BY <1>3, <1>8 DEF Spoiled
  <2>2. Conserved(r)
    BY <2>1 DEF WriterInv
  <2>3. CASE r # s
    <3>1. \A p \in Pair : Out(r, p)' = Out(r, p)
      BY <1>2, <1>3, <1>7, <1>8, <2>1, <2>3 DEF Out, InFlight
    <3>2. sessions'[r] = sessions[r]
      BY <1>7, <2>1, <2>3
    <3> QED BY <1>3, <2>2, <3>1, <3>2 DEF Conserved
  <2>4. CASE r = s
    <3>1. \A p \in Pair : Out(s, p)' = Out(s, p)
      <4> TAKE p \in Pair
      <4>1. Held(p)' = SubSeq(sessions[s].pending[p], 1, Len(sessions[s].pending[p]))
        BY <1>3, <1>9 DEF Held
      <4>2. Held(p)' = sessions[s].pending[p]
        BY <1>4, <4>1, RestEnds
      <4>3. InFlight(s, p)' = sessions[s].pending[p] /\ InFlight(s, p) = << >>
        BY <1>2, <1>3, <1>8, <4>2 DEF InFlight
      <4>4. sessions'[s].pending[p] = << >>
        BY <1>5, <1>7, <1>10
      <4>5. sessions[s].pending[p] \o << >> = << >> \o sessions[s].pending[p]
        BY <1>4
      <4> QED BY <4>3, <4>4, <4>5 DEF Out
    <3>2. /\ \A p \in Pids : Kept(accepted[s], Sent[s][p]) =
                Kept(file, Sent[s][p]) \o (IF p \in Pair THEN Out(s, p) ELSE << >>)
          /\ rejected[s] = 0
          /\ \A a, b \in Pair : a # b =>
                Len(accepted[s]) = Len(Kept(file, SentIn[s])) + Len(Out(s, a)) + Len(Out(s, b))
      BY <1>2, <2>2, <2>4 DEF Conserved
    <3>3. \A p \in Pids : Kept(accepted[s], Sent[s][p]) =
                Kept(file, Sent[s][p]) \o (IF p \in Pair THEN Out(s, p)' ELSE << >>)
      <4> TAKE p \in Pids
      <4>1. (IF p \in Pair THEN Out(s, p)' ELSE << >>) = (IF p \in Pair THEN Out(s, p) ELSE << >>)
        BY <3>1, Zenon
      <4> QED BY <3>2, <4>1, Zenon
    <3>4. \A a, b \in Pair : a # b =>
                Len(accepted[s]) = Len(Kept(file, SentIn[s])) + Len(Out(s, a)') + Len(Out(s, b)')
      BY <3>1, <3>2, Zenon
    <3> QED BY <1>3, <2>4, <3>2, <3>3, <3>4 DEF Conserved
  <2> QED BY <2>3, <2>4
<1>17. CleanFileIsWhole'
  BY <1>3 DEF WriterInv, CleanFileIsWhole, Unwritten, Complete
<1> QED BY <1>11, <1>12, <1>13, <1>14, <1>15, <1>16, <1>17 DEF WriterInv

\* advance() takes the next record of a stream for its head; what was not loaded
\* before is what the frontier has yet to yield.
LEMMA AdvanceMoves ==
    ASSUME NEW p \in Pair, streams[p] \in Seq(Producer.records),
           {"loaded", "head"} \subseteq DOMAIN frontier[p],
           frontier[p].loaded \in 0 .. Len(streams[p]), DOMAIN frontier = Pair,
           frontier' = [frontier EXCEPT ![p] = Merge!AdvancedTo(@, Merge!NextOf(@, streams[p]))],
           UNCHANGED streams
    PROVE  /\ DOMAIN frontier' = Pair
           /\ \A q \in Pair \ {p} : frontier'[q] = frontier[q]
           /\ {"loaded", "head"} \subseteq DOMAIN frontier'[p]
           /\ frontier'[p].loaded \in 0 .. Len(streams[p])
           /\ frontier'[p].head # None =>
                 frontier'[p].loaded > 0 /\ frontier'[p].head = streams[p][frontier'[p].loaded]
           /\ frontier'[p].head = None => frontier'[p].loaded = Len(streams[p])
           /\ Held(p)' = SubSeq(streams[p], frontier[p].loaded + 1, Len(streams[p]))
<1> DEFINE f == frontier[p]
           g == frontier'[p]
           st == streams[p]
<1>1. /\ DOMAIN frontier' = Pair /\ \A q \in Pair \ {p} : frontier'[q] = frontier[q]
      /\ g = Merge!AdvancedTo(f, Merge!NextOf(f, st))
  OBVIOUS
<1>2. Held(p)' = SubSeq(st, IF g.head = None THEN g.loaded + 1 ELSE g.loaded, Len(st))
  BY DEF Held
<1>3. st \in Seq(Producer.records) /\ {"loaded", "head"} \subseteq DOMAIN f /\ f.loaded \in 0 .. Len(st)
  OBVIOUS
<1> SUFFICES /\ {"loaded", "head"} \subseteq DOMAIN g
             /\ g.loaded \in 0 .. Len(st)
             /\ g.head # None => g.loaded > 0 /\ g.head = st[g.loaded]
             /\ g.head = None => g.loaded = Len(st)
             /\ (IF g.head = None THEN g.loaded + 1 ELSE g.loaded) = f.loaded + 1
  BY <1>1, <1>2, Zenon
<1> HIDE DEF f, g, st
<1>4. CASE f.loaded < Len(st)
  <2>1. PICK rec \in Producer.records : rec = st[f.loaded + 1] /\ rec # None
    BY <1>3, <1>4, SentType
  <2>2. Merge!NextOf(f, st) = rec
    BY <1>4, <2>1 DEF Merge!NextOf
  <2>3. g = Merge!Advanced(f, rec)
    BY <1>1, <2>1, <2>2 DEF Merge!AdvancedTo
  <2>4. {"loaded", "head"} \subseteq DOMAIN g /\ g.loaded = f.loaded + 1 /\ g.head = rec
    BY <2>3 DEF Merge!Advanced
  <2> QED BY <1>3, <1>4, <2>1, <2>4
<1>5. CASE f.loaded = Len(st)
  <2>1. g = Merge!Drained(f)
    BY <1>1, <1>5 DEF Merge!NextOf, Merge!AdvancedTo
  <2>2. {"loaded", "head"} \subseteq DOMAIN g /\ g.loaded = f.loaded /\ g.head = None
    BY <1>3, <2>1 DEF Merge!Drained
  <2> QED BY <1>3, <1>5, <2>2
<1> QED BY <1>3, <1>4, <1>5

\* The generator loads its heads, finishes or raises: it neither takes a record
\* nor gives one up.
LEMMA MergeRunsStep ==
    ASSUME WriterInv, MergeRuns
    PROVE  WriterInv'
<1>1. /\ call.step = "merge"
      /\ UNCHANGED <<file, closed, sessions, linearizing, call, accepted, late, lost, rejected>>
      /\ UNCHANGED streams
  BY DEF MergeRuns, history, Merge!Prime, Merge!Refuse, Merge!Begin, Merge!Stall, Merge!Finish
<1>2. CallKnown'
  BY <1>1 DEF WriterInv, CallKnown
<1>3. PICK s \in Sids : s = Head(call.left)
  BY <1>1 DEF WriterInv, CallKnown
<1>4. /\ DOMAIN frontier = Pair /\ DOMAIN streams = Pair
      /\ \A p \in Pair : streams[p] \in Seq(Sent[s][p]) /\ HeadInStream(p)
      /\ status = "done" => \A p \in Pair : frontier[p].head = None
  BY <1>1, <1>3 DEF WriterInv, MergeKnown
<1>5. Spoiled \subseteq Spoiled' /\ lost \subseteq lost'
  BY <1>1 DEF Spoiled
<1>6. SUFFICES /\ DOMAIN frontier' = Pair
               /\ \A p \in Pair : HeadInStream(p)' /\ Held(p)' = Held(p)
               /\ status' = "done" => \A p \in Pair : frontier'[p].head = None
  <2>1. MergeKnown'
    BY <1>1, <1>3, <1>4, <1>6 DEF MergeKnown
  <2>2. \A r \in Sids, p \in Pair : InFlight(r, p)' = InFlight(r, p)
    BY <1>1, <1>6 DEF InFlight
  <2> QED BY <1>1, <1>2, <1>5, <2>1, <2>2, SilentStep
<1>7. ASSUME NEW p \in Pair, Merge!Prime(p)
      PROVE  /\ DOMAIN frontier' = Pair
             /\ \A q \in Pair : HeadInStream(q)' /\ Held(q)' = Held(q)
             /\ status' = "done" => \A q \in Pair : frontier'[q].head = None
  <2>1. /\ status = "priming" /\ status' = status
        /\ ~ (frontier[p].loaded > 0)
        /\ frontier' = [frontier EXCEPT ![p] = Merge!AdvancedTo(@, Merge!NextOf(@, streams[p]))]
    BY <1>7 DEF Merge!Prime, Merge!Primed
  <2>2. streams[p] \in Seq(Producer.records)
    <3>1. Sent[s][p] \subseteq Producer.records
      BY <1>3, WriterAssumption DEF Sent, SentIn
    <3> QED BY <1>4, <3>1
  <2>3. /\ {"loaded", "head"} \subseteq DOMAIN frontier[p]
        /\ frontier[p].loaded \in 0 .. Len(streams[p])
        /\ frontier[p].loaded = 0 /\ frontier[p].head = None
    BY <1>4, <2>1 DEF HeadInStream
  <2>4. /\ DOMAIN frontier' = Pair
        /\ \A q \in Pair \ {p} : frontier'[q] = frontier[q]
        /\ {"loaded", "head"} \subseteq DOMAIN frontier'[p]
        /\ frontier'[p].loaded \in 0 .. Len(streams[p])
        /\ frontier'[p].head # None =>
              frontier'[p].loaded > 0 /\ frontier'[p].head = streams[p][frontier'[p].loaded]
        /\ frontier'[p].head = None => frontier'[p].loaded = Len(streams[p])
        /\ Held(p)' = SubSeq(streams[p], frontier[p].loaded + 1, Len(streams[p]))
    BY <1>1, <1>4, <2>1, <2>2, <2>3, AdvanceMoves
  <2>5. \A q \in Pair : HeadInStream(q)' /\ Held(q)' = Held(q)
    <3> TAKE q \in Pair
    <3>1. CASE q = p
      <4>1. HeadInStream(p)'
        BY <1>1, <2>4 DEF HeadInStream
      <4>2. Held(p) = SubSeq(streams[p], frontier[p].loaded + 1, Len(streams[p]))
        BY <2>3 DEF Held
      <4> QED BY <2>4, <3>1, <4>1, <4>2
    <3>2. CASE q # p
      BY <1>1, <1>4, <2>1, <2>4, <3>2 DEF HeadInStream, Held
    <3> QED BY <3>1, <3>2
  <2> QED BY <2>1, <2>4, <2>5
<1>8. CASE Merge!Begin
  <2>1. /\ status' = "merging" /\ UNCHANGED frontier
        /\ \A p \in Pair : frontier[p].loaded > 0 \/ Len(streams[p]) = 0
    BY <1>8 DEF Merge!Begin, Merge!Primed
  <2>2. ASSUME NEW p \in Pair
        PROVE  HeadInStream(p)' /\ Held(p)' = Held(p)
    <3>1. HeadInStream(p) /\ Len(streams[p]) \in Nat
      BY <1>4
    <3>2. frontier[p].head = None => frontier[p].loaded = Len(streams[p])
      BY <2>1, <3>1 DEF HeadInStream
    <3> QED BY <1>1, <2>1, <3>1, <3>2 DEF HeadInStream, Held
  <2> QED BY <1>4, <2>1, <2>2
<1>9. CASE Merge!Stall \/ Merge!Finish \/ \E p \in Pair : Merge!Refuse(p)
  <2>1. /\ status = "merging" /\ UNCHANGED frontier
        /\ status' = "done" => \A p \in Pair : frontier[p].head = None
    BY <1>9 DEF Merge!Stall, Merge!Finish, Merge!Refuse
  <2>2. \A p \in Pair : HeadInStream(p)' /\ Held(p)' = Held(p)
    BY <1>1, <1>4, <2>1 DEF HeadInStream, Held
  <2> QED BY <1>4, <2>1, <2>2
<1> QED BY <1>7, <1>8, <1>9 DEF MergeRuns

\* The record a merge yields is the first of those it holds of its participant,
\* and a record of the session that is flushed.
LEMMA HeadYielded ==
    ASSUME WriterInv, NEW p \in Pair, MergeYields(p)
    PROVE  /\ frontier[p].head \in Producer.records
           /\ frontier[p].head.sid = Head(call.left) /\ frontier[p].head.pid = p
           /\ Held(p) = <<frontier[p].head>> \o Held(p)'
           /\ HeadInStream(p)'
           /\ \A q \in Pair \ {p} : HeadInStream(q)' /\ Held(q)' = Held(q)
           /\ DOMAIN frontier' = Pair /\ UNCHANGED <<streams, status>> /\ status = "merging"
<1> DEFINE b == frontier[p].head
           st == streams[p]
<1>1. /\ call.step = "merge" /\ status = "merging" /\ Merge!IsBest(p)
      /\ frontier' = [frontier EXCEPT ![p] = Merge!AdvancedTo(@, Merge!NextOf(@, streams[p]))]
      /\ UNCHANGED <<streams, status>>
  BY DEF MergeYields, Merge!Emit
<1>2. PICK s \in Sids : s = Head(call.left)
  BY <1>1 DEF WriterInv, CallKnown
<1>3. /\ DOMAIN frontier = Pair
      /\ \A q \in Pair : streams[q] \in Seq(Sent[s][q]) /\ HeadInStream(q)
  BY <1>1, <1>2 DEF WriterInv, MergeKnown
<1>4. b # None
  <2>1. PICK peer \in Pair : peer # p
    BY PairIsTwo
  <2> QED BY <1>1, <2>1 DEF Merge!IsBest, Merge!Ready, Merge!PairReady
<1>5. /\ {"loaded", "head"} \subseteq DOMAIN frontier[p]
      /\ frontier[p].loaded \in 1 .. Len(st) /\ b = st[frontier[p].loaded]
  BY <1>3, <1>4 DEF HeadInStream
<1>6. /\ Sent[s][p] \subseteq Producer.records
      /\ \A x \in Sent[s][p] : x.sid = s /\ x.pid = p
  <2>1. p \in Pids
    BY WriterAssumption
  <2> QED BY <1>2, <2>1 DEF Sent, SentIn
<1>7. st \in Seq(Producer.records) /\ b \in Producer.records /\ b.sid = s /\ b.pid = p
  <2>1. b \in Sent[s][p]
    BY <1>3, <1>5
  <2> QED BY <1>3, <1>6, <2>1
<1>8. /\ DOMAIN frontier' = Pair
      /\ \A q \in Pair \ {p} : frontier'[q] = frontier[q]
      /\ {"loaded", "head"} \subseteq DOMAIN frontier'[p]
      /\ frontier'[p].loaded \in 0 .. Len(streams[p])
      /\ frontier'[p].head # None =>
            frontier'[p].loaded > 0 /\ frontier'[p].head = streams[p][frontier'[p].loaded]
      /\ frontier'[p].head = None => frontier'[p].loaded = Len(streams[p])
      /\ Held(p)' = SubSeq(streams[p], frontier[p].loaded + 1, Len(streams[p]))
  <2>1. frontier[p].loaded \in 0 .. Len(streams[p]) /\ {"loaded", "head"} \subseteq DOMAIN frontier[p]
    BY <1>3 DEF HeadInStream
  <2>2. streams[p] \in Seq(Producer.records)
    BY <1>7
  <2> QED BY <1>1, <1>3, <2>1, <2>2, AdvanceMoves
<1>9. HeadInStream(p)'
  BY <1>1, <1>8 DEF HeadInStream
<1>10. \A q \in Pair \ {p} : HeadInStream(q)' /\ Held(q)' = Held(q)
  BY <1>1, <1>3, <1>8 DEF HeadInStream, Held
<1>11. Held(p) = <<b>> \o Held(p)'
  <2>1. Held(p) = SubSeq(st, frontier[p].loaded, Len(st))
    BY <1>4 DEF Held
  <2>2. Len(st) \in frontier[p].loaded .. Len(st)
    BY <1>5, <1>7
  <2>3. SubSeq(st, frontier[p].loaded, Len(st)) =
          <<st[frontier[p].loaded]>> \o SubSeq(st, frontier[p].loaded + 1, Len(st))
    BY <1>5, <1>7, <2>2, SubSeqRecursiveFirst
  <2> QED BY <1>5, <1>8, <2>1, <2>3
<1> QED BY <1>1, <1>2, <1>7, <1>8, <1>9, <1>10, <1>11

\* The record is written: what the merge held of it, the file has.
LEMMA YieldWritten ==
    ASSUME WriterInv, NEW p \in Pair, MergeYields(p),
           RecordEmits(Head(call.left), frontier[p].head)
    PROVE  WriterInv'
<1> DEFINE b == frontier[p].head
<1>0. PICK s \in Sids : s = Head(call.left)
  BY DEF MergeYields, WriterInv, CallKnown
<1>1. /\ b \in Producer.records /\ b.sid = s /\ b.pid = p
      /\ Held(p) = <<b>> \o Held(p)'
      /\ HeadInStream(p)'
      /\ \A q \in Pair \ {p} : HeadInStream(q)' /\ Held(q)' = Held(q)
      /\ DOMAIN frontier' = Pair /\ UNCHANGED <<streams, status>> /\ status = "merging"
  BY <1>0, HeadYielded
<1>2. /\ call.step = "merge" /\ EmitRecord(s, b)
      /\ UNCHANGED <<call, rejected>>
      /\ UNCHANGED <<closed, linearizing, accepted, late, lost>>
  BY <1>0 DEF MergeYields
<1>3. sessions[s] # None
  BY <1>0, <1>2 DEF WriterInv, CallKnown
<1>4. /\ sessions' \in [Sids -> WriterType \cup {None}] /\ SessionsAlike
      /\ file' \in Seq(Blocks) /\ file' # << >>
      /\ file' = Append(file, b) /\ ~ closed /\ ~ Complete'
  <2>1. RecordEmits(b.sid, b) /\ EmitRecord(b.sid, b) /\ sessions[b.sid] # None
    BY <1>0, <1>1, <1>2, <1>3
  <2> QED BY <1>1, <2>1, EmitRecordEffect
<1>5. p \in Pids /\ b \in Blocks /\ b \in SentIn[s] /\ b \in Sent[s][p]
  BY <1>1, SentType
<1>6. file \in Seq(Blocks)
  BY DEF WriterInv, HistoryKnown
<1>7. CallKnown'
  BY <1>2, <1>4, CallStays DEF WriterInv
<1>8. FlushKnown'
  BY <1>2, <1>4, FlushStays DEF WriterInv
<1>9. WritersKnown'
  BY <1>1, <1>2, <1>3, <1>4, <1>6, WritersGrow DEF WriterInv
<1> HIDE DEF b
<1>10. MergeKnown'
  <2>1. \A q \in Pair : streams[q] \in Seq(Sent[s][q])
    BY <1>0, <1>2 DEF WriterInv, MergeKnown
  <2>2. \A q \in Pair : HeadInStream(q)'
    BY <1>1
  <2>3. DOMAIN streams = Pair
    BY <1>2 DEF WriterInv, MergeKnown
  <2> QED BY <1>0, <1>1, <1>2, <2>1, <2>2, <2>3 DEF MergeKnown
<1>11. HistoryKnown'
  BY <1>2, <1>4 DEF WriterInv, HistoryKnown
<1>12. ASSUME NEW r \in Sids \ Spoiled'
       PROVE  Conserved(r)'
  <2>1. r \in Sids \ Spoiled
    BY <1>2 DEF Spoiled
  <2>2. Conserved(r)
    BY <2>1 DEF WriterInv
  <2>3. CASE r # s
    <3>1. \A q \in Pair : InFlight(r, q)' = InFlight(r, q)
      BY <1>0, <1>2, <2>3 DEF InFlight
    <3> QED BY <1>1, <1>2, <1>4, <1>6, <2>1, <2>2, <2>3, <3>1, OthersConserved
  <2>4. CASE r = s
    <3>1. \A q \in Pair : /\ Out(s, q) = Held(q) \o sessions[s].pending[q]
                          /\ Out(s, q)' = Held(q)' \o sessions[s].pending[q]
      BY <1>0, <1>2, <1>3, <1>4 DEF Out, InFlight, SessionsAlike
    <3>2. \A q \in Pair \ {p} : Out(s, q)' = Out(s, q)
      <4> TAKE q \in Pair \ {p}
      <4>1. Held(q)' = Held(q)
        BY <1>1
      <4>2. Out(s, q) = Held(q) \o sessions[s].pending[q] /\ Out(s, q)' = Held(q)' \o sessions[s].pending[q]
        BY <3>1
      <4> QED BY <4>1, <4>2, Zenon
    <3>3. /\ Kept(file, Sent[s][p]) \o Out(s, p) = Append(Kept(file, Sent[s][p]), b) \o Out(s, p)'
          /\ Len(Out(s, p)) = Len(Out(s, p)') + 1
      <4>1. Kept(file, Sent[s][p]) \in Seq(Blocks)
        BY <1>6, KeptType
      <4>2. sessions[s].pending[p] \in Seq(Blocks)
        BY <1>3 DEF WriterInv, WritersKnown, WriterType, Blocks
      <4>3. Held(p)' \in Seq(Blocks)
        <5>1. streams'[p] \in Seq(Blocks)
          <6>1. \A q \in Pair : streams[q] \in Seq(Sent[s][q])
            BY <1>0, <1>2 DEF WriterInv, MergeKnown
          <6>2. Sent[s][p] \subseteq Blocks
            BY <1>3, <1>5 DEF Sent, SentIn, Blocks
          <6> QED BY <1>1, <6>1, <6>2
        <5>2. PICK k \in 1 .. Len(streams'[p]) + 1 : Held(p)' = SubSeq(streams'[p], k, Len(streams'[p]))
          <6>1. Len(streams'[p]) \in Nat /\ frontier'[p].loaded \in Nat
            BY <1>1, <5>1 DEF HeadInStream
          <6>2. CASE frontier'[p].head = None
            BY <1>1, <6>1, <6>2 DEF Held, HeadInStream
          <6>3. CASE frontier'[p].head # None
            <7>1. frontier'[p].loaded \in 1 .. Len(streams'[p]) + 1
              BY <1>1, <6>1, <6>3 DEF HeadInStream
            <7>2. Held(p)' = SubSeq(streams'[p], frontier'[p].loaded, Len(streams'[p]))
              BY <6>3 DEF Held
            <7> QED BY <7>1, <7>2
          <6> QED BY <6>2, <6>3
        <5> QED BY <5>1, <5>2, RestEnds
      <4>4. /\ Kept(file, Sent[s][p]) \o ((<<b>> \o Held(p)') \o sessions[s].pending[p])
               = Append(Kept(file, Sent[s][p]), b) \o (Held(p)' \o sessions[s].pending[p])
            /\ Len((<<b>> \o Held(p)') \o sessions[s].pending[p])
               = Len(Held(p)' \o sessions[s].pending[p]) + 1
        <5>1. PICK x \in Seq(Blocks), y \in Seq(Blocks), z \in Seq(Blocks) :
                x = Kept(file, Sent[s][p]) /\ y = Held(p)' /\ z = sessions[s].pending[p]
          BY <4>1, <4>2, <4>3
        <5>2. /\ x \o ((<<b>> \o y) \o z) = Append(x, b) \o (y \o z)
              /\ Len((<<b>> \o y) \o z) = Len(y \o z) + 1
          BY <1>5, HeadMoves
        <5> QED BY <5>1, <5>2, Zenon
      <4> QED BY <1>1, <3>1, <4>4
    <3>4. /\ Kept(file', Sent[s][p]) = Append(Kept(file, Sent[s][p]), b)
          /\ Len(Kept(file', SentIn[s])) = Len(Kept(file, SentIn[s])) + 1
          /\ \A q \in Pids \ {p} : Kept(file', Sent[s][q]) = Kept(file, Sent[s][q])
      <4>1. /\ Kept(file', Sent[b.sid][b.pid]) = Append(Kept(file, Sent[b.sid][b.pid]), b)
            /\ Len(Kept(file', SentIn[b.sid])) = Len(Kept(file, SentIn[b.sid])) + 1
            /\ \A other \in Sids, q \in Pids : other # b.sid \/ q # b.pid =>
                  Kept(file', Sent[other][q]) = Kept(file, Sent[other][q])
        <5>1. b \in Producer.records /\ b \in Blocks /\ file \in Seq(Blocks)
          BY <1>1, <1>5, <1>6
        <5>2. /\ Kept(Append(file, b), Sent[b.sid][b.pid]) = Append(Kept(file, Sent[b.sid][b.pid]), b)
              /\ Len(Kept(Append(file, b), SentIn[b.sid])) = Len(Kept(file, SentIn[b.sid])) + 1
              /\ \A other \in Sids, q \in Pids : other # b.sid \/ q # b.pid =>
                    Kept(Append(file, b), Sent[other][q]) = Kept(file, Sent[other][q])
          BY <5>1, KeptOneMore
        <5>3. file' = Append(file, b)
          BY <1>4
        <5> QED BY <5>2, <5>3
      <4> QED BY <1>1, <1>3, <4>1
    <3>5. \A q \in Pids : Kept(accepted[s], Sent[s][q]) =
            Kept(file', Sent[s][q]) \o (IF q \in Pair THEN Out(s, q)' ELSE << >>)
      <4> TAKE q \in Pids
      <4>1. Kept(accepted[s], Sent[s][q]) =
              Kept(file, Sent[s][q]) \o (IF q \in Pair THEN Out(s, q) ELSE << >>)
        BY <1>3, <2>2, <2>4 DEF Conserved
      <4>2. CASE q = p
        BY <3>3, <3>4, <4>1, <4>2
      <4>3. CASE q # p
        <5>1. (IF q \in Pair THEN Out(s, q)' ELSE << >>) = (IF q \in Pair THEN Out(s, q) ELSE << >>)
          BY <3>2, <4>3
        <5>2. Kept(file', Sent[s][q]) = Kept(file, Sent[s][q])
          BY <3>4, <4>3
        <5> QED BY <4>1, <5>1, <5>2, Zenon
      <4> QED BY <4>2, <4>3
    <3>6. \A a, c \in Pair : a # c =>
            Len(accepted[s]) = Len(Kept(file', SentIn[s])) + Len(Out(s, a)') + Len(Out(s, c)')
      <4> SUFFICES ASSUME NEW a \in Pair, NEW c \in Pair, a # c
                   PROVE  Len(accepted[s]) = Len(Kept(file', SentIn[s])) + Len(Out(s, a)') + Len(Out(s, c)')
        OBVIOUS
      <4>1. Len(accepted[s]) = Len(Kept(file, SentIn[s])) + Len(Out(s, a)) + Len(Out(s, c))
        BY <1>3, <2>2, <2>4 DEF Conserved
      <4>2. p = a \/ p = c
        BY PairIsTwo
      <4>3. Len(Kept(file, SentIn[s])) \in Nat
        <5>1. Kept(file, SentIn[s]) \in Seq(Blocks)
          BY <1>6, KeptType
        <5> QED BY <5>1
      <4>4. \A q \in Pair : Len(Out(s, q)') \in Nat
        <5>1. \A q \in Pair : Out(s, q) \in Seq(Sent[s][q])
          BY <1>3, HeldType
        <5>2. \A q \in Pair : Len(Out(s, q)) \in Nat
          BY <5>1
        <5>3. Len(Out(s, p)') \in Nat
          BY <3>3, <5>2
        <5> QED BY <3>2, <5>2, <5>3
      <4>5. CASE p = a
        <5>1. Out(s, c)' = Out(s, c) /\ Len(Out(s, a)) = Len(Out(s, a)') + 1
          BY <3>2, <3>3, <4>5
        <5> QED BY <3>4, <4>1, <4>3, <4>4, <5>1
      <4>6. CASE p = c
        <5>1. Out(s, a)' = Out(s, a) /\ Len(Out(s, c)) = Len(Out(s, c)') + 1
          BY <3>2, <3>3, <4>6
        <5> QED BY <3>4, <4>1, <4>3, <4>4, <5>1
      <4> QED BY <4>2, <4>5, <4>6
    <3>7. rejected'[s] = 0 /\ accepted' = accepted
      BY <1>2, <1>3, <2>2, <2>4 DEF Conserved
    <3>8. \A q \in Pids : Kept(accepted'[s], Sent[s][q]) =
            Kept(file', Sent[s][q]) \o (IF q \in Pair THEN Out(s, q)' ELSE << >>)
      BY <3>5, <3>7, Zenon
    <3>9. \A a, c \in Pair : a # c =>
            Len(accepted'[s]) = Len(Kept(file', SentIn[s])) + Len(Out(s, a)') + Len(Out(s, c)')
      BY <3>6, <3>7, Zenon
    <3> QED BY <2>4, <3>7, <3>8, <3>9 DEF Conserved
  <2> QED BY <2>3, <2>4
<1>13. CleanFileIsWhole'
  BY <1>4 DEF CleanFileIsWhole
<1> QED BY <1>7, <1>8, <1>9, <1>10, <1>11, <1>12, <1>13 DEF WriterInv

\* The record is refused: its session is spoiled, and no other is.
LEMMA YieldRefused ==
    ASSUME WriterInv, NEW p \in Pair, MergeYields(p),
           ~ RecordEmits(Head(call.left), frontier[p].head)
    PROVE  WriterInv'
<1> DEFINE s == Head(call.left)
           b == frontier[p].head
<1>1. b \in Producer.records /\ b.sid = s
  BY HeadYielded
<1>2. /\ call.step = "merge" /\ EmitRecord(s, b)
      /\ call' = [call EXCEPT !.step = "raise"]
      /\ rejected' = IF closed THEN rejected ELSE [rejected EXCEPT ![s] = @ + 1]
      /\ UNCHANGED <<closed, linearizing, accepted, late, lost>>
  BY DEF MergeYields
<1>3. s \in Sids /\ sessions[s] # None
  BY <1>2 DEF WriterInv, CallKnown
<1>4. /\ sessions' \in [Sids -> WriterType \cup {None}] /\ SessionsAlike
      /\ file' = file
  BY <1>1, <1>2, <1>3, EmitRecordEffect
<1> HIDE DEF s, b
<1>5. /\ call' \in [op : {"none", "end", "close"}, sid : Sids \cup {None}, extents : Seq(ExtentType),
                    left : Seq(Sids), step : {"none", "flush", "merge", "raise"}]
      /\ call'.left = call.left /\ call'.op = call.op /\ call'.step = "raise"
  BY <1>2 DEF WriterInv, CallKnown
<1>6. /\ rejected' \in [Sids -> Nat] /\ \A r \in Sids \ {s} : rejected'[r] = rejected[r]
      /\ closed => rejected' = rejected
  BY <1>2, <1>3 DEF WriterInv, HistoryKnown
<1>7. CallKnown'
  <2>1. call.left # << >> /\ call.left \in Seq(Sids)
    BY <1>2 DEF WriterInv, CallKnown
  <2>2. \A i \in DOMAIN call.left : sessions'[call.left[i]] # None
    BY <1>4, <2>1 DEF WriterInv, CallKnown, SessionsAlike
  <2>3. call.op = "close" =>
          /\ ~ closed
          /\ \A r \in Sids : sessions'[r] # None /\ sessions'[r].pending # NoStreams =>
                \E i \in DOMAIN call.left : call.left[i] = r
    BY <1>4 DEF WriterInv, CallKnown, SessionsAlike
  <2> QED BY <1>2, <1>5, <2>1, <2>2, <2>3 DEF CallKnown
<1>8. FlushKnown'
  BY <1>2, <1>4, FlushStays DEF WriterInv
<1>9. WritersKnown'
  <2>1. \A r \in Sids : sessions'[r] # None =>
          /\ \A q \in Pair : sessions'[r].pending[q] \in Seq(Sent[r][q])
          /\ ~ sessions'[r].linearize => sessions'[r].pending = NoStreams
    BY <1>4 DEF WriterInv, WritersKnown, SessionsAlike
  <2>2. ASSUME NEW r \in Sids, sessions'[r] = None
        PROVE  /\ accepted'[r] = << >> /\ late'[r] = 0 /\ rejected'[r] = 0
               /\ Kept(file', SentIn[r]) = << >>
               /\ \A q \in Pids : Kept(file', Sent[r][q]) = << >>
    <3>1. sessions[r] = None /\ r # s
      BY <1>3, <1>4, <2>2 DEF SessionsAlike
    <3> QED BY <1>2, <1>4, <1>6, <3>1 DEF WriterInv, WritersKnown
  <2> QED BY <1>4, <2>1, <2>2 DEF WritersKnown
<1>10. MergeKnown' /\ \A r \in Sids \ {s}, q \in Pair : InFlight(r, q)' = << >> /\ InFlight(r, q) = << >>
  BY <1>2, <1>5 DEF MergeKnown, InFlight, s
<1>11. HistoryKnown'
  BY <1>2, <1>4, <1>6 DEF WriterInv, HistoryKnown, Complete
<1>12. ASSUME NEW r \in Sids \ Spoiled'
       PROVE  Conserved(r)'
  <2>1. r \in Sids \ Spoiled /\ r # s
    BY <1>2, <1>5, <1>12 DEF Spoiled, s
  <2>2. Conserved(r)
    BY <2>1 DEF WriterInv
  <2>3. KeptAlike
    BY <1>4 DEF KeptAlike
  <2> QED BY <1>2, <1>4, <1>6, <1>10, <2>1, <2>2, <2>3, ConservedStays
<1>13. CleanFileIsWhole'
  <2> SUFFICES ASSUME Complete', NEW r \in Sids \ lost'
               PROVE  Unwritten(r)' = 0
    BY DEF CleanFileIsWhole
  <2>1. Complete /\ closed /\ r \in Sids \ lost
    BY <1>2, <1>4 DEF Complete, WriterInv, HistoryKnown
  <2>2. Unwritten(r) = 0
    BY <2>1 DEF WriterInv, CleanFileIsWhole
  <2> QED BY <1>2, <1>4, <1>6, <2>1, <2>2 DEF Unwritten
<1> QED BY <1>7, <1>8, <1>9, <1>10, <1>11, <1>12, <1>13 DEF WriterInv

LEMMA MergeYieldsStep ==
    ASSUME WriterInv, NEW p \in Pair, MergeYields(p)
    PROVE  WriterInv'
BY YieldWritten, YieldRefused

-------------------------------------------------------------------------------
(* Every reachable state *)

\* What a participant's declaration has for the session's guards.
Participants == { b \in Blocks : b.pid \in Pids /\ b.isn \in SeqNum \cup {None} }

\* Participants declared one after another.
LEMMA DeclaredRuns ==
    ASSUME NEW list \in Seq(Participants), NEW writer \in WriterType
    PROVE  \E run : /\ run[0] = writer /\ run[Len(list)] = FoldLeft(DeclaredIn, writer, list)
                    /\ \A k \in 1 .. Len(list) : run[k] = DeclaredIn(run[k - 1], list[k])
<1> DEFINE n == Len(list)
           V == WriterType
           step == [p \in (1 .. n) \X V |-> DeclaredIn(p[2], list[p[1]])]
           Solves(iter) == iter = [U \in SUBSET DOMAIN list |->
                              IF U = {} THEN writer ELSE DeclaredIn(iter[U \ {Max(U)}], list[Max(U)])]
<1>1. n \in Nat /\ DOMAIN list = 1 .. n /\ writer \in V /\ \A i \in 1 .. n : list[i] \in Participants
  OBVIOUS
<1>2. \A i \in 1 .. n, st \in V : DeclaredIn(st, list[i]) \in V
  <2> TAKE i \in 1 .. n, st \in V
  <2>1. list[i].pid \in Pids /\ list[i].isn \in SeqNum \cup {None}
    BY <1>1 DEF Participants
  <2> QED BY <2>1, DeclaredInType
<1>3. /\ step \in [(1 .. n) \X V -> V]
      /\ \A i \in 1 .. n, st \in V : step[i, st] = DeclaredIn(st, list[i])
  BY <1>2
<1>4. /\ \A U \in SUBSET (1 .. n) : U # {} => Max(U) \in U
      /\ \A k \in 1 .. n : Max(1 .. k) = k /\ (1 .. k) \ {k} = 1 .. k - 1
      /\ \A k \in 1 .. n : 1 .. k \in SUBSET (1 .. n) /\ 1 .. k # {} /\ k \in 0 .. n /\ k - 1 \in 0 .. n
  BY <1>1, LastPosition
<1>5. \E iter : Solves(iter)
  <2> HIDE DEF step, V, n
  <2>1. PICK iter : FoldsList(iter, n, V, writer, step)
    BY <1>1, <1>3, LoopExists
  <2>2. ASSUME NEW U \in SUBSET (1 .. n), U # {}
        PROVE  step[Max(U), iter[U \ {Max(U)}]] = DeclaredIn(iter[U \ {Max(U)}], list[Max(U)])
    <3>1. Max(U) \in 1 .. n /\ iter[U \ {Max(U)}] \in V
      BY <1>4, <2>1, <2>2 DEF FoldsList
    <3> QED BY <1>3, <3>1
  <2>3. iter = [U \in SUBSET (1 .. n) |->
                  IF U = {} THEN writer ELSE DeclaredIn(iter[U \ {Max(U)}], list[Max(U)])]
    BY <2>1, <2>2 DEF FoldsList
  <2> QED BY <1>1, <2>3
<1> DEFINE iter == CHOOSE iter : Solves(iter)
<1>6. Solves(iter)
  BY <1>5
<1>7. FoldLeft(DeclaredIn, writer, list) = iter[DOMAIN list]
  BY DEF FoldLeft, MapThenFoldSet
<1> HIDE DEF iter
<1>8. \A U \in SUBSET (1 .. n) :
        iter[U] = IF U = {} THEN writer ELSE DeclaredIn(iter[U \ {Max(U)}], list[Max(U)])
  BY <1>1, <1>6
<1> HIDE DEF n
<1> DEFINE run == [k \in 0 .. n |-> iter[1 .. k]]
<1>9. ASSUME NEW k \in 1 .. n
      PROVE  run[k] = DeclaredIn(run[k - 1], list[k])
  <2>1. 1 .. k \in SUBSET (1 .. n) /\ 1 .. k # {} /\ k \in 0 .. n /\ k - 1 \in 0 .. n
    BY <1>4, Zenon
  <2>2. iter[1 .. k] = DeclaredIn(iter[1 .. k - 1], list[k])
    BY <1>4, <1>8, <2>1
  <2> QED BY <2>1, <2>2
<1>10. run[0] = writer /\ run[n] = FoldLeft(DeclaredIn, writer, list)
  <2>1. 1 .. 0 = {} /\ {} \in SUBSET (1 .. n) /\ 0 \in 0 .. n /\ n \in 0 .. n
    <3>1. n \in Nat
      BY <1>1
    <3> QED BY ONLY <3>1
  <2> QED BY <1>1, <1>7, <1>8, <2>1
<1> QED BY <1>9, <1>10 DEF n

LEMMA DeclaredAll ==
    ASSUME NEW list \in Seq(Participants), NEW writer \in WriterType
    PROVE  /\ FoldLeft(DeclaredIn, writer, list) \in WriterType
           /\ FoldLeft(DeclaredIn, writer, list).pending = writer.pending
           /\ FoldLeft(DeclaredIn, writer, list).linearize = writer.linearize
<1> DEFINE n == Len(list)
<1>1. PICK run : /\ run[0] = writer /\ run[n] = FoldLeft(DeclaredIn, writer, list)
                 /\ \A k \in 1 .. n : run[k] = DeclaredIn(run[k - 1], list[k])
  BY DeclaredRuns
<1>2. n \in Nat /\ \A k \in 1 .. n : list[k] \in Participants
  OBVIOUS
<1> HIDE DEF n
<1> DEFINE P == { k \in 0 .. n : /\ run[k] \in WriterType
                                 /\ run[k].pending = writer.pending
                                 /\ run[k].linearize = writer.linearize }
<1>3. 0 \in P
  BY <1>1, <1>2
<1>4. ASSUME NEW k \in 1 .. n, k - 1 \in P
      PROVE  k \in P
  <2>1. list[k].pid \in Pids /\ list[k].isn \in SeqNum \cup {None} /\ k \in 0 .. n
    BY <1>2 DEF Participants
  <2>2. PICK before \in WriterType : before = run[k - 1]
    BY <1>4
  <2>3. run[k] = DeclaredIn(before, list[k])
    BY <1>1, <2>2
  <2>4. /\ DeclaredIn(before, list[k]) \in WriterType
        /\ DeclaredIn(before, list[k]).pending = before.pending
        /\ DeclaredIn(before, list[k]).linearize = before.linearize
    BY <2>1, DeclaredInType
  <2> QED BY <1>4, <2>1, <2>2, <2>3, <2>4
<1>5. n \in P
  <2> HIDE DEF P
  <2>1. \A k \in 0 .. n : k \in P
    BY <1>2, <1>3, <1>4, Throughout
  <2> QED BY <1>2, <2>1
<1> QED BY <1>1, <1>5

\* An opening that a file may begin with, its sessions in the modes given.
Opens(opening, modes) ==
    /\ opening \in Seq(Blocks) /\ opening # << >>
    /\ \A b \in ToSet(opening) :
          /\ b.kind # "record" /\ b.kind # "end"
          /\ b.kind = "participant" => b \in Participants
          /\ b.kind = "session" => b.sid \in Sids
    /\ \A s \in Begun(opening) : modes[s] \in Modes

\* The writer behind such an opening.
LEMMA OpeningInv ==
    ASSUME NEW opening, NEW modes, Opens(opening, modes), InitAfter(opening, modes)
    PROVE  WriterInv
<1>1. /\ file = opening /\ closed = FALSE
      /\ call = Idle
      /\ accepted = [s \in Sids |-> << >>] /\ late = [s \in Sids |-> 0]
      /\ lost = {} /\ rejected = [s \in Sids |-> 0]
      /\ linearizing = LinearizingIn(opening, modes)
      /\ sessions = [s \in Sids |->
            IF s \notin Begun(opening) THEN None
            ELSE FoldLeft(DeclaredIn, NewSession(modes[s]), ParticipantsIn(opening, s))]
  BY DEF InitAfter
<1>2. /\ opening \in Seq(Blocks) /\ opening # << >> /\ Len(opening) \in Nat
      /\ DOMAIN opening = 1 .. Len(opening) /\ Len(opening) \in 1 .. Len(opening)
      /\ \A i \in 1 .. Len(opening) : opening[i] \in ToSet(opening) /\ opening[i] \in Blocks
  BY DEF Opens, ToSet
<1>3. ASSUME NEW s \in Begun(opening)
      PROVE  /\ s \in Sids /\ sessions[s] \in WriterType /\ sessions[s] # None
             /\ sessions[s].pending = NoStreams /\ sessions[s].linearize = modes[s].linearize
  <2>1. s \in Sids /\ modes[s] \in Modes
    BY DEF Opens, Begun
  <2>2. PICK writer \in WriterType : /\ writer = NewSession(modes[s])
                                     /\ writer.pending = NoStreams
                                     /\ writer.linearize = modes[s].linearize
    BY <2>1, NewSessionType
  <2> DEFINE S == { b \in ToSet(opening) : b.kind = "participant" /\ b.sid = s }
  <2>3. PICK list : list = ParticipantsIn(opening, s)
    OBVIOUS
  <2>4. list = Kept(opening, S)
    BY <2>3 DEF ParticipantsIn
  <2>5. list \in Seq(Blocks) /\ ToSet(list) = ToSet(opening) \cap S
    BY <1>2, <2>4, KeptType, KeptMembers
  <2>6. list \in Seq(Participants)
    <3>1. \A i \in 1 .. Len(list) : list[i] \in ToSet(list)
      BY <2>5 DEF ToSet
    <3>2. \A i \in 1 .. Len(list) : list[i] \in Participants
      BY <2>5, <3>1 DEF Opens
    <3> QED BY <2>5, <3>2
  <2>7. sessions[s] = FoldLeft(DeclaredIn, writer, list)
    BY <1>1, <2>1, <2>2, <2>3
  <2>8. /\ FoldLeft(DeclaredIn, writer, list) \in WriterType
        /\ FoldLeft(DeclaredIn, writer, list).pending = writer.pending
        /\ FoldLeft(DeclaredIn, writer, list).linearize = writer.linearize
    BY <2>6, DeclaredAll
  <2>9. PICK begun \in WriterType : begun = sessions[s] /\ begun.pending = writer.pending
                                   /\ begun.linearize = writer.linearize
    BY <2>7, <2>8
  <2>10. None \notin WriterType
    BY WriterAssumption
  <2> QED BY <2>1, <2>2, <2>9, <2>10
<1>4. \A s \in Sids : s \notin Begun(opening) => sessions[s] = None
  BY <1>1
<1>5. sessions \in [Sids -> WriterType \cup {None}]
  <2>1. \A s \in Sids : sessions[s] \in WriterType \cup {None}
    BY <1>3, <1>4
  <2> QED BY <1>1, <2>1
<1>6. \A S : (\A b \in ToSet(opening) : b \notin S) => Kept(opening, S) = << >>
  <2> TAKE S
  <2> HAVE \A b \in ToSet(opening) : b \notin S
  <2>1. PICK kept \in Seq(Blocks) : kept = Kept(opening, S)
    BY <1>2, KeptType
  <2>2. ToSet(kept) = {}
    BY <1>2, <2>1, KeptMembers
  <2>3. kept # << >> => kept[1] \in ToSet(kept)
    BY DEF ToSet
  <2> QED BY <2>1, <2>2, <2>3
<1>7. \A s \in Sids : /\ Kept(file, SentIn[s]) = << >>
                       /\ \A p \in Pids : Kept(file, Sent[s][p]) = << >>
  <2>1. \A b \in ToSet(opening) : b.kind # "record"
    BY DEF Opens
  <2>2. \A b \in ToSet(opening) : b \notin Producer.records
    BY <2>1, WriterAssumption DEF SessionRecord
  <2>3. \A s \in Sids : /\ SentIn[s] \subseteq Producer.records
                         /\ \A p \in Pids : Sent[s][p] \subseteq Producer.records
    BY DEF SentIn, Sent
  <2> QED BY <1>1, <1>6, <2>2, <2>3
<1>8. CallKnown
  <2>1. << >> \in Seq(Sids) /\ << >> \in Seq(ExtentType) /\ DOMAIN << >> = {}
    OBVIOUS
  <2> QED BY <1>1, <2>1 DEF CallKnown, Idle
<1>9. FlushKnown
  <2> DEFINE S == { b \in ToSet(opening) : b.kind = "session" /\ modes[b.sid].linearize }
  <2>1. PICK begun \in Seq(Blocks) : begun = Kept(opening, S)
    BY <1>2, KeptType
  <2>2. ToSet(begun) = S
    BY <1>2, <2>1, KeptMembers
  <2>3. linearizing = [i \in DOMAIN begun |-> begun[i].sid]
    BY <1>1, <2>1 DEF LinearizingIn
  <2>4. \A i \in DOMAIN begun : begun[i] \in S
    BY <2>2 DEF ToSet
  <2>5. \A i \in DOMAIN begun : begun[i].sid \in Sids /\ begun[i].sid \in Begun(opening)
    <3> TAKE i \in DOMAIN begun
    <3>1. begun[i] \in ToSet(opening) /\ begun[i].kind = "session"
      BY <2>4
    <3>2. begun[i].sid \in Sids
      BY <3>1 DEF Opens
    <3>3. \E j \in DOMAIN opening : opening[j] = begun[i]
      BY <3>1 DEF ToSet
    <3> QED BY <3>1, <3>2, <3>3 DEF Begun
  <2>6. linearizing \in Seq(Sids) /\ DOMAIN linearizing = DOMAIN begun
    BY <2>3, <2>5
  <2>7. ASSUME NEW s \in Sids, sessions[s] # None, sessions[s].linearize
        PROVE  \E i \in DOMAIN linearizing : linearizing[i] = s
    <3>1. s \in Begun(opening)
      BY <1>4, <2>7
    <3>2. modes[s].linearize
      BY <1>3, <2>7, <3>1
    <3>3. PICK j \in DOMAIN opening : opening[j].kind = "session" /\ opening[j].sid = s
      BY <3>1 DEF Begun
    <3>4. opening[j] \in S
      BY <1>2, <3>2, <3>3
    <3>5. PICK i \in DOMAIN begun : begun[i] = opening[j]
      BY <2>2, <3>4 DEF ToSet
    <3> QED BY <2>3, <2>6, <3>3, <3>5
  <2>8. \A i \in DOMAIN linearizing : sessions[linearizing[i]] # None
    BY <1>3, <2>3, <2>5, <2>6
  <2> QED BY <2>6, <2>7, <2>8 DEF FlushKnown
<1>10. WritersKnown
  <2>1. \A s \in Sids : sessions[s] # None =>
          /\ sessions[s].pending = NoStreams
          /\ \A p \in Pair : sessions[s].pending[p] \in Seq(Sent[s][p])
    <3>1. \A s, p : << >> \in Seq(Sent[s][p])
      OBVIOUS
    <3>2. \A s \in Sids : sessions[s] # None => sessions[s].pending = NoStreams
      BY <1>3, <1>4
    <3>3. \A p \in Pair : NoStreams[p] = << >>
      BY DEF NoStreams
    <3> QED BY <3>1, <3>2, <3>3
  <2> QED BY <1>1, <1>5, <1>7, <2>1 DEF WritersKnown
<1>11. MergeKnown
  BY <1>1 DEF MergeKnown, Idle
<1>12. HistoryKnown /\ ~ Complete
  <2>1. << >> \in Seq(Producer.records) /\ 0 \in Nat
    OBVIOUS
  <2>2. accepted \in [Sids -> Seq(Producer.records)] /\ late \in [Sids -> Nat] /\ rejected \in [Sids -> Nat]
    BY <1>1, <2>1
  <2>3. ~ Complete
    BY <1>1, <1>2 DEF Complete, Opens
  <2> QED BY <1>1, <1>2, <2>2, <2>3 DEF HistoryKnown
<1>13. \A s \in Sids : Conserved(s)
  <2> TAKE s \in Sids
  <2>1. CASE sessions[s] = None
    BY <2>1 DEF Conserved
  <2>2. CASE sessions[s] # None
    <3>1. sessions[s].pending = NoStreams
      BY <1>3, <1>4, <2>2
    <3>2. \A p \in Pair : Out(s, p) = << >>
      <4>1. \A p \in Pair : InFlight(s, p) = << >> /\ sessions[s].pending[p] = << >>
        BY <1>1, <3>1 DEF InFlight, Idle, NoStreams
      <4>2. << >> \o << >> = << >>
        OBVIOUS
      <4> QED BY <4>1, <4>2 DEF Out
    <3>3. accepted[s] = << >> /\ rejected[s] = 0
      BY <1>1
    <3>4. \A S : Kept(<< >>, S) = << >>
      BY KeptOfNone
    <3>5. << >> \o << >> = << >> /\ Len(<< >>) = 0
      OBVIOUS
    <3>6. \A p \in Pids : Kept(accepted[s], Sent[s][p]) = << >>
      BY <3>3, <3>4
    <3>7. Len(accepted[s]) = 0 /\ Len(Kept(file, SentIn[s])) = 0 /\ \A p \in Pair : Len(Out(s, p)) = 0
      BY <1>7, <3>2, <3>3, <3>5
    <3>8. 0 = 0 + 0 + 0
      OBVIOUS
    <3>9. \A p \in Pids : Kept(accepted[s], Sent[s][p]) =
             Kept(file, Sent[s][p]) \o (IF p \in Pair THEN Out(s, p) ELSE << >>)
      BY <1>7, <3>2, <3>5, <3>6
    <3>10. \A a, b \in Pair : a # b =>
             Len(accepted[s]) = Len(Kept(file, SentIn[s])) + Len(Out(s, a)) + Len(Out(s, b))
      BY <3>7, <3>8
    <3> QED BY <3>3, <3>9, <3>10 DEF Conserved
  <2> QED BY <2>1, <2>2
<1>14. CleanFileIsWhole
  BY <1>12 DEF CleanFileIsWhole
<1> QED BY <1>8, <1>9, <1>10, <1>11, <1>12, <1>13, <1>14 DEF WriterInv

LEMMA InitInv == Init => WriterInv
<1> SUFFICES ASSUME Init PROVE WriterInv
  OBVIOUS
<1>1. Header.kind = "header"
  BY WriterAssumption
<1>2. <<Header>> \in Seq(Blocks) /\ <<Header>> # << >> /\ ToSet(<<Header>>) = {Header}
  <2>1. Header \in Blocks
    BY DEF Blocks
  <2>2. <<Header>> \in Seq(Blocks) /\ <<Header>> # << >> /\ DOMAIN <<Header>> = {1} /\ <<Header>>[1] = Header
    BY <2>1
  <2> QED BY <2>2 DEF ToSet
<1>3. Begun(<<Header>>) = {}
  BY <1>1 DEF Begun
<1>4. Opens(<<Header>>, << >>)
  BY <1>1, <1>2, <1>3 DEF Opens
<1>5. InitAfter(<<Header>>, << >>)
  BY DEF Init
<1> QED BY <1>4, <1>5, OpeningInv

\* A step of the library inside a call.
LEMMA InsideStep ==
    ASSUME WriterInv, Inside
    PROVE  WriterInv'
<1>1. CASE SkipFlush
  BY <1>1, SkipFlushStep
<1>2. CASE StartFlush
  BY <1>2, StartFlushStep
<1>3. CASE MergeRuns
  BY <1>3, MergeRunsStep
<1>4. CASE \E p \in Pair : MergeYields(p)
  BY <1>4, MergeYieldsStep
<1>5. CASE FlushDone
  BY <1>5, FlushDoneStep
<1>6. CASE Unwind
  BY <1>6, UnwindStep
<1>7. CASE EndSession
  BY <1>7, EndSessionStep
<1>8. CASE EndFile
  BY <1>8, EndFileStep
<1> QED BY <1>1, <1>2, <1>3, <1>4, <1>5, <1>6, <1>7, <1>8 DEF Inside

LEMMA NextInv == WriterInv /\ [Next]_vars => WriterInv'
<1> SUFFICES ASSUME WriterInv, [Next]_vars PROVE WriterInv'
  OBVIOUS
<1>1. ASSUME NEW b \in Producer.declarations, Declare(b) PROVE WriterInv'
  BY <1>1, DeclareStep
<1>2. ASSUME NEW s \in Producer.sids, NEW mode \in Producer.modes, BeginSession(s, mode) PROVE WriterInv'
  <2>1. s \in Sids /\ mode \in Modes
    BY WriterAssumption DEF Modes
  <2> QED BY <1>2, <2>1, BeginSessionStep
<1>3. ASSUME NEW b \in Producer.participants, Participant(b) PROVE WriterInv'
  BY <1>3, ParticipantStep
<1>4. ASSUME NEW b \in Producer.records, Buffer(b) PROVE WriterInv'
  BY <1>4, BufferStep
<1>5. ASSUME NEW b \in Producer.records, Record(b) PROVE WriterInv'
  BY <1>5, RecordStep
<1>6. ASSUME NEW b \in Producer.breaks, Discontinuity(b) PROVE WriterInv'
  <2>1. b \in Blocks /\ b.kind = "discontinuity"
    BY WriterAssumption DEF Blocks
  <2> QED BY <1>6, <2>1, DiscontinuityStep
<1>7. ASSUME NEW s \in Sids, End(s, << >>) PROVE WriterInv'
  <2>1. << >> \in Seq(ExtentType)
    OBVIOUS
  <2> QED BY <1>7, <2>1, EndStep
<1>8. CASE Close
  BY <1>8, CloseStep
<1>9. CASE Abandon
  BY <1>9, AbandonStep
<1>10. CASE Inside
  BY <1>10, InsideStep
<1>11. CASE UNCHANGED vars
  <2>1. UNCHANGED <<file, closed, sessions, linearizing, call, mergeVars, history>>
    BY <1>11 DEF vars
  <2>2. SessionsAlike /\ sessions' \in [Sids -> WriterType \cup {None}]
    BY <2>1 DEF SessionsAlike, WriterInv, WritersKnown
  <2> QED BY <2>1, <2>2, QuietStep
<1> QED BY <1>1, <1>2, <1>3, <1>4, <1>5, <1>6, <1>7, <1>8, <1>9, <1>10, <1>11
        DEF Next, Calls, Closing

\* Every reachable state of the writer satisfies the invariant.
THEOREM WriterAlwaysSound == Spec => []WriterInv
BY InitInv, NextInv, PTL DEF Spec

\* What the invariant says of a session no flush of which has raised, nor is raising.
LEMMA SoundConserves == WriterInv => RecordsConserved
<1> SUFFICES ASSUME WriterInv, call.step # "raise", NEW s \in Sids \ lost, sessions[s] # None,
                    NEW p \in Pids
             PROVE  Kept(accepted[s], Sent[s][p]) =
                      Kept(file, Sent[s][p]) \o
                        (IF p \in Pair THEN InFlight(s, p) \o sessions[s].pending[p] ELSE << >>)
  BY DEF RecordsConserved
<1>1. Conserved(s)
  BY DEF WriterInv, Spoiled
<1> QED BY <1>1 DEF Conserved, Out

\* At every instant of every call, what a session accepted of a participant is what
\* it wrote, then what its merge holds, then what it buffers, in that order: no
\* record is lost, repeated or overtaken, whatever was refused on the way and
\* however many flushes of other sessions raised (writer.py record, _flush_pending
\* and _emit_record).
THEOREM RecordsAlwaysConserved == Spec => []RecordsConserved
BY WriterAlwaysSound, SoundConserves, PTL

\* A file marked complete holds every record accepted before close() of every
\* session no flush of which raised (writer.py close).
THEOREM CleanFilesAreWhole == Spec => []CleanFileIsWhole
<1>1. WriterInv => CleanFileIsWhole
  BY DEF WriterInv
<1> QED BY <1>1, WriterAlwaysSound, PTL

-------------------------------------------------------------------------------
(* A reader of the file *)

\* The producer comes to write record b.
Attempts(b) ==
    \/ Record(b)
    \/ \E p \in Pair : frontier[p].head = b /\ MergeYields(p)

\* No record that the writer would otherwise write is advised against.
Unadvised ==
    \A b \in Producer.records :
        Attempts(b) /\ ~ closed /\ ~ Stopped(sessions[b.sid], b) /\ ~ Refuses(checker, b)
            => ~ Advises(checker, b)

\* An end() under way is of a session.
EndKnown == call.op = "end" => call.sid \in Sids

\* The reader's checker trails the writer's, and has refused nothing so far.
ClearInv ==
    /\ checker \in CheckerType /\ tail.checker \in CheckerType
    /\ Trails(tail.checker, checker)
    /\ tail.ok
    /\ EndKnown

\* The checker makes the same of two blocks.
Alike(b, r) ==
    \A c : /\ Refuses(c, r) <=> Refuses(c, b)
           /\ Absorbed(c, r) = Absorbed(c, b)
           /\ Left(c, r) = Left(c, b)

\* A record's fields, all but those of the order rules.
SameFields(b, r) ==
    /\ r.kind = b.kind /\ r.sid = b.sid /\ r.pid = b.pid /\ r.source = b.source
    /\ r.decoder = b.decoder /\ r.seq = b.seq /\ r.flag = b.flag /\ r.copy = b.copy
    /\ r.payload = b.payload /\ r.label = b.label /\ r.badLabel = b.badLabel /\ r.spans = b.spans

\* The rules on a record read only those fields.
LEMMA FieldRules ==
    ASSUME NEW b, NEW r, SameFields(b, r), NEW c
    PROVE  /\ LayerOf(c, r) = LayerOf(c, b)
           /\ Declared(c, r) <=> Declared(c, b)
           /\ OutOfPlace(c, r) <=> OutOfPlace(c, b)
           /\ BadRecordEarly(c, r) <=> BadRecordEarly(c, b)
           /\ BadRecordLate(c, r) <=> BadRecordLate(c, b)
           /\ \A stream : /\ Anchored(stream, r) = Anchored(stream, b)
                          /\ Reported(c, stream, r) = Reported(c, stream, b)
                          /\ Tracked(stream, r) = Tracked(stream, b)
<1>1. LayerOf(c, r) = LayerOf(c, b)
  BY DEF SameFields, LayerOf
<1>2. (Declared(c, r) <=> Declared(c, b)) /\ (OutOfPlace(c, r) <=> OutOfPlace(c, b))
  BY DEF SameFields, Declared, Live, OutOfPlace
<1>3. ASSUME NEW stream
      PROVE  /\ OutOfOrder(stream, r) <=> OutOfOrder(stream, b)
             /\ BadCopy(c, stream, r) <=> BadCopy(c, stream, b)
  <2>1. IsCopy(c, r) <=> IsCopy(c, b)
    BY <1>1, Zenon DEF SameFields, IsCopy
  <2>2. OutOfOrder(stream, r) <=> OutOfOrder(stream, b)
    BY Zenon DEF SameFields, OutOfOrder
  <2>3. BadCopy(c, stream, r) <=> BadCopy(c, stream, b)
    BY <2>1, Zenon DEF SameFields, BadCopy
  <2> QED BY <2>2, <2>3
<1>4. BadRecordEarly(c, r) <=> BadRecordEarly(c, b)
  <2>1. (UnknownSource(c, r) <=> UnknownSource(c, b)) /\ (UnknownDecoder(c, r) <=> UnknownDecoder(c, b))
    BY Zenon DEF SameFields, UnknownSource, UnknownDecoder
  <2>2. c.streams[r.sid, r.pid] = c.streams[b.sid, b.pid]
    BY DEF SameFields
  <2> QED BY <1>3, <2>1, <2>2, Zenon DEF BadRecordEarly
<1>5. BadRecordLate(c, r) <=> BadRecordLate(c, b)
  BY Zenon DEF SameFields, BadRecordLate, Derived
<1>6. ASSUME NEW stream
      PROVE  /\ Anchored(stream, r) = Anchored(stream, b)
             /\ Reported(c, stream, r) = Reported(c, stream, b)
             /\ Tracked(stream, r) = Tracked(stream, b)
  <2>1. Anchored(stream, r) = Anchored(stream, b)
    BY Zenon DEF SameFields, Anchored, Placeable
  <2>2. Reported(c, stream, r) = Reported(c, stream, b)
    BY <1>1, Zenon DEF SameFields, Reported, ReportsUnits
  <2>3. r.spans = b.spans
    BY DEF SameFields
  <2>4. Tracked(stream, r) = Tracked(stream, b)
    BY <2>3, Zenon DEF Tracked, Candidates, Reach
  <2> QED BY <2>1, <2>2, <2>4
<1> QED BY <1>1, <1>2, <1>4, <1>5, <1>6

\* So does the checker make the same of two records with those fields.
LEMMA FieldsDecide ==
    ASSUME NEW b, NEW r, SameFields(b, r), b.kind = "record"
    PROVE  Alike(b, r)
<1> SUFFICES ASSUME NEW c
             PROVE  /\ Refuses(c, r) <=> Refuses(c, b)
                    /\ Absorbed(c, r) = Absorbed(c, b)
                    /\ Left(c, r) = Left(c, b)
  BY DEF Alike
<1>1. r.kind = "record" /\ r.sid = b.sid /\ r.pid = b.pid /\ r.spans = b.spans /\ r.source = b.source
  BY DEF SameFields
<1>2. Refuses(c, r) <=> Refuses(c, b)
  BY <1>1, FieldRules DEF Refuses
<1>3. StreamAfter(c, r) = StreamAfter(c, b)
  <2>1. PICK x, y : x = StreamAfter(c, r) /\ y = StreamAfter(c, b)
    OBVIOUS
  <2>2. PICK held, layer : held = c.streams[b.sid, b.pid] /\ layer = LayerOf(c, b)
    OBVIOUS
  <2>3. PICK tracked : tracked = Tracked(Reported(c, Anchored(held, b), b), b)
    OBVIOUS
  <2>4. Tracked(Reported(c, Anchored(held, r), r), r) = tracked
    BY <2>3, FieldRules
  <2>5. /\ IsCopy(c, r) = IsCopy(c, b) /\ r.seq = b.seq /\ r.payload = b.payload
    BY FieldRules, Zenon DEF SameFields, IsCopy
  <2>6. LayerOf(c, r) = layer /\ c.streams[r.sid, r.pid] = held
    BY <1>1, <2>2, FieldRules
  <2> QED BY <2>2, <2>3, <2>4, <2>5, <2>6, Zenon DEF StreamAfter
<1>4. Handled(c, r) = Handled(c, b)
  <2>1. PICK after : after = StreamAfter(c, b)
    OBVIOUS
  <2>2. Handled(c, b) = [c EXCEPT !.streams[<<b.sid, b.pid>>] = after,
                                  !.zpfSourced = @ \/ c.sources[b.source] = "zpf"]
    BY <2>1 DEF Handled
  <2>3. Handled(c, r) = [c EXCEPT !.streams[<<r.sid, r.pid>>] = after,
                                  !.zpfSourced = @ \/ c.sources[r.source] = "zpf"]
    BY <1>1, <1>3, <2>1 DEF Handled
  <2> QED BY ONLY <1>1, <2>2, <2>3
<1>5. Absorbed(c, r) = Absorbed(c, b)
  <2>1. PICK d : d = Handled(c, b)
    OBVIOUS
  <2>2. Covered(d, r) = Covered(d, b)
    BY <1>1, Zenon DEF Covered
  <2> QED BY <1>4, <2>1, <2>2 DEF Absorbed
<1>6. Left(c, r) = Left(c, b)
  <2>1. PICK held : held = c.streams[b.sid, b.pid]
    OBVIOUS
  <2>2. PICK placed : placed = Anchored(held, b)
    OBVIOUS
  <2>3. c.streams[r.sid, r.pid] = held /\ Anchored(held, r) = placed
    <3>1. c.streams[r.sid, r.pid] = held
      BY ONLY <1>1, <2>1
    <3>2. Anchored(held, r) = placed
      BY <2>2, FieldRules, Zenon
    <3> QED BY <3>1, <3>2
  <2>4. PICK left : left = IF BadRecordEarly(c, b) THEN placed ELSE Reported(c, placed, b)
    OBVIOUS
  <2>5. left = IF BadRecordEarly(c, r) THEN placed ELSE Reported(c, placed, r)
    BY <2>4, FieldRules
  <2>6. (OutOfPlace(c, r) <=> OutOfPlace(c, b)) /\ (Declared(c, r) <=> Declared(c, b))
    BY FieldRules
  <2>7. CASE OutOfPlace(c, b)
    BY <2>6, <2>7 DEF Left
  <2>8. CASE ~ OutOfPlace(c, b)
    <3>1. Left(c, b) = IF ~ Declared(c, b) THEN c ELSE [c EXCEPT !.streams[<<b.sid, b.pid>>] = left]
      BY <2>1, <2>2, <2>4, <2>8, Zenon DEF Left
    <3>2. Left(c, r) = IF ~ Declared(c, r) THEN c ELSE [c EXCEPT !.streams[<<r.sid, r.pid>>] = left]
      BY <1>1, <2>3, <2>5, <2>6, <2>8, Zenon DEF Left
    <3> QED BY ONLY <1>1, <2>6, <3>1, <3>2
  <2> QED BY <2>7, <2>8
<1> QED BY <1>2, <1>5, <1>6

\* Emitting a block, refused or written, keeps the reader behind the writer.
LEMMA EmitClears ==
    ASSUME ClearInv, NEW b, NEW r \in BlockType, Alike(b, r), Emit(b),
           closed \/ Refuses(checker, b) \/ ~ Advises(checker, b)
    PROVE  /\ checker' \in CheckerType /\ tail'.checker \in CheckerType
           /\ Trails(tail'.checker, checker')
           /\ tail'.ok
<1>1. PICK c \in CheckerType, t \in CheckerType : c = checker /\ t = tail.checker
  BY DEF ClearInv
<1>2. Trails(t, c) /\ tail.ok
  BY <1>1 DEF ClearInv
<1>3. CASE closed
  BY <1>1, <1>2, <1>3 DEF Emit, Emits
<1>4. CASE ~ closed /\ Refuses(c, b)
  <2>1. checker' = Left(c, r) /\ UNCHANGED tail
    BY <1>1, <1>4 DEF Emit, Emits, Alike
  <2>2. Left(c, r) \in CheckerType /\ Trails(t, Left(c, r))
    BY <1>2, TrailLeaves
  <2> QED BY <1>1, <1>2, <2>1, <2>2
<1>5. CASE ~ closed /\ ~ Refuses(c, b)
  <2>1. ~ Advises(c, b) /\ Emits(b)
    BY <1>1, <1>5 DEF Emits
  <2>2. /\ checker' = Absorbed(c, r)
        /\ tail' = [checker |-> Absorbed(t, r), ok |-> tail.ok /\ ~ Refuses(t, r)]
    BY <1>1, <1>5, <2>1 DEF Emit, Alike
  <2>3. ~ Refuses(c, r)
    BY <1>5 DEF Alike
  <2>4. ~ Refuses(t, r)
    BY <1>2, <2>3, TrailAccepts
  <2>5. /\ Absorbed(t, r) \in CheckerType /\ Absorbed(c, r) \in CheckerType
        /\ Trails(Absorbed(t, r), Absorbed(c, r))
    BY <1>2, <2>3, TrailAbsorbs
  <2>6. tail'.checker = Absorbed(t, r) /\ tail'.ok
    BY <1>2, <2>2, <2>4
  <2> QED BY <2>2, <2>5, <2>6
<1> QED BY <1>1, <1>3, <1>4, <1>5

\* A block that is no record is emitted without a word.
LEMMA BlockClears ==
    ASSUME ClearInv, NEW b \in BlockType, b.kind # "record", Emit(b)
    PROVE  /\ checker' \in CheckerType /\ tail'.checker \in CheckerType
           /\ Trails(tail'.checker, checker')
           /\ tail'.ok
<1>1. Alike(b, b)
  BY DEF Alike
<1>2. ~ Advises(checker, b)
  BY DEF Advises
<1> QED BY <1>1, <1>2, EmitClears

\* A record of the session s, attempted.
LEMMA RecordClears ==
    ASSUME ClearInv, NEW b \in Producer.records, EmitRecord(b.sid, b), Attempts(b), Unadvised
    PROVE  /\ checker' \in CheckerType /\ tail'.checker \in CheckerType
           /\ Trails(tail'.checker, checker')
           /\ tail'.ok
<1>1. CASE Stopped(sessions[b.sid], b)
  <2>1. UNCHANGED <<checker, tail>>
    BY <1>1 DEF EmitRecord
  <2> QED BY <2>1 DEF ClearInv
<1>2. CASE ~ Stopped(sessions[b.sid], b)
  <2>1. Emit(b)
    BY <1>2 DEF EmitRecord
  <2>2. closed \/ Refuses(checker, b) \/ ~ Advises(checker, b)
    BY <1>2 DEF Unadvised
  <2>3. RecordOf(b) \in BlockType
    BY ProducerAssumption
  <2>4. b.kind = "record"
    BY SentType
  <2>5. SameFields(b, RecordOf(b))
    BY DEF SameFields, RecordOf
  <2>6. Alike(b, RecordOf(b))
    BY <2>4, <2>5, FieldsDecide
  <2> QED BY <2>1, <2>2, <2>3, <2>6, EmitClears
<1> QED BY <1>1, <1>2

\* A step that neither emits nor begins an end().
LEMMA ClearStays ==
    ASSUME ClearInv, UNCHANGED <<checker, tail>>, EndKnown'
    PROVE  ClearInv'
BY DEF ClearInv

LEMMA ClearInit == Init => ClearInv
<1> SUFFICES ASSUME Init PROVE ClearInv
  OBVIOUS
<1>1. /\ checker = FoldLeft(Absorbed, NewChecker, <<Header>>)
      /\ tail = [checker |-> checker, ok |-> TRUE] /\ call = Idle
  BY DEF Init, InitAfter
<1>2. PICK new \in CheckerType : new = NewChecker
  BY NewCheckerType
<1>3. Header \in BlockType /\ Header.kind = "header"
  BY WriterAssumption, ProducerAssumption
<1>4. FoldLeft(Absorbed, NewChecker, <<Header>>) = Absorbed(new, Header)
  <2> DEFINE Solves(iter) == iter = [U \in SUBSET DOMAIN <<Header>> |->
                IF U = {} THEN new ELSE Absorbed(iter[U \ {Max(U)}], <<Header>>[Max(U)])]
  <2>1. /\ DOMAIN <<Header>> = {1} /\ <<Header>>[1] = Header
        /\ SUBSET {1} = {{}, {1}} /\ {1} \ {1} = {}
    <3>1. DOMAIN <<Header>> = {1} /\ <<Header>>[1] = Header
      OBVIOUS
    <3> QED BY <3>1
  <2>2. Max({1}) = 1
    <3>1. 1 .. 1 = {1} /\ 1 \in Nat /\ 1 \in 1 .. 1
      OBVIOUS
    <3>2. Max(1 .. 1) = 1
      BY <3>1, LastPosition
    <3> QED BY <3>1, <3>2
  <2>3. \E iter : Solves(iter)
    <3> DEFINE iter == [U \in SUBSET DOMAIN <<Header>> |-> IF U = {} THEN new ELSE Absorbed(new, Header)]
    <3>1. iter[{}] = new
      BY <2>1
    <3>2. ASSUME NEW U \in SUBSET DOMAIN <<Header>>, U # {}
          PROVE  Absorbed(iter[U \ {Max(U)}], <<Header>>[Max(U)]) = Absorbed(new, Header)
      <4>1. U = {1}
        BY <2>1, <3>2
      <4>2. <<Header>>[Max(U)] = Header /\ U \ {Max(U)} = {}
        BY <2>1, <2>2, <4>1
      <4> HIDE DEF iter
      <4> QED BY <3>1, <4>2
    <3>3. Solves(iter)
      BY <3>2
    <3> QED BY <3>3
  <2> DEFINE iter == CHOOSE iter : Solves(iter)
  <2>4. Solves(iter)
    BY <2>3
  <2>5. FoldLeft(Absorbed, NewChecker, <<Header>>) = iter[DOMAIN <<Header>>]
    BY <1>2 DEF FoldLeft, MapThenFoldSet
  <2> HIDE DEF iter
  <2>6. iter[{}] = new /\ iter[{1}] = Absorbed(iter[{1} \ {Max({1})}], <<Header>>[Max({1})])
    BY <2>1, <2>4
  <2>7. iter[{1}] = Absorbed(new, Header)
    BY <2>1, <2>2, <2>6
  <2> QED BY <2>1, <2>5, <2>7
<1>5. ~ Refuses(new, Header)
  BY <1>2, <1>3 DEF Refuses, OutOfPlace, NewChecker
<1>6. Trails(new, new)
  <2>1. \A s \in Sids, p \in Pids : new.streams[s, p] = None
    BY <1>2 DEF NewChecker
  <2> QED BY <2>1 DEF Trails, SameStanding
<1>7. Absorbed(new, Header) \in CheckerType /\ Trails(Absorbed(new, Header), Absorbed(new, Header))
  BY <1>3, <1>5, <1>6, TrailAbsorbs
<1> QED BY <1>1, <1>4, <1>7 DEF ClearInv, Idle, EndKnown

\* The session an end() under way is of stays the same until it ends.
LEMMA CallKeepsSid ==
    ASSUME EndKnown, CallKnown,
           \/ UNCHANGED call
           \/ call' = Idle
           \/ call' = [call EXCEPT !.left = Tail(@)]
           \/ call' = [call EXCEPT !.step = "merge"]
           \/ call' = [call EXCEPT !.step = "raise"]
           \/ call' = [call EXCEPT !.step = "flush", !.left = Tail(@)]
    PROVE  EndKnown'
<1>1. call.op = "end" => call.sid \in Sids
  BY DEF EndKnown
<1>2. CASE call' = Idle
  BY <1>2 DEF Idle, EndKnown
<1>3. /\ DOMAIN call = {"op", "sid", "extents", "left", "step"}
      /\ call = [op |-> call.op, sid |-> call.sid, extents |-> call.extents,
                 left |-> call.left, step |-> call.step]
  BY DEF CallKnown
<1>4. CASE UNCHANGED call
  BY <1>1, <1>4 DEF EndKnown
<1>5. CASE call' = [call EXCEPT !.left = Tail(@)]
  <2>1. call'.op = call.op /\ call'.sid = call.sid
    BY ONLY <1>3, <1>5
  <2> QED BY <1>1, <2>1 DEF EndKnown
<1>6. CASE call' = [call EXCEPT !.step = "merge"]
  <2>1. call'.op = call.op /\ call'.sid = call.sid
    BY ONLY <1>3, <1>6
  <2> QED BY <1>1, <2>1 DEF EndKnown
<1>7. CASE call' = [call EXCEPT !.step = "raise"]
  <2>1. call'.op = call.op /\ call'.sid = call.sid
    BY ONLY <1>3, <1>7
  <2> QED BY <1>1, <2>1 DEF EndKnown
<1>8. CASE call' = [call EXCEPT !.step = "flush", !.left = Tail(@)]
  <2>1. call'.op = call.op /\ call'.sid = call.sid
    BY ONLY <1>3, <1>8
  <2> QED BY <1>1, <2>1 DEF EndKnown
<1> QED BY <1>2, <1>4, <1>5, <1>6, <1>7, <1>8

\* A step of the library inside a call.
LEMMA ClearInside ==
    ASSUME ClearInv, WriterInv, Inside, Unadvised
    PROVE  ClearInv'
<1>1. CallKnown /\ EndKnown
  BY DEF WriterInv, ClearInv
<1>2. CASE SkipFlush \/ StartFlush \/ FlushDone \/ Unwind
  <2>1. UNCHANGED <<checker, tail>>
    BY <1>2 DEF SkipFlush, StartFlush, FlushDone, Unwind
  <2>2. EndKnown'
    <3>1. \/ call' = Idle
          \/ call' = [call EXCEPT !.left = Tail(@)]
          \/ call' = [call EXCEPT !.step = "merge"]
          \/ call' = [call EXCEPT !.step = "flush", !.left = Tail(@)]
      BY <1>2 DEF SkipFlush, StartFlush, FlushDone, Unwind
    <3> QED BY <1>1, <3>1, CallKeepsSid
  <2> QED BY <2>1, <2>2, ClearStays
<1>3. CASE MergeRuns
  <2>1. UNCHANGED <<checker, tail, call>>
    BY <1>3 DEF MergeRuns
  <2> QED BY <1>1, <2>1, CallKeepsSid, ClearStays
<1>4. ASSUME NEW p \in Pair, MergeYields(p)
      PROVE  ClearInv'
  <2> DEFINE b == frontier[p].head
  <2>1. b \in Producer.records /\ b.sid = Head(call.left)
    BY <1>4, HeadYielded
  <2>2. EmitRecord(b.sid, b) /\ Attempts(b)
    BY <1>4, <2>1 DEF MergeYields, Attempts
  <2>3. UNCHANGED call \/ call' = [call EXCEPT !.step = "raise"]
    BY <1>4 DEF MergeYields
  <2> HIDE DEF b
  <2>4. /\ checker' \in CheckerType /\ tail'.checker \in CheckerType
        /\ Trails(tail'.checker, checker')
        /\ tail'.ok
    BY <2>1, <2>2, RecordClears
  <2>5. EndKnown'
    BY <1>1, <2>3, CallKeepsSid
  <2> QED BY <2>4, <2>5 DEF ClearInv
<1>5. CASE EndSession
  <2>1. call.op = "end" /\ Emit(SessionEndOf(call.sid, call.extents)) /\ call' = Idle
    BY <1>5 DEF EndSession, Flushed
  <2>2. PICK b : b = SessionEndOf(call.sid, call.extents)
    OBVIOUS
  <2>3. b \in BlockType /\ b.kind # "record"
    <3>1. call.sid \in Sids /\ call.extents \in Seq(ExtentType)
      BY <1>1, <2>1 DEF ClearInv, CallKnown, EndKnown
    <3>2. b \in [kind : {"sessionEnd"}, sid : Sids, extents : Seq(ExtentType)] /\ b.kind = "sessionEnd"
      BY <2>2, <3>1 DEF SessionEndOf
    <3> QED BY <3>2, Zenon DEF BlockType
  <2>4. /\ checker' \in CheckerType /\ tail'.checker \in CheckerType
        /\ Trails(tail'.checker, checker')
        /\ tail'.ok
    BY <2>1, <2>2, <2>3, BlockClears
  <2> QED BY <2>1, <2>4 DEF ClearInv, Idle, EndKnown
<1>6. CASE EndFile
  <2>1. call' = Idle
    BY <1>6 DEF EndFile
  <2>2. CASE Complete
    <3>1. UNCHANGED <<checker, tail>>
      BY <1>6, <2>2 DEF EndFile
    <3> QED BY <1>1, <2>1, <3>1, CallKeepsSid, ClearStays
  <2>3. CASE ~ Complete
    <3>1. PICK b : b = [kind |-> "end"]
      OBVIOUS
    <3>2. Emit(b)
      BY <1>6, <2>3, <3>1 DEF EndFile
    <3>3. b \in BlockType /\ b.kind # "record"
      <4>1. b \in [kind : {"custom", "end"}] /\ b.kind = "end"
        BY <3>1
      <4> QED BY <4>1, Zenon DEF BlockType
    <3>4. /\ checker' \in CheckerType /\ tail'.checker \in CheckerType
          /\ Trails(tail'.checker, checker')
          /\ tail'.ok
      BY <3>2, <3>3, BlockClears
    <3> QED BY <2>1, <3>4 DEF ClearInv, Idle, EndKnown
  <2> QED BY <2>2, <2>3
<1> QED BY <1>2, <1>3, <1>4, <1>5, <1>6 DEF Inside

\* A call that emits one block, and returns.
LEMMA ClearCall ==
    ASSUME ClearInv, UNCHANGED call, NEW b \in BlockType, b.kind # "record", Emit(b)
    PROVE  ClearInv'
<1>1. /\ checker' \in CheckerType /\ tail'.checker \in CheckerType
      /\ Trails(tail'.checker, checker')
      /\ tail'.ok
  BY BlockClears
<1>2. EndKnown'
  BY DEF ClearInv, EndKnown
<1> QED BY <1>1, <1>2 DEF ClearInv

LEMMA ClearNext == WriterInv /\ ClearInv /\ [Next]_vars /\ [Unadvised]_vars => ClearInv'
<1> SUFFICES ASSUME WriterInv, ClearInv, [Next]_vars, [Unadvised]_vars PROVE ClearInv'
  OBVIOUS
<1>1. CASE UNCHANGED vars
  <2>1. UNCHANGED <<checker, tail, call>>
    BY <1>1 DEF vars
  <2>2. EndKnown'
    BY <2>1 DEF ClearInv, EndKnown
  <2> QED BY <2>1, <2>2, ClearStays
<1>2. ASSUME NEW b \in Producer.declarations, Declare(b) PROVE ClearInv'
  <2>1. b \in BlockType /\ b.kind # "record"
    BY WriterAssumption, ProducerAssumption DEF Stateless
  <2> QED BY <1>2, <2>1, ClearCall DEF Declare
<1>3. ASSUME NEW s \in Producer.sids, NEW mode \in Producer.modes, BeginSession(s, mode) PROVE ClearInv'
  <2>1. PICK b : b = [kind |-> "session", sid |-> s]
    OBVIOUS
  <2>2. Emit(b) /\ UNCHANGED call
    BY <1>3, <2>1 DEF BeginSession
  <2>3. b \in BlockType /\ b.kind # "record"
    <3>1. s \in Sids
      BY WriterAssumption
    <3>2. b \in [kind : {"session"}, sid : Sids] /\ b.kind = "session"
      BY <2>1, <3>1
    <3> QED BY <3>2, Zenon DEF BlockType
  <2> QED BY <2>2, <2>3, ClearCall
<1>4. ASSUME NEW b \in Producer.participants, Participant(b) PROVE ClearInv'
  <2>1. b \in BlockType /\ b.kind # "record"
    BY WriterAssumption, ProducerAssumption
  <2> QED BY <1>4, <2>1, ClearCall DEF Participant
<1>5. ASSUME NEW b \in Producer.records, Buffer(b) PROVE ClearInv'
  <2>1. UNCHANGED <<checker, tail, call>>
    BY <1>5 DEF Buffer
  <2>2. EndKnown'
    BY <2>1 DEF ClearInv, EndKnown
  <2> QED BY <2>1, <2>2, ClearStays
<1>6. ASSUME NEW b \in Producer.records, Record(b), Unadvised PROVE ClearInv'
  <2>1. EmitRecord(b.sid, b) /\ Attempts(b) /\ UNCHANGED call
    BY <1>6 DEF Record, Attempts
  <2>2. /\ checker' \in CheckerType /\ tail'.checker \in CheckerType
        /\ Trails(tail'.checker, checker')
        /\ tail'.ok
    BY <1>6, <2>1, RecordClears
  <2> QED BY <2>1, <2>2 DEF ClearInv, EndKnown
<1>7. ASSUME NEW b \in Producer.breaks, Discontinuity(b) PROVE ClearInv'
  <2>1. b \in BlockType /\ b.kind # "record"
    BY WriterAssumption, ProducerAssumption
  <2> QED BY <1>7, <2>1, ClearCall DEF Discontinuity
<1>8. ASSUME NEW s \in Sids, End(s, << >>) PROVE ClearInv'
  <2>1. UNCHANGED <<checker, tail>> /\ call'.sid = s
    BY <1>8 DEF End
  <2> QED BY <2>1, ClearStays DEF EndKnown
<1>9. CASE Close \/ Abandon
  <2>1. UNCHANGED <<checker, tail>> /\ (UNCHANGED call \/ call'.op = "close")
    BY <1>9 DEF Close, Abandon
  <2>2. EndKnown'
    BY <2>1 DEF ClearInv, EndKnown
  <2> QED BY <2>1, <2>2, ClearStays
<1>10. ASSUME Inside, Unadvised PROVE ClearInv'
  BY <1>10, ClearInside
<1>11. CASE ~ UNCHANGED vars
  <2>1. Next /\ Unadvised
    BY <1>11
  <2> QED BY <1>2, <1>3, <1>4, <1>5, <1>6, <1>7, <1>8, <1>9, <1>10, <2>1 DEF Next, Calls, Closing
<1> QED BY <1>1, <1>11

\* A reader that goes through the file refuses none of its blocks, however many the
\* writer refused on the way, its Session Ends included, as long as no record it
\* would write is advised against: an advisory finding raises once the checker has
\* taken the block, and the file goes on without it (writer.py FileWriter._emit).
THEOREM FilesReadClean == Spec /\ [][Unadvised]_vars => []FileReadsClean
<1>1. ClearInv => FileReadsClean
  BY DEF ClearInv, FileReadsClean
<1> QED BY <1>1, ClearInit, ClearNext, WriterAlwaysSound, PTL DEF Spec


-------------------------------------------------------------------------------
(* Whether a reader of the file finds its sessions in order *)

\* The participants a producer may declare in session s.
Peers(s) == { b.pid : b \in { d \in Producer.participants : d.sid = s } }

\* Every stream lies in the half of the sequence space from its base: the sequence
\* numbers of its records and its declared origin, and what its peers acknowledge.
ShortFrom(base) ==
    /\ \A s \in Sids : base[s] \in [Peers(s) -> SeqNum]
    /\ \A b \in Producer.records : b.pid \in Peers(b.sid) => NearHints(base[b.sid], b.pid, b)
    /\ \A b \in Producer.participants : AllIn(base[b.sid][b.pid], Origins(b.isn))

\* The streams of every session are shorter than half the sequence space.
ShortStreams == \E base : ShortFrom(base)

Base == CHOOSE base : ShortFrom(base)

\* The sequence numbers and the acks of participant p before the record m[j].
SeqsBefore(m, j, p) == { m[i].seq : i \in { k \in 1 .. j - 1 : m[k].pid = p } } \ {None}
AcksBefore(m, j, p) == { m[i].ack : i \in { k \in 1 .. j - 1 : m[k].pid = p } } \ {None}

\* No record of m is behind another of its stream, nor, when acks are checked, behind
\* an ack that covers it.
InOrder(base, isn, m, checked) ==
    \A j \in DOMAIN m :
        LET p == m[j].pid
        IN  /\ ~ Behind(base[p], SeqsBefore(m, j, p), m[j].seq)
            /\ checked => \A q \in Pids \ {p} : ~ Overtaken(base[p], isn[p], AcksBefore(m, j, q), m[j])

\* Of a record, being near and being overtaken are questions of its hints.
LEMMA HintsDecide ==
    ASSUME NEW b, NEW base, NEW isn, NEW A, NEW window, NEW p
    PROVE  /\ Overtaken(window, isn, A, b) <=> Overtaken(window, isn, A, Hints(b))
           /\ NearHints(base, p, b) <=> NearHints(base, p, Hints(b))
<1>1. Hints(b).seq = b.seq /\ Hints(b).ack = b.ack
  BY DEF Hints
<1>2. SequenceEnd(b, 0) = SequenceEnd(Hints(b), 0)
  BY OnlyHintsRead
<1>3. Overtaken(window, isn, A, b) <=> Overtaken(window, isn, A, Hints(b))
  BY <1>1, <1>2, Zenon DEF Overtaken
<1>4. NearHints(base, p, b) <=> NearHints(base, p, Hints(b))
  BY <1>1, Zenon DEF NearHints
<1> QED BY <1>3, <1>4

\* What is behind or overtaken stays so when more has gone before it.
LEMMA MoreBefore ==
    ASSUME NEW base, NEW S, NEW T, S \subseteq T, NEW isn, NEW seq, NEW rec
    PROVE  /\ Behind(base, S, seq) => Behind(base, T, seq)
           /\ Overtaken(base, isn, S, rec) => Overtaken(base, isn, T, rec)
BY Zenon DEF Behind, Overtaken

\* A reader's check that has gone through the records of m before m[j], all in order.
Verified(base, isn, m, count, j, order) ==
    /\ order \in OrderType
    /\ order.ackChecks <=> count = 2
    /\ \E S \in [Pids -> SUBSET SeqNum], A \in [Pids -> SUBSET SeqNum] :
          /\ Near(base, isn, S, A)
          /\ Tracks(base, isn, order, S, A)
          /\ \A p \in Pids : S[p] \subseteq SeqsBefore(m, j, p) /\ A[p] \subseteq AcksBefore(m, j, p)

\* One record further, it refuses nothing of what is in order.
LEMMA VerifiesOneMore ==
    ASSUME NEW P \in SUBSET Pids, NEW base \in [P -> SeqNum], NEW isn \in [Pids -> SeqNum \cup {None}],
           NEW count \in Nat, NEW m \in Seq(Producer.records), NEW j \in DOMAIN m,
           NEW order, Verified(base, isn, m, count, j, order), InOrder(base, isn, m, count = 2),
           m[j].pid \in P, NearHints(base, m[j].pid, m[j])
    PROVE  /\ ~ OrderRefuses(order, count, m[j].pid, m[j])
           /\ Verified(base, isn, m, count, j + 1, OrderObserved(order, count, m[j].pid, m[j]))
<1>0. PICK S \in [Pids -> SUBSET SeqNum], A \in [Pids -> SUBSET SeqNum] :
         /\ Near(base, isn, S, A)
         /\ Tracks(base, isn, order, S, A)
         /\ \A p \in Pids : S[p] \subseteq SeqsBefore(m, j, p) /\ A[p] \subseteq AcksBefore(m, j, p)
  BY DEF Verified
<1> USE <1>0
<1>1. PICK b \in Producer.records : b = m[j]
  OBVIOUS
<1>2. PICK p \in P : p = b.pid
  BY <1>1
<1> order \in OrderType /\ (order.ackChecks <=> count = 2)
  BY DEF Verified
<1>3. PICK rec \in RecordType : rec = Hints(b) /\ rec.seq = b.seq /\ rec.ack = b.ack
  <2>1. Hints(b) \in RecordType
    BY SentType
  <2> QED BY <2>1 DEF Hints
<1>4. NearHints(base, p, rec)
  BY <1>1, <1>2, <1>3, HintsDecide
<1>5. AckChecksAfter(order, count, p) <=> count = 2
  <2>1. count # None
    BY NoneAssumption
  <2> QED BY <2>1 DEF AckChecksAfter
<1>6. ~ Behind(base[p], S[p], rec.seq)
  <2>1. ~ Behind(base[p], SeqsBefore(m, j, p), b.seq)
    BY <1>1, <1>2 DEF InOrder
  <2>2. S[p] \subseteq SeqsBefore(m, j, p)
    BY <1>2
  <2> QED BY <1>3, <2>1, <2>2, MoreBefore
<1>7. ASSUME count = 2, NEW q \in Pids \ {p}
      PROVE  ~ Overtaken(base[p], isn[p], A[q], rec)
  <2>1. ~ Overtaken(base[p], isn[p], AcksBefore(m, j, q), b)
    BY <1>1, <1>2, <1>7 DEF InOrder
  <2>2. A[q] \subseteq AcksBefore(m, j, q)
    BY <1>7
  <2>3. ~ Overtaken(base[p], isn[p], AcksBefore(m, j, q), rec)
    BY <1>3, <2>1, HintsDecide
  <2> QED BY <2>2, <2>3, MoreBefore
<1>8. ~ OrderRefuses(order, count, p, rec)
  BY <1>2, <1>4, <1>5, <1>6, <1>7, RefusesExactly
<1>9. PICK next \in OrderType :
        next = OrderObserved(order, count, p, rec) /\ (next.ackChecks <=> count = 2)
  BY <1>2, <1>5, OrderObservedType, ObservedScope
<1>10. PICK T \in [Pids -> SUBSET SeqNum], B \in [Pids -> SUBSET SeqNum] :
           /\ T = S \/ T = Shown(S, p, rec.seq)
           /\ B = A \/ B = Shown(A, p, rec.ack)
           /\ Near(base, isn, T, B) /\ Tracks(base, isn, next, T, B)
  <2>1. TracksOn(base, isn, order, S, A, count, p, rec)
    BY <1>2, <1>4, ObservedTracks
  <2> QED BY <1>9, <2>1 DEF TracksOn
<1>11. ASSUME NEW q \in Pids
       PROVE  T[q] \subseteq SeqsBefore(m, j + 1, q) /\ B[q] \subseteq AcksBefore(m, j + 1, q)
  <2>1. /\ T[q] \subseteq S[q] \cup (IF q = p THEN {b.seq} \ {None} ELSE {})
        /\ B[q] \subseteq A[q] \cup (IF q = p THEN {b.ack} \ {None} ELSE {})
    BY <1>2, <1>3, <1>10, <1>11 DEF Shown
  <2>2. j \in 1 .. j /\ \A k \in 1 .. j - 1 : k \in 1 .. j
    OBVIOUS
  <2>3. /\ SeqsBefore(m, j, q) \subseteq SeqsBefore(m, j + 1, q)
        /\ AcksBefore(m, j, q) \subseteq AcksBefore(m, j + 1, q)
        /\ q = p => /\ {b.seq} \ {None} \subseteq SeqsBefore(m, j + 1, q)
                    /\ {b.ack} \ {None} \subseteq AcksBefore(m, j + 1, q)
    BY <1>1, <1>2, <2>2 DEF SeqsBefore, AcksBefore
  <2> QED BY <2>1, <2>3
<1>12. /\ OrderRefuses(order, count, p, b) <=> OrderRefuses(order, count, p, rec)
       /\ OrderObserved(order, count, p, b) = next
  BY <1>3, <1>9, OnlyHintsRead
<1>13. Verified(base, isn, m, count, j + 1, next)
  BY <1>9, <1>10, <1>11 DEF Verified
<1> QED BY <1>1, <1>2, <1>8, <1>12, <1>13

\* The states that a reader's check goes through.
VerifyStates == [order : OrderType, ok : BOOLEAN]

LEMMA VerifyType ==
    ASSUME NEW state \in VerifyStates, NEW count, NEW b \in Producer.records
    PROVE  Verify(count, state, b) \in VerifyStates
<1>1. state.order \in OrderType /\ state.ok \in BOOLEAN
  BY DEF VerifyStates
<1>2. b.pid \in Pids /\ Hints(b) \in RecordType
  BY SentType
<1>3. OrderObserved(state.order, count, b.pid, b) \in OrderType
  BY <1>1, <1>2, OnlyHintsRead, OrderObservedType
<1> QED BY <1>1, <1>3 DEF Verify, VerifyStates

\* Where the check is once it has gone through the list.
Gone(count, start, list) == FoldLeft(LAMBDA state, b : Verify(count, state, b), start, list)

\* verify_sequenced, record by record.
LEMMA VerifyRuns ==
    ASSUME NEW list \in Seq(Producer.records), NEW count, NEW start \in VerifyStates
    PROVE  \E run : /\ run[0] = start
                    /\ run[Len(list)] = Gone(count, start, list)
                    /\ \A k \in 1 .. Len(list) : run[k] = Verify(count, run[k - 1], list[k])
<1> DEFINE n == Len(list)
           V == VerifyStates
           step == [p \in (1 .. n) \X V |-> Verify(count, p[2], list[p[1]])]
           Solves(iter) == iter = [U \in SUBSET DOMAIN list |->
                              IF U = {} THEN start ELSE Verify(count, iter[U \ {Max(U)}], list[Max(U)])]
<1>1. n \in Nat /\ DOMAIN list = 1 .. n /\ start \in V /\ \A i \in 1 .. n : list[i] \in Producer.records
  OBVIOUS
<1>2. \A i \in 1 .. n, st \in V : Verify(count, st, list[i]) \in V
  BY <1>1, VerifyType
<1>3. /\ step \in [(1 .. n) \X V -> V]
      /\ \A i \in 1 .. n, st \in V : step[i, st] = Verify(count, st, list[i])
  BY <1>2
<1>4. /\ \A U \in SUBSET (1 .. n) : U # {} => Max(U) \in U
      /\ \A k \in 1 .. n : Max(1 .. k) = k /\ (1 .. k) \ {k} = 1 .. k - 1
      /\ \A k \in 1 .. n : 1 .. k \in SUBSET (1 .. n) /\ 1 .. k # {} /\ k \in 0 .. n /\ k - 1 \in 0 .. n
  BY <1>1, LastPosition
<1>5. \E iter : Solves(iter)
  <2> HIDE DEF step, V, n
  <2>1. PICK iter : FoldsList(iter, n, V, start, step)
    BY <1>1, <1>3, LoopExists
  <2>2. ASSUME NEW U \in SUBSET (1 .. n), U # {}
        PROVE  step[Max(U), iter[U \ {Max(U)}]] = Verify(count, iter[U \ {Max(U)}], list[Max(U)])
    <3>1. Max(U) \in 1 .. n /\ iter[U \ {Max(U)}] \in V
      BY <1>4, <2>1, <2>2 DEF FoldsList
    <3> QED BY <1>3, <3>1
  <2>3. iter = [U \in SUBSET (1 .. n) |->
                  IF U = {} THEN start ELSE Verify(count, iter[U \ {Max(U)}], list[Max(U)])]
    BY <2>1, <2>2 DEF FoldsList
  <2> QED BY <1>1, <2>3
<1> DEFINE iter == CHOOSE iter : Solves(iter)
<1>6. Solves(iter)
  BY <1>5
<1>7. Gone(count, start, list) = iter[DOMAIN list]
  BY DEF Gone, FoldLeft, MapThenFoldSet
<1> HIDE DEF iter
<1>8. \A U \in SUBSET (1 .. n) :
        iter[U] = IF U = {} THEN start ELSE Verify(count, iter[U \ {Max(U)}], list[Max(U)])
  BY <1>1, <1>6
<1> HIDE DEF n
<1> DEFINE run == [k \in 0 .. n |-> iter[1 .. k]]
<1>9. ASSUME NEW k \in 1 .. n
      PROVE  run[k] = Verify(count, run[k - 1], list[k])
  <2>1. 1 .. k \in SUBSET (1 .. n) /\ 1 .. k # {} /\ k \in 0 .. n /\ k - 1 \in 0 .. n
    BY <1>4, Zenon
  <2>2. iter[1 .. k] = Verify(count, iter[1 .. k - 1], list[k])
    BY <1>4, <1>8, <2>1
  <2> QED BY <2>1, <2>2
<1>10. run[0] = start /\ run[n] = Gone(count, start, list)
  <2>1. 1 .. 0 = {} /\ {} \in SUBSET (1 .. n) /\ 0 \in 0 .. n /\ n \in 0 .. n
    <3>1. n \in Nat
      BY <1>1
    <3> QED BY ONLY <3>1
  <2> QED BY <1>1, <1>7, <1>8, <2>1
<1> QED BY <1>9, <1>10 DEF n

\* What is in order passes the check of a reader.
LEMMA InOrderVerifies ==
    ASSUME NEW P \in SUBSET Pids, NEW base \in [P -> SeqNum], NEW isn \in [Pids -> SeqNum \cup {None}],
           \A p \in P : AllIn(base[p], Origins(isn[p])),
           NEW count \in Nat, NEW m \in Seq(Producer.records), InOrder(base, isn, m, count = 2),
           \A j \in DOMAIN m : m[j].pid \in P /\ NearHints(base, m[j].pid, m[j])
    PROVE  Gone(count, [order |-> NewOrder(count, isn), ok |-> TRUE], m).ok
<1> DEFINE n == Len(m)
<1>1. NewOrder(count, isn) \in OrderType
  BY NewOrderType
<1>2. PICK start \in VerifyStates :
         /\ start = [order |-> NewOrder(count, isn), ok |-> TRUE]
         /\ start.order = NewOrder(count, isn) /\ start.ok = TRUE
  <2>1. PICK order \in OrderType : order = NewOrder(count, isn)
    BY <1>1
  <2>2. [order |-> order, ok |-> TRUE] \in VerifyStates
    BY DEF VerifyStates
  <2> QED BY <2>1, <2>2
<1>0. n \in Nat /\ DOMAIN m = 1 .. n
  OBVIOUS
<1>3. PICK run : /\ run[0] = start
                 /\ run[n] = Gone(count, start, m)
                 /\ \A k \in 1 .. n : run[k] = Verify(count, run[k - 1], m[k])
  BY VerifyRuns
<1>4. run[0].ok /\ Verified(base, isn, m, count, 1, run[0].order)
  <2>1. PICK E \in [Pids -> SUBSET SeqNum] : \A p \in Pids : E[p] = {}
    <3>1. [p \in Pids |-> {}] \in [Pids -> SUBSET SeqNum]
      OBVIOUS
    <3> QED BY <3>1
  <2>2. Near(base, isn, E, E) /\ Tracks(base, isn, NewOrder(count, isn), E, E)
    BY <2>1, NewOrderTracks
  <2>3. NewOrder(count, isn).ackChecks <=> count = 2
    <3>1. count # None
      BY NoneAssumption
    <3>2. NewOrder(count, isn).ackChecks <=> (count = None \/ count = 2)
      BY Zenon DEF NewOrder
    <3> QED BY <3>1, <3>2
  <2>4. 1 \in Nat /\ run[0].ok /\ run[0].order = NewOrder(count, isn)
    BY <1>2, <1>3
  <2>5. \A p \in Pids : E[p] \subseteq SeqsBefore(m, 1, p) /\ E[p] \subseteq AcksBefore(m, 1, p)
    BY <2>1
  <2> QED BY <1>1, <1>3, <2>1, <2>2, <2>3, <2>4, <2>5 DEF Verified
<1> HIDE DEF n
<1> DEFINE F == { k \in 0 .. n : ~ (run[k].ok /\ Verified(base, isn, m, count, k + 1, run[k].order)) }
<1>5. CASE F = {}
  BY <1>0, <1>2, <1>3, <1>5
<1>6. CASE F # {}
  <2>1. PICK k \in F : \A i \in F : k <= i
    <3>1. F \subseteq Nat
      OBVIOUS
    <3> QED BY <1>6, <3>1, LeastNatural
  <2>2. k \in 1 .. n /\ k - 1 \in 0 .. n /\ k - 1 \notin F /\ (k - 1) + 1 = k
    <3>1. k \in 0 .. n /\ k # 0
      BY <1>4, <2>1
    <3> QED BY <1>0, <2>1, <3>1
  <2>3. PICK before : before = run[k - 1] /\ before.ok /\ Verified(base, isn, m, count, k, before.order)
    BY <2>2
  <2>4. k \in DOMAIN m /\ m[k].pid \in P /\ NearHints(base, m[k].pid, m[k])
    BY <1>0, <2>2
  <2>5. /\ ~ OrderRefuses(before.order, count, m[k].pid, m[k])
        /\ Verified(base, isn, m, count, k + 1, OrderObserved(before.order, count, m[k].pid, m[k]))
    BY <2>3, <2>4, VerifiesOneMore
  <2>6. /\ run[k].ok = (before.ok /\ ~ OrderRefuses(before.order, count, m[k].pid, m[k]))
        /\ run[k].order = OrderObserved(before.order, count, m[k].pid, m[k])
    <3>1. run[k] = Verify(count, before, m[k])
      BY <1>3, <2>2, <2>3
    <3> QED BY <3>1 DEF Verify
  <2> QED BY <2>1, <2>3, <2>5, <2>6
<1> QED BY <1>5, <1>6

\* What a session's guards know of the records m it has written: the order check has
\* placed their sequence numbers, and while it checks acks has walked all of theirs.
FollowedBy(base, w, m) ==
    /\ w.pids \subseteq DOMAIN base
    /\ \A p \in DOMAIN base : AllIn(base[p], Origins(w.isn[p]))
    /\ w.order.senders \subseteq w.pids
    /\ Cardinality(w.order.senders) <= 2 => w.order.ackChecks
    /\ InOrder(base, w.isn, m, Cardinality(w.pids) <= 2)
    /\ \E S \in [Pids -> SUBSET SeqNum], A \in [Pids -> SUBSET SeqNum] :
          /\ Near(base, w.isn, S, A)
          /\ Tracks(base, w.isn, w.order, S, A)
          /\ \A p \in Pids \ w.pids : S[p] = {} /\ A[p] = {}
          /\ \A i \in DOMAIN m :
                /\ m[i].pid \in w.pids
                /\ m[i].seq # None => m[i].seq \in S[m[i].pid]
                /\ w.order.ackChecks /\ m[i].ack # None => m[i].ack \in A[m[i].pid]

\* A session whose guards know its records passes the check of a reader.
LEMMA FollowedVerifies ==
    ASSUME NEW P \in SUBSET Pids, NEW base \in [P -> SeqNum], NEW w \in WriterType,
           NEW m \in Seq(Producer.records), FollowedBy(base, w, m),
           \A j \in DOMAIN m : m[j].pid \in P => NearHints(base, m[j].pid, m[j])
    PROVE  Gone(Cardinality(w.pids), [order |-> NewOrder(Cardinality(w.pids), w.isn), ok |-> TRUE], m).ok
<1>1. PICK isn \in [Pids -> SeqNum \cup {None}] : isn = w.isn
  BY DEF WriterType
<1>2. PICK count \in Nat : count = Cardinality(w.pids)
  <2>1. w.pids \in SUBSET Pids /\ IsFiniteSet(Pids)
    BY PidsAssumption DEF WriterType
  <2> QED BY <2>1, FS_Subset, FS_CardinalityType
<1>3. InOrder(base, isn, m, count <= 2)
  BY <1>1, <1>2 DEF FollowedBy
<1>4. InOrder(base, isn, m, count = 2)
  <2>1. count = 2 => count <= 2
    OBVIOUS
  <2> QED BY <1>3, <2>1 DEF InOrder
<1>5. \A j \in DOMAIN m : m[j].pid \in P /\ NearHints(base, m[j].pid, m[j])
  BY DEF FollowedBy
<1>6. \A p \in P : AllIn(base[p], Origins(isn[p]))
  BY <1>1 DEF FollowedBy
<1>7. Gone(count, [order |-> NewOrder(count, isn), ok |-> TRUE], m).ok
  BY <1>4, <1>5, <1>6, InOrderVerifies
<1> QED BY <1>1, <1>2, <1>7

\* What went before a record of a list is the same when the list has one more.
LEMMA BeforeAppended ==
    ASSUME NEW m \in Seq(Producer.records), NEW b \in Producer.records, NEW p,
           NEW j \in 1 .. Len(m) + 1
    PROVE  /\ SeqsBefore(Append(m, b), j, p) = SeqsBefore(m, j, p)
           /\ AcksBefore(Append(m, b), j, p) = AcksBefore(m, j, p)
<1>1. PICK n : n \in Seq(Producer.records) /\ n = Append(m, b)
  <2>1. Append(m, b) \in Seq(Producer.records)
    OBVIOUS
  <2> QED BY <2>1
<1>2. \A k \in 1 .. j - 1 : n[k] = m[k]
  BY <1>1
<1>3. { k \in 1 .. j - 1 : n[k].pid = p } = { k \in 1 .. j - 1 : m[k].pid = p }
  BY <1>2
<1>4. SeqsBefore(n, j, p) = SeqsBefore(m, j, p)
  BY <1>2, <1>3 DEF SeqsBefore
<1>5. AcksBefore(n, j, p) = AcksBefore(m, j, p)
  BY <1>2, <1>3 DEF AcksBefore
<1> QED BY <1>1, <1>4, <1>5

\* A record in its place behind those in order.
LEMMA InOrderGrows ==
    ASSUME NEW base, NEW isn, NEW checked \in BOOLEAN, NEW m \in Seq(Producer.records),
           NEW b \in Producer.records, InOrder(base, isn, m, checked),
           ~ Behind(base[b.pid], SeqsBefore(m, Len(m) + 1, b.pid), b.seq),
           checked => \A q \in Pids \ {b.pid} :
              ~ Overtaken(base[b.pid], isn[b.pid], AcksBefore(m, Len(m) + 1, q), b)
    PROVE  InOrder(base, isn, Append(m, b), checked)
<1>1. PICK n \in Seq(Producer.records) : n = Append(m, b)
  <2>1. Append(m, b) \in Seq(Producer.records)
    OBVIOUS
  <2> QED BY <2>1
<1>2. /\ DOMAIN n = 1 .. Len(m) + 1 /\ n[Len(m) + 1] = b
      /\ DOMAIN m = 1 .. Len(m) /\ \A j \in 1 .. Len(m) : n[j] = m[j]
  BY <1>1
<1>3. \A j \in 1 .. Len(m) + 1 : \A p :
        SeqsBefore(n, j, p) = SeqsBefore(m, j, p) /\ AcksBefore(n, j, p) = AcksBefore(m, j, p)
  BY <1>1, BeforeAppended
<1>4. ASSUME NEW j \in 1 .. Len(m)
      PROVE  LET p == n[j].pid
             IN  /\ ~ Behind(base[p], SeqsBefore(n, j, p), n[j].seq)
                 /\ checked => \A q \in Pids \ {p} : ~ Overtaken(base[p], isn[p], AcksBefore(n, j, q), n[j])
  <2>1. j \in DOMAIN m /\ n[j] = m[j] /\ j \in 1 .. Len(m) + 1
    BY <1>2
  <2> QED BY <1>3, <2>1 DEF InOrder
<1>5. LET j == Len(m) + 1
          p == n[j].pid
      IN  /\ ~ Behind(base[p], SeqsBefore(n, j, p), n[j].seq)
          /\ checked => \A q \in Pids \ {p} : ~ Overtaken(base[p], isn[p], AcksBefore(n, j, q), n[j])
  <2>1. Len(m) + 1 \in 1 .. Len(m) + 1
    OBVIOUS
  <2> QED BY <1>2, <1>3, <2>1
<1>6. \A j \in DOMAIN n : j \in 1 .. Len(m) \/ j = Len(m) + 1
  BY <1>2
<1> QED BY <1>1, <1>4, <1>5, <1>6 DEF InOrder

\* A session not begun has written nothing.
LEMMA FollowsNew ==
    ASSUME NEW P \in SUBSET Pids, NEW base \in [P -> SeqNum], NEW mode \in Modes
    PROVE  FollowedBy(base, NewSession(mode), << >>)
<1>0. PICK isn \in [Pids -> SeqNum \cup {None}] : isn = [p \in Pids |-> None]
  <2>1. [p \in Pids |-> None] \in [Pids -> SeqNum \cup {None}]
    OBVIOUS
  <2> QED BY <2>1
<1>1. PICK w : w = NewSession(mode) /\ w.pids = {} /\ w.isn = isn /\ w.order = NewOrder(None, isn)
  <2>1. PICK order : order = NewOrder(None, isn)
    OBVIOUS
  <2>2. NewSession(mode) =
          [verify |-> mode.verify, linearize |-> mode.linearize, pids |-> {}, isn |-> isn,
           anchor |-> isn, order |-> order, pending |-> NoStreams]
    BY <1>0, <2>1, Zenon DEF NewSession
  <2> QED BY <2>1, <2>2
<1>2. \A p \in P : AllIn(base[p], Origins(isn[p]))
  BY <1>0 DEF AllIn, Origins
<1>3. PICK E \in [Pids -> SUBSET SeqNum] : \A p \in Pids : E[p] = {}
  <2>1. [p \in Pids |-> {}] \in [Pids -> SUBSET SeqNum]
    OBVIOUS
  <2> QED BY <2>1
<1>4. Near(base, isn, E, E) /\ Tracks(base, isn, NewOrder(None, isn), E, E)
  BY <1>2, <1>3, NewOrderTracks
<1>5. w.order.senders = {} /\ w.order.ackChecks = TRUE
  <2>1. NewOrder(None, isn).senders = {} /\ NewOrder(None, isn).ackChecks = TRUE
    BY DEF NewOrder
  <2> QED BY <1>1, <2>1
<1>6. InOrder(base, isn, << >>, Cardinality(w.pids) <= 2)
  BY DEF InOrder
<1>7. \A i \in DOMAIN << >> : FALSE
  OBVIOUS
<1> QED BY <1>1, <1>2, <1>3, <1>4, <1>5, <1>6, <1>7 DEF FollowedBy

\* The guards after a record, refused or not: a session has the participants and origins
\* it had, and its order check has observed the record unless its place was refused.
LEMMA AfterRecordGuards ==
    ASSUME NEW w \in WriterType, NEW b \in Producer.records, w.verify
    PROVE  /\ AfterRecord(w, b).pids = w.pids /\ AfterRecord(w, b).isn = w.isn
           /\ AfterRecord(w, b).order =
                 IF GuardRefuses(w, b) THEN w.order ELSE OrderObserved(w.order, None, b.pid, b)
<1>1. PICK moved : moved = Advance(w, b)
  OBVIOUS
<1>2. /\ moved.pids = w.pids /\ moved.isn = w.isn /\ moved.order = w.order
      /\ DOMAIN moved = {"verify", "linearize", "pids", "isn", "anchor", "order", "pending"}
  <2>1. PICK anchor : anchor = [w.anchor EXCEPT ![b.pid] = b.seq]
    OBVIOUS
  <2>2. moved = w \/ moved = [w EXCEPT !.anchor = anchor]
    BY <1>1, <2>1 DEF Advance
  <2> QED BY <2>2 DEF WriterType
<1>3. PICK order : order = OrderObserved(moved.order, None, b.pid, b)
  OBVIOUS
<1>4. AfterRecord(w, b) = IF GuardRefuses(w, b) THEN w ELSE [moved EXCEPT !.order = order]
  BY <1>1, <1>3 DEF AfterRecord
<1>5. PICK after : after = [moved EXCEPT !.order = order]
  OBVIOUS
<1>6. after.pids = w.pids /\ after.isn = w.isn /\ after.order = order
  BY <1>2, <1>5
<1> QED BY <1>2, <1>3, <1>4, <1>5, <1>6

\* Having observed a record, the guards know of the records written, and of that one
\* too if the check did not refuse it.
LEMMA FollowsObserved ==
    ASSUME NEW P \in SUBSET Pids, NEW base \in [P -> SeqNum], NEW w \in WriterType,
           NEW m \in Seq(Producer.records), FollowedBy(base, w, m),
           NEW b \in Producer.records, b.pid \in w.pids, b.pid \in P => NearHints(base, b.pid, b),
           NEW v, v.pids = w.pids, v.isn = w.isn, v.order = OrderObserved(w.order, None, b.pid, b)
    PROVE  /\ FollowedBy(base, v, m)
           /\ ~ OrderRefuses(w.order, None, b.pid, b) => FollowedBy(base, v, Append(m, b))
<1>1. PICK isn \in [Pids -> SeqNum \cup {None}], order \in OrderType, pids \in SUBSET Pids :
         isn = w.isn /\ order = w.order /\ pids = w.pids
  BY DEF WriterType
<1>2. PICK p \in P : p = b.pid /\ p \in pids /\ p \in Pids
  BY <1>1 DEF FollowedBy
<1>3. PICK rec \in RecordType : rec = Hints(b) /\ rec.seq = b.seq /\ rec.ack = b.ack
  <2>1. Hints(b) \in RecordType
    BY SentType
  <2> QED BY <2>1 DEF Hints
<1>4. NearHints(base, p, rec)
  BY <1>2, <1>3, HintsDecide
<1>5. PICK next \in OrderType :
         /\ next = OrderObserved(order, None, p, rec)
         /\ next.senders = order.senders \cup {p} /\ next.ackChecks = AckChecksAfter(order, None, p)
  BY <1>2, OrderObservedType, ObservedScope
<1>6. /\ OrderRefuses(order, None, p, b) <=> OrderRefuses(order, None, p, rec)
      /\ v.order = next
  BY <1>1, <1>2, <1>3, <1>5, OnlyHintsRead
<1>7. PICK S \in [Pids -> SUBSET SeqNum], A \in [Pids -> SUBSET SeqNum] :
          /\ Near(base, isn, S, A)
          /\ Tracks(base, isn, order, S, A)
          /\ \A q \in Pids \ pids : S[q] = {} /\ A[q] = {}
          /\ \A i \in DOMAIN m :
                /\ m[i].pid \in pids
                /\ m[i].seq # None => m[i].seq \in S[m[i].pid]
                /\ order.ackChecks /\ m[i].ack # None => m[i].ack \in A[m[i].pid]
  BY <1>1 DEF FollowedBy
<1>8. /\ pids \subseteq P /\ order.senders \subseteq pids
      /\ \A q \in P : AllIn(base[q], Origins(isn[q]))
      /\ Cardinality(order.senders) <= 2 => order.ackChecks
      /\ InOrder(base, isn, m, Cardinality(pids) <= 2)
  BY <1>1 DEF FollowedBy
<1>9. /\ Cardinality(pids) <= 2 => Cardinality(order.senders \cup {p}) <= 2
      /\ Cardinality(order.senders \cup {p}) <= 2 => Cardinality(order.senders) <= 2
  <2>1. IsFiniteSet(pids) /\ IsFiniteSet(order.senders \cup {p}) /\ order.senders \cup {p} \subseteq pids
    <3>1. order.senders \cup {p} \subseteq pids /\ pids \subseteq Pids
      BY <1>2, <1>8
    <3> QED BY <3>1, PidsAssumption, FS_Subset
  <2>2. /\ Cardinality(order.senders \cup {p}) <= Cardinality(pids)
        /\ Cardinality(order.senders) <= Cardinality(order.senders \cup {p})
        /\ Cardinality(order.senders) \in Nat /\ Cardinality(pids) \in Nat
        /\ Cardinality(order.senders \cup {p}) \in Nat
    BY <2>1, FS_Subset, FS_CardinalityType
  <2> QED BY <2>2
<1>10. AckChecksAfter(order, None, p) <=> order.ackChecks /\ Cardinality(order.senders \cup {p}) <= 2
  BY DEF AckChecksAfter
<1>11. PICK T \in [Pids -> SUBSET SeqNum], B \in [Pids -> SUBSET SeqNum] :
           /\ T = S \/ T = Shown(S, p, rec.seq)
           /\ B = A \/ B = Shown(A, p, rec.ack)
           /\ Near(base, isn, T, B) /\ Tracks(base, isn, next, T, B)
           /\ ~ OrderRefuses(order, None, p, rec) => T = Shown(S, p, rec.seq)
           /\ ~ OrderRefuses(order, None, p, rec) /\ AckChecksAfter(order, None, p)
                 => B = Shown(A, p, rec.ack)
  <2>1. TracksOn(base, isn, order, S, A, None, p, rec)
    BY <1>2, <1>4, <1>7, ObservedTracks
  <2> QED BY <1>5, <2>1 DEF TracksOn
<1>12. \A q \in Pids : /\ S[q] \subseteq T[q] /\ A[q] \subseteq B[q]
                       /\ q # p => T[q] = S[q] /\ B[q] = A[q]
  BY <1>2, <1>11 DEF Shown
<1>13. /\ next.senders \subseteq pids
       /\ Cardinality(next.senders) <= 2 => next.ackChecks
       /\ \A q \in Pids \ pids : T[q] = {} /\ B[q] = {}
       /\ next.ackChecks => order.ackChecks
  BY <1>2, <1>5, <1>7, <1>8, <1>9, <1>10, <1>12
<1>14. \A i \in DOMAIN m :
          /\ m[i].pid \in pids
          /\ m[i].seq # None => m[i].seq \in T[m[i].pid]
          /\ next.ackChecks /\ m[i].ack # None => m[i].ack \in B[m[i].pid]
  BY <1>7, <1>12, <1>13
<1>15. FollowedBy(base, v, m)
  <2>1. v.pids = pids /\ v.isn = isn /\ v.order = next
    BY <1>1, <1>6
  <2> QED BY <1>8, <1>11, <1>13, <1>14, <2>1 DEF FollowedBy
<1>16. ASSUME ~ OrderRefuses(order, None, p, rec)
       PROVE  FollowedBy(base, v, Append(m, b))
  <2>1. /\ ~ Behind(base[p], S[p], rec.seq)
        /\ AckChecksAfter(order, None, p) =>
              \A q \in Pids \ {p} : ~ Overtaken(base[p], isn[p], A[q], rec)
    BY <1>2, <1>4, <1>7, <1>16, RefusesExactly
  <2>2. PICK j : j = Len(m) + 1 /\ j \in Nat
    OBVIOUS
  <2>3. ASSUME NEW q \in Pids
        PROVE  /\ SeqsBefore(m, j, q) \subseteq S[q]
               /\ order.ackChecks => AcksBefore(m, j, q) \subseteq A[q]
    <3>1. \A i \in 1 .. j - 1 : i \in DOMAIN m
      BY <2>2
    <3> QED BY <1>7, <3>1 DEF SeqsBefore, AcksBefore
  <2>4. ~ Behind(base[p], SeqsBefore(m, j, p), b.seq)
    BY <1>2, <1>3, <2>1, <2>3, MoreBefore
  <2>5. ASSUME Cardinality(pids) <= 2, NEW q \in Pids \ {p}
        PROVE  ~ Overtaken(base[p], isn[p], AcksBefore(m, j, q), b)
    <3>1. order.ackChecks /\ AckChecksAfter(order, None, p)
      BY <1>8, <1>9, <1>10, <2>5
    <3>2. ~ Overtaken(base[p], isn[p], A[q], rec) /\ AcksBefore(m, j, q) \subseteq A[q]
      BY <2>1, <2>3, <2>5, <3>1
    <3>3. ~ Overtaken(base[p], isn[p], AcksBefore(m, j, q), rec)
      BY <3>2, MoreBefore
    <3> QED BY <1>3, <3>3, HintsDecide
  <2>6. InOrder(base, isn, Append(m, b), Cardinality(pids) <= 2)
    <3>1. PICK checked \in BOOLEAN : checked <=> Cardinality(pids) <= 2
      OBVIOUS
    <3>2. InOrder(base, isn, m, checked)
      BY <1>8, <3>1 DEF InOrder
    <3>3. InOrder(base, isn, Append(m, b), checked)
      BY <1>2, <2>2, <2>4, <2>5, <3>1, <3>2, InOrderGrows
    <3> QED BY <3>1, <3>3 DEF InOrder
  <2>7. PICK n \in Seq(Producer.records) : n = Append(m, b)
    <3>1. Append(m, b) \in Seq(Producer.records)
      OBVIOUS
    <3> QED BY <3>1
  <2>8. \A i \in DOMAIN n :
          /\ n[i].pid \in pids
          /\ n[i].seq # None => n[i].seq \in T[n[i].pid]
          /\ next.ackChecks /\ n[i].ack # None => n[i].ack \in B[n[i].pid]
    <3>1. \A i \in DOMAIN n : (i \in DOMAIN m /\ n[i] = m[i]) \/ n[i] = b
      BY <2>7
    <3>2. /\ b.seq # None => b.seq \in T[p]
          /\ next.ackChecks /\ b.ack # None => b.ack \in B[p]
      BY <1>2, <1>3, <1>5, <1>11, <1>16 DEF Shown
    <3> QED BY <1>2, <1>14, <3>1, <3>2
  <2>9. v.pids = pids /\ v.isn = isn /\ v.order = next
    BY <1>1, <1>6
  <2> QED BY <1>8, <1>11, <1>13, <2>6, <2>7, <2>8, <2>9 DEF FollowedBy
<1> QED BY <1>1, <1>2, <1>6, <1>15, <1>16

\* The guards of a verifying session after a record that they stopped, or that was written.
LEMMA FollowsWritten ==
    ASSUME NEW P \in SUBSET Pids, NEW base \in [P -> SeqNum], NEW w \in WriterType, w.verify,
           NEW m \in Seq(Producer.records), FollowedBy(base, w, m),
           NEW b \in Producer.records, b.pid \in w.pids, b.pid \in P => NearHints(base, b.pid, b)
    PROVE  /\ FollowedBy(base, AfterRecord(w, b), m)
           /\ ~ Stopped(w, b) => FollowedBy(base, AfterRecord(w, b), Append(m, b))
<1>1. PICK v : v = AfterRecord(w, b)
  OBVIOUS
<1>2. /\ v.pids = w.pids /\ v.isn = w.isn
      /\ v.order = IF GuardRefuses(w, b) THEN w.order ELSE OrderObserved(w.order, None, b.pid, b)
  BY <1>1, AfterRecordGuards
<1>3. CASE GuardRefuses(w, b)
  <2>1. FollowedBy(base, v, m)
    <3>1. v.pids = w.pids /\ v.isn = w.isn /\ v.order = w.order
      BY <1>2, <1>3
    <3> QED BY ONLY <3>1, FollowedBy(base, w, m) DEF FollowedBy
  <2> QED BY <1>1, <1>3, <2>1 DEF Stopped
<1>4. CASE ~ GuardRefuses(w, b)
  <2>1. v.order = OrderObserved(w.order, None, b.pid, b)
    BY <1>2, <1>4
  <2>2. /\ FollowedBy(base, v, m)
        /\ ~ OrderRefuses(w.order, None, b.pid, b) => FollowedBy(base, v, Append(m, b))
    BY <1>2, <2>1, FollowsObserved
  <2> QED BY <1>1, <2>2 DEF Stopped, OrderStops
<1> QED BY <1>3, <1>4

\* A participant declared leaves nothing out of order: it has sent nothing yet.
LEMMA FollowsDeclared ==
    ASSUME NEW P \in SUBSET Pids, NEW base \in [P -> SeqNum], NEW w \in WriterType,
           NEW m \in Seq(Producer.records), FollowedBy(base, w, m),
           NEW b, b.pid \in P, b.pid \notin w.pids, b.isn \in SeqNum \cup {None},
           AllIn(base[b.pid], Origins(b.isn))
    PROVE  FollowedBy(base, DeclaredIn(w, b), m)
<1>1. PICK isn \in [Pids -> SeqNum \cup {None}], order \in OrderType, pids \in SUBSET Pids :
         isn = w.isn /\ order = w.order /\ pids = w.pids
  BY DEF WriterType
<1>2. PICK p \in P, i0 \in SeqNum \cup {None} : p = b.pid /\ p \notin pids /\ p \in Pids /\ i0 = b.isn
  BY <1>1
<1>3. PICK origins \in [Pids -> SeqNum \cup {None}] : origins = [isn EXCEPT ![p] = i0]
  BY <1>2
<1>4. PICK placer \in PlacerType : placer = NewPlacer(i0)
  BY NewPlacerType
<1>5. PICK placers \in [Pids -> PlacerType] : placers = [order.placers EXCEPT ![p] = placer]
  BY <1>2 DEF OrderType
<1>6. PICK next : /\ next = [order EXCEPT !.placers[p] = placer]
                  /\ next.placers = placers /\ next.senders = order.senders
                  /\ next.ackChecks = order.ackChecks /\ next.lastSeq = order.lastSeq
                  /\ next.acks = order.acks
  <2>1. PICK next : next = [order EXCEPT !.placers = placers]
    OBVIOUS
  <2>2. next = [order EXCEPT !.placers[p] = placer]
    BY <1>5, <2>1
  <2>3. /\ next.placers = placers /\ next.senders = order.senders
        /\ next.ackChecks = order.ackChecks /\ next.lastSeq = order.lastSeq
        /\ next.acks = order.acks
    BY <2>1 DEF OrderType
  <2> QED BY <2>2, <2>3
<1>7. PICK v : /\ v = DeclaredIn(w, b)
               /\ v.pids = pids \cup {p} /\ v.isn = origins /\ v.order = next
  <2>1. PICK anchor : anchor = IF b.isn = None THEN None ELSE (b.isn + 1) % SeqSpace
    OBVIOUS
  <2>2. PICK anchors : anchors = [w.anchor EXCEPT ![p] = anchor]
    OBVIOUS
  <2>3. DeclaredIn(w, b) =
          [w EXCEPT !.pids = @ \cup {p}, !.isn[p] = i0, !.anchor[p] = anchor, !.order.placers[p] = placer]
    BY <1>2, <1>4, <2>1 DEF DeclaredIn
  <2>4. DeclaredIn(w, b) =
          [w EXCEPT !.pids = pids \cup {p}, !.isn = origins, !.anchor = anchors, !.order = next]
    BY <1>1, <1>3, <1>6, <2>2, <2>3
  <2> QED BY <2>4 DEF WriterType
<1>8. PICK S \in [Pids -> SUBSET SeqNum], A \in [Pids -> SUBSET SeqNum] :
          /\ Near(base, isn, S, A)
          /\ Tracks(base, isn, order, S, A)
          /\ \A q \in Pids \ pids : S[q] = {} /\ A[q] = {}
          /\ \A i \in DOMAIN m :
                /\ m[i].pid \in pids
                /\ m[i].seq # None => m[i].seq \in S[m[i].pid]
                /\ order.ackChecks /\ m[i].ack # None => m[i].ack \in A[m[i].pid]
  BY <1>1 DEF FollowedBy
<1>9. /\ pids \subseteq P /\ order.senders \subseteq pids
      /\ \A q \in P : AllIn(base[q], Origins(isn[q]))
      /\ Cardinality(order.senders) <= 2 => order.ackChecks
      /\ InOrder(base, isn, m, Cardinality(pids) <= 2)
  BY <1>1 DEF FollowedBy
<1>10. \A q \in Pids \ {p} : origins[q] = isn[q] /\ placers[q] = order.placers[q]
  BY <1>3, <1>5 DEF OrderType
<1>11. origins[p] = i0 /\ placers[p] = placer
  BY <1>2, <1>3, <1>5 DEF OrderType
<1>12. \A q \in P : AllIn(base[q], Origins(origins[q]))
  BY <1>2, <1>9, <1>10, <1>11
<1>13. Near(base, origins, S, A)
  BY <1>8, <1>12 DEF Near
<1>14. Tracks(base, origins, next, S, A)
  <2>1. PlacedAs(base[p], origins[p], S[p], next.lastSeq[p], next.placers[p])
    <3>1. S[p] = {} /\ next.lastSeq[p] = None
      <4>1. PlacedAs(base[p], isn[p], S[p], order.lastSeq[p], order.placers[p])
        BY <1>2, <1>8 DEF Tracks
      <4> QED BY <1>2, <1>6, <1>8, <4>1 DEF PlacedAs
    <3>2. AllIn(base[p], Origins(i0)) /\ base[p] \in SeqNum
      BY <1>2
    <3>3. PlacedAs(base[p], i0, {}, None, NewPlacer(i0))
      BY <3>2, PlacedNothing
    <3> QED BY <1>4, <1>6, <1>11, <3>1, <3>3
  <2>2. ASSUME NEW q \in P \ {p}
        PROVE  PlacedAs(base[q], origins[q], S[q], next.lastSeq[q], next.placers[q])
    <3>1. PlacedAs(base[q], isn[q], S[q], order.lastSeq[q], order.placers[q])
      BY <1>8 DEF Tracks
    <3>2. origins[q] = isn[q] /\ next.placers[q] = order.placers[q] /\ next.lastSeq[q] = order.lastSeq[q]
      BY <1>6, <1>10
    <3> QED BY <3>1, <3>2
  <2>3. \A r \in Pids, q \in P : r # q => WalkedAs(base[q], A[r], next.acks[r])
    BY <1>6, <1>8 DEF Tracks
  <2> QED BY <2>1, <2>2, <2>3 DEF Tracks
<1>15. InOrder(base, origins, m, Cardinality(pids \cup {p}) <= 2)
  <2>1. Cardinality(pids \cup {p}) <= 2 => Cardinality(pids) <= 2
    <3>1. pids \cup {p} \in SUBSET Pids
      BY <1>2
    <3>2. IsFiniteSet(pids \cup {p})
      BY <3>1, PidsAssumption, FS_Subset
    <3>3. /\ Cardinality(pids) <= Cardinality(pids \cup {p})
          /\ Cardinality(pids) \in Nat /\ Cardinality(pids \cup {p}) \in Nat
      BY <3>2, FS_Subset, FS_CardinalityType
    <3> QED BY <3>3
  <2>2. \A j \in DOMAIN m : origins[m[j].pid] = isn[m[j].pid]
    BY <1>2, <1>8, <1>10
  <2> QED BY <1>9, <2>1, <2>2 DEF InOrder
<1>16. PICK all : all = pids \cup {p}
  OBVIOUS
<1>17. /\ all \subseteq P /\ next.senders \subseteq all
       /\ Cardinality(next.senders) <= 2 => next.ackChecks
       /\ \A q \in Pids \ all : S[q] = {} /\ A[q] = {}
       /\ \A i \in DOMAIN m :
             /\ m[i].pid \in all
             /\ m[i].seq # None => m[i].seq \in S[m[i].pid]
             /\ next.ackChecks /\ m[i].ack # None => m[i].ack \in A[m[i].pid]
  BY <1>6, <1>8, <1>9, <1>16
<1>18. v.pids = all /\ v.isn = origins /\ v.order = next
  BY <1>7, <1>16
<1>19. FollowedBy(base, v, m)
  <2>1. InOrder(base, v.isn, m, Cardinality(v.pids) <= 2)
    BY <1>15, <1>16, <1>18
  <2>2. Near(base, v.isn, S, A) /\ Tracks(base, v.isn, v.order, S, A)
    BY <1>13, <1>14, <1>18
  <2>3. DOMAIN base = P
    OBVIOUS
  <2> QED BY ONLY <1>12, <1>17, <1>18, <2>1, <2>2, <2>3, S \in [Pids -> SUBSET SeqNum],
                  A \in [Pids -> SUBSET SeqNum] DEF FollowedBy
<1> QED BY <1>7, <1>19

\* A session goes on from checker c to checker d: it was under way, and so its streams are.
StillOpen(c, d, s) ==
    s \in d.live => s \in c.live /\ \A p \in Pids : c.streams[s, p] # None => d.streams[s, p] # None

\* A session writer w of session s, under way in checker c, that has written the records
\* m: the checker has a stream of each of its participants, it buffers records of
\* no other, and its guards know of m.
Known(s, w, c, m) ==
    /\ s \in c.live => \A p \in w.pids : c.streams[s, p] # None
    /\ \A p \in Pair : w.pending[p] # << >> => p \in w.pids
    /\ w.verify => FollowedBy(Base[s], w, m)

\* A session whose guards stay as they are, and that buffers nothing new, stays known.
LEMMA KnownStays ==
    ASSUME NEW s \in Sids, NEW w \in WriterType, NEW v, NEW c, NEW d, NEW m, Known(s, w, c, m),
           StillOpen(c, d, s),
           v.verify = w.verify, v.pids = w.pids, v.isn = w.isn, v.order = w.order,
           \A p \in Pair : v.pending[p] # << >> => p \in v.pids
    PROVE  Known(s, v, d, m)
<1>1. s \in d.live => \A p \in v.pids : d.streams[s, p] # None
  <2>1. w.pids \subseteq Pids
    BY DEF WriterType
  <2> QED BY <2>1 DEF Known, StillOpen
<1>2. v.verify => FollowedBy(Base[s], v, m)
  <2>1. w.verify => FollowedBy(Base[s], w, m)
    BY DEF Known
  <2> QED BY <2>1 DEF FollowedBy
<1> QED BY <1>1, <1>2 DEF Known

\* The windows of streams that are short.
LEMMA BaseType ==
    ASSUME ShortStreams, NEW s \in Sids
    PROVE  /\ Peers(s) \in SUBSET Pids /\ Base[s] \in [Peers(s) -> SeqNum]
           /\ \A b \in Producer.records :
                 b.sid = s => (b.pid \in Peers(s) => NearHints(Base[s], b.pid, b))
           /\ \A b \in Producer.participants :
                 b.sid = s => b.pid \in Peers(s) /\ AllIn(Base[s][b.pid], Origins(b.isn))
<1>1. ShortFrom(Base)
  BY Zenon DEF ShortStreams, Base
<1>2. Peers(s) \in SUBSET Pids
  BY WriterAssumption DEF Peers
<1>3. \A b \in Producer.participants : b.sid = s => b.pid \in Peers(s)
  BY DEF Peers
<1> QED BY <1>1, <1>2, <1>3 DEF ShortFrom

LEMMA KnownNew ==
    ASSUME ShortStreams, NEW s \in Sids, NEW mode \in Modes, NEW c
    PROVE  Known(s, NewSession(mode), c, << >>)
<1>1. FollowedBy(Base[s], NewSession(mode), << >>)
  BY BaseType, FollowsNew
<1>2. NewSession(mode).pids = {} /\ \A p \in Pair : NewSession(mode).pending[p] = << >>
  BY DEF NewSession, NoStreams
<1> QED BY <1>1, <1>2 DEF Known

\* A participant is declared to the checker and to the session.
LEMMA KnownDeclared ==
    ASSUME ShortStreams, NEW b \in Producer.participants, NEW w \in WriterType,
           NEW c \in CheckerType, ~ Refuses(c, b), NEW m \in Seq(Producer.records),
           Known(b.sid, w, c, m)
    PROVE  Known(b.sid, DeclaredIn(w, b), Absorbed(c, b), m)
<1>1. PICK s \in Sids, p \in Pids, isn \in SeqNum \cup {None} : s = b.sid /\ p = b.pid /\ isn = b.isn
  BY WriterAssumption
<1>2. b.kind = "participant" /\ b \in BlockType
  BY WriterAssumption, ProducerAssumption
<1>3. s \in c.live /\ c.streams[s, p] = None /\ b.adjacency # "undefined"
  BY <1>1, <1>2 DEF Refuses, Declared, Live
<1>4. p \notin w.pids
  BY <1>1, <1>3 DEF Known
<1>5. PICK v : v = DeclaredIn(w, b)
  OBVIOUS
<1>6. v.pids = w.pids \cup {p} /\ v.verify = w.verify /\ v.pending = w.pending
  <2>1. PICK anchor : anchor = IF b.isn = None THEN None ELSE (b.isn + 1) % SeqSpace
    OBVIOUS
  <2>2. PICK placers : placers = [w.order.placers EXCEPT ![p] = NewPlacer(isn)]
    OBVIOUS
  <2>3. PICK order : order = [w.order EXCEPT !.placers = placers]
    OBVIOUS
  <2>4. PICK origins, anchors : origins = [w.isn EXCEPT ![p] = isn] /\ anchors = [w.anchor EXCEPT ![p] = anchor]
    OBVIOUS
  <2>5. v = [w EXCEPT !.pids = @ \cup {p}, !.isn[p] = isn, !.anchor[p] = anchor,
                      !.order.placers[p] = NewPlacer(isn)]
    BY <1>1, <1>5, <2>1 DEF DeclaredIn
  <2>6. v = [w EXCEPT !.pids = @ \cup {p}, !.isn = origins, !.anchor = anchors, !.order = order]
    BY <2>2, <2>3, <2>4, <2>5 DEF WriterType
  <2> QED BY <2>6 DEF WriterType
<1>7. PICK d \in CheckerType : d = Absorbed(c, b) /\ Follows(c, b, d)
  BY <1>2, Absorption, AbsorbedFollows
<1>8. \A q \in Pids : q = p \/ c.streams[s, q] # None => d.streams[s, q] # None
  <2>1. d.streams[s, p] # None
    <3>1. b.adjacency \in {"contiguous", "units", "undefined"}
      BY <1>2, DescriptorBlock
    <3>2. PICK stream \in StreamType : stream = NewStream(isn, b.adjacency)
      BY <1>3, <3>1, NewStreamType
    <3>3. d.streams = [c.streams EXCEPT ![<<s, p>>] = stream]
      BY <1>1, <1>2, <1>7, <3>2 DEF Follows
    <3> QED BY <3>3, NoStreamAssumption DEF CheckerType
  <2>2. ASSUME NEW q \in Pids, c.streams[s, q] # None
        PROVE  d.streams[s, q] # None
    BY <1>2, <1>7, <2>2, StreamsStay
  <2> QED BY <2>1, <2>2
<1>9. \A q \in v.pids : d.streams[s, q] # None
  <2>1. w.pids \subseteq Pids
    BY DEF WriterType
  <2> QED BY <1>1, <1>3, <1>6, <1>8, <2>1 DEF Known
<1>10. v.verify => FollowedBy(Base[s], v, m)
  <2>1. p \in Peers(s) /\ AllIn(Base[s][p], Origins(isn))
    BY <1>1, BaseType
  <2>2. w.verify => FollowedBy(Base[s], w, m)
    BY <1>1 DEF Known
  <2>3. w.verify => FollowedBy(Base[s], DeclaredIn(w, b), m)
    BY <1>1, <1>4, <2>1, <2>2, BaseType, FollowsDeclared
  <2> QED BY <1>5, <1>6, <2>3
<1> QED BY <1>1, <1>5, <1>6, <1>7, <1>9, <1>10 DEF Known

\* The guards leave a session with its participants and its modes.
LEMMA AfterRecordKeeps ==
    ASSUME NEW w \in WriterType, NEW b \in Producer.records
    PROVE  /\ AfterRecord(w, b).pids = w.pids /\ AfterRecord(w, b).verify = w.verify
           /\ AfterRecord(w, b).pending = w.pending
<1>1. PICK anchor : anchor = [w.anchor EXCEPT ![b.pid] = b.seq]
  OBVIOUS
<1>2. PICK moved : moved = Advance(w, b) /\ (moved = w \/ moved = [w EXCEPT !.anchor = anchor])
  BY <1>1 DEF Advance
<1>3. PICK order : order = OrderObserved(moved.order, None, b.pid, b)
  OBVIOUS
<1>4. AfterRecord(w, b) \in {w, moved, [moved EXCEPT !.order = order]}
  BY <1>2, <1>3 DEF AfterRecord
<1>5. /\ moved.pids = w.pids /\ moved.verify = w.verify /\ moved.pending = w.pending
      /\ DOMAIN moved = {"verify", "linearize", "pids", "isn", "anchor", "order", "pending"}
  BY <1>2 DEF WriterType
<1>6. PICK after : after = [moved EXCEPT !.order = order]
  OBVIOUS
<1>7. after.pids = w.pids /\ after.verify = w.verify /\ after.pending = w.pending
  BY <1>5, <1>6
<1> QED BY <1>4, <1>5, <1>6, <1>7

\* A record was stopped, refused or written.
LEMMA KnownWritten ==
    ASSUME ShortStreams, NEW b \in Producer.records, NEW w \in WriterType, b.pid \in w.pids,
           NEW c, NEW d, StillOpen(c, d, b.sid), NEW m \in Seq(Producer.records),
           Known(b.sid, w, c, m)
    PROVE  /\ Known(b.sid, AfterRecord(w, b), d, m)
           /\ ~ Stopped(w, b) => Known(b.sid, AfterRecord(w, b), d, Append(m, b))
<1>1. PICK s \in Sids : s = b.sid
  BY SentType
<1>2. PICK v : v = AfterRecord(w, b) /\ v.pids = w.pids /\ v.verify = w.verify /\ v.pending = w.pending
  BY AfterRecordKeeps
<1>3. s \in d.live => \A p \in v.pids : d.streams[s, p] # None
  <2>1. w.pids \subseteq Pids
    BY DEF WriterType
  <2> QED BY <1>1, <1>2, <2>1 DEF Known, StillOpen
<1>4. \A p \in Pair : v.pending[p] # << >> => p \in v.pids
  BY <1>2 DEF Known
<1>5. w.verify => /\ FollowedBy(Base[s], v, m)
                  /\ ~ Stopped(w, b) => FollowedBy(Base[s], v, Append(m, b))
  <2>1. b.pid \in Peers(s) => NearHints(Base[s], b.pid, b)
    BY <1>1, BaseType
  <2>2. w.verify => FollowedBy(Base[s], w, m)
    BY <1>1 DEF Known
  <2> QED BY <1>2, <2>1, <2>2, BaseType, FollowsWritten
<1> QED BY <1>1, <1>2, <1>3, <1>4, <1>5 DEF Known

\* A running merge has records of participants only.
MergeHandles ==
    call.step = "merge" => \A p \in Pair : streams[p] # << >> => p \in sessions[Head(call.left)].pids

\* The checker has no stream of a session that is over, and every session is known.
OrderInv ==
    /\ checker \in CheckerType /\ Trails(checker, checker)
    /\ EndKnown
    /\ \A s \in Sids : sessions[s] # None =>
          Known(s, sessions[s], checker, Kept(file, SentIn[s]))
    /\ MergeHandles

\* Whatever becomes of a block, the checker goes on with every session but one it begins.
LEMMA CheckerGoesOn ==
    ASSUME NEW c \in CheckerType, Trails(c, c), NEW b, NEW r \in BlockType, Alike(b, r), NEW d,
           d = c \/ d = Left(c, b) \/ (~ Refuses(c, b) /\ d = Absorbed(c, b))
    PROVE  /\ d \in CheckerType /\ Trails(d, d)
           /\ \A s \in Sids : (r.kind = "session" /\ r.sid = s) \/ StillOpen(c, d, s)
<1>1. CASE d = c
  BY <1>1 DEF StillOpen
<1>2. CASE d = Left(c, b)
  <2>1. d = Left(c, r)
    BY <1>2 DEF Alike
  <2>2. d \in CheckerType /\ Trails(c, d)
    BY <2>1, TrailLeaves
  <2>3. \A s \in Sids, p \in Pids :
          /\ s \notin d.live => d.streams[s, p] = None
          /\ s \in d.live => SameStanding(d.streams[s, p], c.streams[s, p])
    BY <2>2 DEF Trails
  <2>4. Trails(d, d)
    <3>1. \A x : SameStanding(x, x)
      BY DEF SameStanding
    <3> QED BY <2>3, <3>1 DEF Trails
  <2>5. ASSUME NEW s \in Sids
        PROVE  StillOpen(c, d, s)
    <3>1. s \in d.live => s \in c.live
      BY <2>2 DEF Trails, CheckerType
    <3>2. ASSUME s \in d.live, NEW p \in Pids, c.streams[s, p] # None
          PROVE  d.streams[s, p] # None
      <4>1. SameStanding(d.streams[s, p], c.streams[s, p])
        BY <2>3, <3>2
      <4> QED BY <3>2, <4>1 DEF SameStanding
    <3> QED BY <3>1, <3>2 DEF StillOpen
  <2> QED BY <2>2, <2>4, <2>5
<1>3. CASE ~ Refuses(c, b) /\ d = Absorbed(c, b)
  <2>1. ~ Refuses(c, r) /\ d = Absorbed(c, r)
    BY <1>3 DEF Alike
  <2>2. d \in CheckerType /\ Trails(d, d)
    BY <2>1, TrailAbsorbs
  <2>3. d.live = IF r.kind = "session" THEN c.live \cup {r.sid}
                 ELSE IF r.kind = "sessionEnd" THEN c.live \ {r.sid} ELSE c.live
    BY <2>1, Absorption, Zenon DEF Declares
  <2>4. ASSUME NEW s \in Sids, ~ (r.kind = "session" /\ r.sid = s), s \in d.live
        PROVE  s \in c.live /\ \A p \in Pids : c.streams[s, p] # None => d.streams[s, p] # None
    <3>1. s \in c.live /\ (r.kind = "sessionEnd" => r.sid # s)
      BY <2>3, <2>4
    <3> QED BY <2>1, <3>1, StreamsStay
  <2> QED BY <2>2, <2>4 DEF StillOpen
<1> QED BY <1>1, <1>2, <1>3

LEMMA EmitGoesOn ==
    ASSUME OrderInv, NEW b, NEW r \in BlockType, Alike(b, r), Emit(b)
    PROVE  /\ checker' \in CheckerType /\ Trails(checker', checker')
           /\ \A s \in Sids : (r.kind = "session" /\ r.sid = s) \/ StillOpen(checker, checker', s)
<1>1. PICK c \in CheckerType : c = checker /\ Trails(c, c)
  BY DEF OrderInv
<1>2. PICK d : d = checker'
  OBVIOUS
<1>3. d = c \/ d = Left(c, b) \/ (~ Refuses(c, b) /\ d = Absorbed(c, b))
  BY <1>1, <1>2 DEF Emit
<1>4. /\ d \in CheckerType /\ Trails(d, d)
      /\ \A s \in Sids : (r.kind = "session" /\ r.sid = s) \/ StillOpen(c, d, s)
  BY <1>1, <1>3, CheckerGoesOn
<1> QED BY <1>1, <1>2, <1>4

\* A step that leaves a session as it is.
LEMMA SessionGoesOn ==
    ASSUME OrderInv, WritersKnown, NEW s \in Sids, sessions'[s] = sessions[s], sessions[s] # None,
           StillOpen(checker, checker', s), Kept(file', SentIn[s]) = Kept(file, SentIn[s])
    PROVE  Known(s, sessions'[s], checker', Kept(file', SentIn[s]))
<1>1. PICK w \in WriterType : w = sessions[s]
  BY DEF WritersKnown
<1>2. PICK c, d, m : c = checker /\ d = checker' /\ m = Kept(file, SentIn[s])
  OBVIOUS
<1>3. Known(s, w, c, m)
  BY <1>1, <1>2 DEF OrderInv
<1>4. \A p \in Pair : w.pending[p] # << >> => p \in w.pids
  BY <1>3 DEF Known
<1>5. StillOpen(c, d, s)
  BY <1>2
<1>6. Known(s, w, d, m)
  BY <1>3, <1>4, <1>5, KnownStays
<1> QED BY <1>1, <1>2, <1>6

\* A step that changes one session, and leaves the others as they are.
LEMMA OneSession ==
    ASSUME OrderInv, WritersKnown, checker' \in CheckerType, Trails(checker', checker'),
           EndKnown', MergeHandles', NEW s \in Sids,
           sessions'[s] # None => Known(s, sessions'[s], checker', Kept(file', SentIn[s])),
           \A q \in Sids \ {s} : /\ sessions'[q] = sessions[q]
                                 /\ StillOpen(checker, checker', q)
                                 /\ Kept(file', SentIn[q]) = Kept(file, SentIn[q])
    PROVE  OrderInv'
<1>1. ASSUME NEW q \in Sids, sessions'[q] # None
      PROVE  Known(q, sessions'[q], checker', Kept(file', SentIn[q]))
  <2>1. CASE q = s
    BY <1>1, <2>1
  <2>2. CASE q # s
    BY <1>1, <2>2, SessionGoesOn
  <2> QED BY <2>1, <2>2
<1>2. SentIn' = SentIn
  BY DEF SentIn
<1> QED BY <1>1, <1>2 DEF OrderInv

\* A step that leaves every session as it is.
LEMMA NoSession ==
    ASSUME OrderInv, WritersKnown, checker' \in CheckerType, Trails(checker', checker'),
           EndKnown', MergeHandles', UNCHANGED sessions,
           \A q \in Sids : /\ StillOpen(checker, checker', q)
                           /\ Kept(file', SentIn[q]) = Kept(file, SentIn[q])
    PROVE  OrderInv'
<1>1. ASSUME NEW q \in Sids, sessions'[q] # None
      PROVE  Known(q, sessions'[q], checker', Kept(file', SentIn[q]))
  BY <1>1, SessionGoesOn
<1>2. SentIn' = SentIn
  BY DEF SentIn
<1> QED BY <1>1, <1>2 DEF OrderInv

\* A block that is no record and begins no session.
LEMMA BlockGoesOn ==
    ASSUME OrderInv, WriterInv, NEW b \in Blocks, b \in BlockType,
           b.kind \notin {"record", "session"}, Emit(b),
           EndKnown', MergeHandles', UNCHANGED sessions
    PROVE  OrderInv'
<1>1. WritersKnown /\ HistoryKnown
  BY DEF WriterInv
<1>2. Alike(b, b)
  BY DEF Alike
<1>3. /\ checker' \in CheckerType /\ Trails(checker', checker')
      /\ \A s \in Sids : StillOpen(checker, checker', s)
  BY <1>2, EmitGoesOn
<1>4. KeptAlike
  BY <1>1, NoRecordWritten
<1> QED BY <1>1, <1>3, <1>4, NoSession DEF KeptAlike

\* A step that neither emits nor touches a session.
LEMMA QuietGoesOn ==
    ASSUME OrderInv, WriterInv, UNCHANGED <<checker, file, sessions>>, EndKnown', MergeHandles'
    PROVE  OrderInv'
<1>1. WritersKnown
  BY DEF WriterInv
<1>2. \A s : StillOpen(checker, checker', s)
  BY DEF StillOpen
<1>3. checker' \in CheckerType /\ Trails(checker', checker')
  BY DEF OrderInv
<1> QED BY <1>1, <1>2, <1>3, NoSession

\* The records of a session in the file.
LEMMA WrittenType ==
    ASSUME HistoryKnown, NEW s \in Sids
    PROVE  Kept(file, SentIn[s]) \in Seq(Producer.records)
<1>1. file \in Seq(Blocks)
  BY DEF HistoryKnown
<1>2. PICK m \in Seq(Blocks) : m = Kept(file, SentIn[s])
  BY <1>1, KeptType
<1>3. ToSet(m) \subseteq SentIn[s]
  BY <1>1, <1>2, KeptMembers
<1>4. SentIn[s] \subseteq Producer.records
  BY DEF SentIn
<1>5. \A i \in 1 .. Len(m) : m[i] \in Producer.records
  BY <1>3, <1>4 DEF ToSet
<1> QED BY <1>2, <1>5

\* A record of a participant of its session is stopped, refused or written.
LEMMA RecordGoesOn ==
    ASSUME ShortStreams, OrderInv, WriterInv, NEW b \in Producer.records,
           sessions[b.sid] # None, b.pid \in sessions[b.sid].pids, EmitRecord(b.sid, b),
           EndKnown', MergeHandles'
    PROVE  OrderInv'
<1>1. PICK s \in Sids : s = b.sid
  BY SentType
<1>2. WritersKnown /\ HistoryKnown
  BY DEF WriterInv
<1>3. PICK w \in WriterType : w = sessions[s] /\ sessions \in [Sids -> WriterType \cup {None}]
  BY <1>1, <1>2 DEF WritersKnown
<1>4. PICK m \in Seq(Producer.records) : m = Kept(file, SentIn[s])
  BY <1>2, WrittenType
<1>5. sessions'[s] = AfterRecord(w, b) /\ \A q \in Sids \ {s} : sessions'[q] = sessions[q]
  BY <1>1, <1>3 DEF EmitRecord
<1>6. PICK c, d : c = checker /\ d = checker'
  OBVIOUS
<1>7. Known(s, w, c, m)
  BY <1>1, <1>3, <1>4, <1>6 DEF OrderInv
<1>8. /\ d \in CheckerType /\ Trails(d, d)
      /\ \A q \in Sids : StillOpen(c, d, q)
  <2>1. CASE Stopped(w, b)
    <3>1. d = c
      BY <1>1, <1>3, <1>6, <2>1 DEF EmitRecord
    <3> QED BY <1>6, <3>1 DEF OrderInv, StillOpen
  <2>2. CASE ~ Stopped(w, b)
    <3>1. Emit(b)
      BY <1>1, <1>3, <2>2 DEF EmitRecord
    <3>2. PICK r \in BlockType : r = RecordOf(b)
      BY ProducerAssumption
    <3>3. b.kind = "record" /\ SameFields(b, r) /\ r.kind = "record"
      BY <3>2, SentType DEF SameFields, RecordOf
    <3>4. Alike(b, r)
      BY <3>3, FieldsDecide
    <3>5. /\ checker' \in CheckerType /\ Trails(checker', checker')
          /\ \A q \in Sids : StillOpen(checker, checker', q)
      BY <3>1, <3>3, <3>4, EmitGoesOn
    <3> QED BY <1>6, <3>5
  <2> QED BY <2>1, <2>2
<1>9. /\ Known(s, AfterRecord(w, b), d, m)
      /\ ~ Stopped(w, b) => Known(s, AfterRecord(w, b), d, Append(m, b))
  BY <1>1, <1>3, <1>7, <1>8, KnownWritten
<1>10. /\ \A q \in Sids \ {s} : Kept(file', SentIn[q]) = Kept(file, SentIn[q])
       /\ \/ Kept(file', SentIn[s]) = m
          \/ ~ Stopped(w, b) /\ Kept(file', SentIn[s]) = Append(m, b)
  <2>1. CASE RecordEmits(s, b)
    <3>1. file' = Append(file, b) /\ ~ Stopped(w, b)
      BY <1>1, <1>3, <2>1, EmitRecordEffect DEF RecordEmits
    <3>2. file \in Seq(Blocks) /\ b \in Blocks
      BY <1>2, SentType DEF HistoryKnown
    <3> QED BY <1>1, <1>4, <3>1, <3>2, KeptOneMore
  <2>2. CASE ~ RecordEmits(s, b)
    <3>1. UNCHANGED file
      BY <1>1, <2>2, EmitRecordEffect
    <3> QED BY <1>4, <3>1
  <2> QED BY <2>1, <2>2
<1>11. Known(s, sessions'[s], checker', Kept(file', SentIn[s]))
  BY <1>5, <1>6, <1>9, <1>10
<1> QED BY <1>2, <1>5, <1>6, <1>8, <1>10, <1>11, OneSession

\* A session begun has written nothing.
LEMMA OrderBegins ==
    ASSUME ShortStreams, OrderInv, WriterInv, NEW s \in Producer.sids, NEW mode \in Producer.modes,
           BeginSession(s, mode), EndKnown', MergeHandles'
    PROVE  OrderInv'
<1>1. PICK b : b = [kind |-> "session", sid |-> s]
  OBVIOUS
<1>2. s \in Sids /\ mode \in Modes
  BY WriterAssumption DEF Modes
<1>3. b \in Blocks /\ b \in BlockType /\ b.kind = "session" /\ b.sid = s
  <2>1. b \in [kind : {"session"}, sid : Sids] /\ b.kind = "session" /\ b.sid = s
    BY <1>1, <1>2
  <2> QED BY <2>1, Zenon DEF BlockType, Blocks
<1>4. Emit(b) /\ sessions[s] = None
  BY <1>1 DEF BeginSession
<1>5. WritersKnown /\ HistoryKnown
  BY DEF WriterInv
<1>6. Alike(b, b)
  BY DEF Alike
<1>7. /\ checker' \in CheckerType /\ Trails(checker', checker')
      /\ \A q \in Sids \ {s} : StillOpen(checker, checker', q)
  BY <1>3, <1>4, <1>6, EmitGoesOn
<1>8. \A q \in Sids : Kept(file', SentIn[q]) = Kept(file, SentIn[q])
  BY <1>3, <1>4, <1>5, NoRecordWritten DEF KeptAlike
<1>9. /\ sessions'[s] = None \/ sessions'[s] = NewSession(mode)
      /\ \A q \in Sids \ {s} : sessions'[q] = sessions[q]
  BY <1>2, <1>4, <1>5 DEF BeginSession, WritersKnown
<1>10. Kept(file', SentIn[s]) = << >>
  BY <1>2, <1>4, <1>5, <1>8 DEF WritersKnown
<1>11. PICK d : d = checker'
  OBVIOUS
<1>12. Known(s, NewSession(mode), d, << >>)
  BY <1>2, KnownNew
<1> QED BY <1>2, <1>5, <1>7, <1>8, <1>9, <1>10, <1>11, <1>12, OneSession

\* A participant has sent nothing when it is declared.
LEMMA OrderDeclares ==
    ASSUME ShortStreams, OrderInv, WriterInv, NEW b \in Producer.participants,
           Participant(b), EndKnown', MergeHandles'
    PROVE  OrderInv'
<1>1. PICK s \in Sids : s = b.sid
  BY WriterAssumption
<1>2. b \in Blocks /\ b \in BlockType /\ b.kind = "participant"
  BY WriterAssumption, ProducerAssumption DEF Blocks
<1>3. /\ Emit(b) /\ sessions[s] # None
      /\ sessions' = IF Emits(b) THEN [sessions EXCEPT ![s] = DeclaredIn(@, b)] ELSE sessions
  BY <1>1 DEF Participant
<1>4. WritersKnown /\ HistoryKnown
  BY DEF WriterInv
<1>5. PICK w \in WriterType : w = sessions[s] /\ sessions \in [Sids -> WriterType \cup {None}]
  BY <1>3, <1>4 DEF WritersKnown
<1>6. CASE ~ Emits(b)
  BY <1>2, <1>3, <1>6, BlockGoesOn
<1>7. CASE Emits(b)
  <2>1. PICK c \in CheckerType : c = checker
    BY DEF OrderInv
  <2>2. ~ Refuses(c, b) /\ checker' = Absorbed(c, b)
    BY <1>3, <1>7, <2>1 DEF Emits, Emit
  <2>3. Alike(b, b)
    BY DEF Alike
  <2>4. /\ checker' \in CheckerType /\ Trails(checker', checker')
        /\ \A q \in Sids : StillOpen(checker, checker', q)
    BY <1>2, <1>3, <2>3, EmitGoesOn
  <2>5. \A q \in Sids : Kept(file', SentIn[q]) = Kept(file, SentIn[q])
    BY <1>2, <1>3, <1>4, NoRecordWritten DEF KeptAlike
  <2>6. PICK m \in Seq(Producer.records) : m = Kept(file, SentIn[s])
    BY <1>4, WrittenType
  <2>7. Known(s, w, c, m)
    BY <1>3, <1>5, <2>1, <2>6 DEF OrderInv
  <2>8. Known(s, DeclaredIn(w, b), Absorbed(c, b), m)
    BY <1>1, <2>2, <2>7, KnownDeclared
  <2>9. sessions'[s] = DeclaredIn(w, b) /\ \A q \in Sids \ {s} : sessions'[q] = sessions[q]
    BY <1>3, <1>5, <1>7
  <2>10. Known(s, sessions'[s], checker', Kept(file', SentIn[s]))
    BY <2>2, <2>5, <2>6, <2>8, <2>9
  <2> QED BY <1>4, <2>4, <2>5, <2>9, <2>10, OneSession
<1> QED BY <1>6, <1>7

\* A session that changes its buffer alone.
LEMMA BufferGoesOn ==
    ASSUME OrderInv, WriterInv, NEW s \in Sids, sessions[s] # None,
           NEW pending, sessions' = [sessions EXCEPT ![s].pending = pending],
           UNCHANGED <<checker, file>>, EndKnown', MergeHandles',
           \A p \in Pair : pending[p] # << >> => p \in sessions[s].pids
    PROVE  OrderInv'
<1>1. WritersKnown
  BY DEF WriterInv
<1>2. PICK w \in WriterType : w = sessions[s] /\ sessions \in [Sids -> WriterType \cup {None}]
  BY <1>1 DEF WritersKnown
<1>3. PICK v : v = [w EXCEPT !.pending = pending]
  OBVIOUS
<1>4. /\ v.verify = w.verify /\ v.pids = w.pids /\ v.isn = w.isn /\ v.order = w.order
      /\ v.pending = pending
  BY <1>3 DEF WriterType
<1>5. sessions'[s] = v /\ \A q \in Sids \ {s} : sessions'[q] = sessions[q]
  BY <1>2, <1>3
<1>6. PICK c, m : c = checker /\ m = Kept(file, SentIn[s])
  OBVIOUS
<1>7. Known(s, w, c, m)
  BY <1>2, <1>6 DEF OrderInv
<1>8. StillOpen(c, c, s) /\ \A q : StillOpen(checker, checker', q)
  BY DEF StillOpen
<1>9. \A p \in Pair : v.pending[p] # << >> => p \in v.pids
  BY <1>2, <1>4
<1>10. Known(s, v, c, m)
  BY <1>4, <1>7, <1>8, <1>9, KnownStays
<1>11. checker' \in CheckerType /\ Trails(checker', checker')
  BY DEF OrderInv
<1>12. Known(s, sessions'[s], checker', Kept(file', SentIn[s]))
  BY <1>5, <1>6, <1>10
<1> QED BY <1>1, <1>5, <1>8, <1>11, <1>12, OneSession

\* The record that a merge yields is of a participant of its session.
LEMMA YieldGoesOn ==
    ASSUME ShortStreams, OrderInv, WriterInv, NEW p \in Pair, MergeYields(p)
    PROVE  OrderInv'
<1>1. CallKnown /\ WritersKnown /\ EndKnown /\ MergeHandles /\ call.step = "merge"
  BY DEF WriterInv, OrderInv, MergeYields
<1>2. PICK b \in Producer.records : /\ b = frontier[p].head /\ b.sid = Head(call.left) /\ b.pid = p
                                    /\ UNCHANGED streams
  BY HeadYielded
<1>3. PICK s \in Sids : s = b.sid /\ s = Head(call.left) /\ sessions[s] # None
  <2>1. b.sid \in Sids
    BY SentType
  <2>2. sessions[Head(call.left)] # None
    BY <1>1 DEF CallKnown
  <2> QED BY <1>2, <2>1, <2>2
<1>4. EmitRecord(s, b) /\ (UNCHANGED call \/ call' = [call EXCEPT !.step = "raise"])
  BY <1>2, <1>3 DEF MergeYields
<1>5. streams[p] # << >>
  <2>1. b # None /\ HeadInStream(p)
    BY <1>1, <1>2, SentType DEF WriterInv, MergeKnown
  <2> QED BY <1>2, <2>1 DEF HeadInStream
<1>6. p \in sessions[s].pids
  BY <1>1, <1>3, <1>5 DEF MergeHandles
<1>7. EndKnown'
  BY <1>1, <1>4, CallKeepsSid
<1>8. PICK w \in WriterType : w = sessions[s] /\ sessions \in [Sids -> WriterType \cup {None}]
  BY <1>1, <1>3 DEF WritersKnown
<1>9. sessions'[s].pids = sessions[s].pids
  <2>1. sessions'[s] = AfterRecord(w, b)
    BY <1>4, <1>8 DEF EmitRecord
  <2> QED BY <1>8, <2>1, AfterRecordKeeps
<1>10. MergeHandles'
  <2>1. \A q \in Pair : streams'[q] # << >> => q \in sessions'[s].pids
    BY <1>1, <1>2, <1>3, <1>9 DEF MergeHandles
  <2>2. call'.left = call.left
    <3>1. CASE UNCHANGED call
      BY <3>1
    <3>2. CASE call' = [call EXCEPT !.step = "raise"]
      BY <1>1, <3>2 DEF CallKnown
    <3> QED BY <1>4, <3>1, <3>2
  <2> QED BY <1>3, <2>1, <2>2 DEF MergeHandles
<1> QED BY <1>2, <1>3, <1>4, <1>6, <1>7, <1>10, RecordGoesOn

\* A step of the library inside a call.
LEMMA OrderInside ==
    ASSUME ShortStreams, OrderInv, WriterInv, Inside
    PROVE  OrderInv'
<1>1. CallKnown /\ WritersKnown /\ EndKnown /\ MergeHandles
  BY DEF WriterInv, OrderInv
<1>2. CASE SkipFlush \/ FlushDone \/ Unwind
  <2>1. UNCHANGED <<checker, file, sessions>>
    BY <1>2 DEF SkipFlush, FlushDone, Unwind
  <2>2. EndKnown'
    <3>1. \/ call' = Idle
          \/ call' = [call EXCEPT !.left = Tail(@)]
          \/ call' = [call EXCEPT !.step = "flush", !.left = Tail(@)]
      BY <1>2 DEF SkipFlush, FlushDone, Unwind
    <3> QED BY <1>1, <3>1, CallKeepsSid
  <2>3. call'.step # "merge"
    <3>1. call.step = "flush" /\ call' = [call EXCEPT !.left = Tail(@)] => call'.step # "merge"
      BY <1>1 DEF CallKnown
    <3>2. call' = [call EXCEPT !.step = "flush", !.left = Tail(@)] => call'.step # "merge"
      BY <1>1 DEF CallKnown
    <3>3. call' = Idle => call'.step # "merge"
      BY DEF Idle
    <3> QED BY <1>2, <3>1, <3>2, <3>3 DEF SkipFlush, Flushing, FlushDone, Unwind
  <2> QED BY <2>1, <2>2, <2>3, QuietGoesOn DEF MergeHandles
<1>3. CASE StartFlush
  <2>1. PICK s \in Sids : s = Head(call.left) /\ sessions[s] # None
    BY <1>1, <1>3 DEF StartFlush, Flushing, CallKnown
  <2>2. /\ sessions' = [sessions EXCEPT ![s].pending = NoStreams]
        /\ streams' = sessions[s].pending /\ call' = [call EXCEPT !.step = "merge"]
        /\ UNCHANGED <<checker, file>>
    BY <1>3, <2>1 DEF StartFlush, PendingOf
  <2>3. EndKnown'
    BY <1>1, <2>2, CallKeepsSid
  <2>4. PICK w \in WriterType : w = sessions[s] /\ sessions \in [Sids -> WriterType \cup {None}]
    BY <1>1, <2>1 DEF WritersKnown
  <2>5. sessions'[s].pids = w.pids
    <3>1. sessions'[s] = [w EXCEPT !.pending = NoStreams]
      BY <2>2, <2>4
    <3> QED BY <3>1 DEF WriterType
  <2>6. \A p \in Pair : w.pending[p] # << >> => p \in w.pids
    BY <2>1, <2>4 DEF OrderInv, Known
  <2>7. call'.left = call.left
    BY <1>1, <2>2 DEF CallKnown
  <2>8. MergeHandles'
    BY <2>1, <2>2, <2>4, <2>5, <2>6, <2>7 DEF MergeHandles
  <2>9. \A p \in Pair : NoStreams[p] = << >>
    BY DEF NoStreams
  <2> QED BY <2>1, <2>2, <2>3, <2>8, <2>9, BufferGoesOn
<1>4. CASE MergeRuns
  <2>1. UNCHANGED <<checker, file, sessions, call, streams>>
    BY <1>4 DEF MergeRuns, Merge!Prime, Merge!Refuse, Merge!Begin, Merge!Stall, Merge!Finish
  <2>2. EndKnown' /\ MergeHandles'
    BY <1>1, <2>1 DEF EndKnown, MergeHandles
  <2> QED BY <2>1, <2>2, QuietGoesOn
<1>5. ASSUME NEW p \in Pair, MergeYields(p)
      PROVE  OrderInv'
  BY <1>5, YieldGoesOn
<1>6. CASE EndSession
  <2>1. call.op = "end" /\ Emit(SessionEndOf(call.sid, call.extents)) /\ call' = Idle /\ UNCHANGED sessions
    BY <1>6 DEF EndSession, Flushed
  <2>2. PICK b : b = SessionEndOf(call.sid, call.extents)
    OBVIOUS
  <2>3. b \in Blocks /\ b \in BlockType /\ b.kind \notin {"record", "session"}
    <3>1. call.sid \in Sids /\ call.extents \in Seq(ExtentType)
      BY <1>1, <2>1 DEF EndKnown, CallKnown
    <3>2. /\ b \in [kind : {"sessionEnd"}, sid : Sids, extents : Seq(ExtentType)]
          /\ b \in [kind : {"sessionEnd"}, sid : Sids \cup {None}, extents : Seq(ExtentType)]
          /\ b.kind = "sessionEnd"
      BY <2>2, <3>1 DEF SessionEndOf
    <3>3. b \in BlockType /\ b \in Blocks
      BY <3>2, Zenon DEF BlockType, Blocks
    <3> QED BY <3>2, <3>3
  <2>4. EndKnown' /\ MergeHandles'
    BY <2>1 DEF EndKnown, MergeHandles, Idle
  <2> QED BY <2>1, <2>2, <2>3, <2>4, BlockGoesOn
<1>7. CASE EndFile
  <2>1. call' = Idle /\ UNCHANGED sessions
    BY <1>7 DEF EndFile
  <2>2. EndKnown' /\ MergeHandles'
    BY <2>1 DEF EndKnown, MergeHandles, Idle
  <2>3. CASE Complete
    <3>1. UNCHANGED <<checker, file>>
      BY <1>7, <2>3 DEF EndFile
    <3> QED BY <2>1, <2>2, <3>1, QuietGoesOn
  <2>4. CASE ~ Complete
    <3>1. PICK b : b = [kind |-> "end"]
      OBVIOUS
    <3>2. Emit(b)
      BY <1>7, <2>4, <3>1 DEF EndFile
    <3>3. b \in Blocks /\ b \in BlockType /\ b.kind \notin {"record", "session"}
      <4>1. b \in [kind : {"custom", "end"}] /\ b.kind = "end"
        BY <3>1
      <4>2. b \in BlockType /\ b \in Blocks
        BY <3>1, <4>1, Zenon DEF BlockType, Blocks
      <4> QED BY <4>1, <4>2
    <3> QED BY <2>1, <2>2, <3>2, <3>3, BlockGoesOn
  <2> QED BY <2>3, <2>4
<1> QED BY <1>2, <1>3, <1>4, <1>5, <1>6, <1>7 DEF Inside

LEMMA OrderNext == ShortStreams /\ WriterInv /\ OrderInv /\ [Next]_vars => OrderInv'
<1> SUFFICES ASSUME ShortStreams, WriterInv, OrderInv, [Next]_vars PROVE OrderInv'
  OBVIOUS
<1>1. CallKnown /\ WritersKnown /\ EndKnown /\ MergeHandles
  BY DEF WriterInv, OrderInv
<1>2. CASE UNCHANGED vars
  <2>1. UNCHANGED <<checker, file, sessions, call, streams>>
    BY <1>2 DEF vars, mergeVars
  <2>2. EndKnown' /\ MergeHandles'
    BY <1>1, <2>1 DEF EndKnown, MergeHandles
  <2> QED BY <2>1, <2>2, QuietGoesOn
<1>3. call' = Idle => EndKnown' /\ MergeHandles'
  BY DEF Idle, EndKnown, MergeHandles
<1>4. MayCall /\ UNCHANGED call => EndKnown' /\ MergeHandles'
  BY <1>3 DEF MayCall
<1>5. ASSUME NEW b \in Producer.declarations, Declare(b) PROVE OrderInv'
  <2>1. b \in BlockType /\ b \in Blocks /\ b.kind \notin {"record", "session"}
    BY WriterAssumption, ProducerAssumption DEF Stateless, Blocks
  <2>2. Emit(b) /\ UNCHANGED sessions /\ EndKnown' /\ MergeHandles'
    BY <1>4, <1>5 DEF Declare
  <2> QED BY <2>1, <2>2, BlockGoesOn
<1>6. ASSUME NEW s \in Producer.sids, NEW mode \in Producer.modes, BeginSession(s, mode) PROVE OrderInv'
  <2>1. EndKnown' /\ MergeHandles'
    BY <1>4, <1>6 DEF BeginSession
  <2> QED BY <1>6, <2>1, OrderBegins
<1>7. ASSUME NEW b \in Producer.participants, Participant(b) PROVE OrderInv'
  <2>1. EndKnown' /\ MergeHandles'
    BY <1>4, <1>7 DEF Participant
  <2> QED BY <1>7, <2>1, OrderDeclares
<1>8. ASSUME NEW b \in Producer.records, Buffer(b) PROVE OrderInv'
  <2>1. PICK s \in Sids, p \in Pair : s = b.sid /\ p = b.pid
    BY <1>8, SentType DEF Buffer
  <2>2. PICK w \in WriterType : w = sessions[s] /\ sessions \in [Sids -> WriterType \cup {None}]
    BY <1>1, <1>8, <2>1 DEF Buffer, HasHandle, WritersKnown
  <2>3. PICK pending : pending = [w.pending EXCEPT ![p] = Append(@, b)]
    OBVIOUS
  <2>4. /\ sessions' = [sessions EXCEPT ![s].pending = pending]
        /\ sessions[s] # None /\ p \in w.pids /\ UNCHANGED <<checker, file>>
    BY <1>8, <2>1, <2>2, <2>3 DEF Buffer, HasHandle
  <2>5. \A q \in Pair : pending[q] # << >> => q \in w.pids
    <3>1. \A q \in Pair : w.pending[q] # << >> => q \in w.pids
      BY <2>2, <2>4 DEF OrderInv, Known
    <3>2. \A q \in Pair \ {p} : pending[q] = w.pending[q]
      BY <2>3 DEF WriterType
    <3> QED BY <2>4, <3>1, <3>2
  <2>6. EndKnown' /\ MergeHandles'
    BY <1>4, <1>8 DEF Buffer
  <2> QED BY <2>2, <2>4, <2>5, <2>6, BufferGoesOn
<1>9. ASSUME NEW b \in Producer.records, Record(b) PROVE OrderInv'
  <2>1. EmitRecord(b.sid, b) /\ sessions[b.sid] # None /\ b.pid \in sessions[b.sid].pids
    BY <1>9 DEF Record, HasHandle
  <2>2. EndKnown' /\ MergeHandles'
    BY <1>4, <1>9 DEF Record
  <2> QED BY <2>1, <2>2, RecordGoesOn
<1>10. ASSUME NEW b \in Producer.breaks, Discontinuity(b) PROVE OrderInv'
  <2>1. b \in BlockType /\ b \in Blocks /\ b.kind \notin {"record", "session"}
    BY WriterAssumption, ProducerAssumption DEF Blocks
  <2>2. Emit(b) /\ UNCHANGED sessions /\ EndKnown' /\ MergeHandles'
    BY <1>4, <1>10 DEF Discontinuity
  <2> QED BY <2>1, <2>2, BlockGoesOn
<1>11. ASSUME NEW s \in Sids, End(s, << >>) PROVE OrderInv'
  <2>1. UNCHANGED <<checker, file, sessions>> /\ call'.sid = s /\ call'.step = "flush"
    BY <1>11 DEF End
  <2> QED BY <2>1, QuietGoesOn DEF EndKnown, MergeHandles
<1>12. CASE Close \/ Abandon
  <2>1. /\ UNCHANGED <<checker, file, sessions, streams>>
        /\ UNCHANGED call \/ (call'.op = "close" /\ call'.step = "flush")
    BY <1>12 DEF Close, Abandon, mergeVars
  <2>2. EndKnown' /\ MergeHandles'
    BY <1>1, <2>1 DEF EndKnown, MergeHandles
  <2> QED BY <2>1, <2>2, QuietGoesOn
<1>13. CASE Inside
  BY <1>13, OrderInside
<1> QED BY <1>2, <1>5, <1>6, <1>7, <1>8, <1>9, <1>10, <1>11, <1>12, <1>13 DEF Next, Calls, Closing

LEMMA OrderInit == Init => OrderInv
<1> SUFFICES ASSUME Init PROVE OrderInv
  OBVIOUS
<1>1. ClearInv /\ tail.checker = checker /\ call = Idle
  BY ClearInit DEF Init, InitAfter
<1>2. \A s \in Sids : sessions[s] = None
  <2>1. Begun(<<Header>>) = {}
    <3>1. DOMAIN <<Header>> = {1} /\ <<Header>>[1].kind = "header"
      BY WriterAssumption
    <3> QED BY <3>1 DEF Begun
  <2> QED BY <2>1 DEF Init, InitAfter
<1>3. checker \in CheckerType /\ Trails(checker, checker) /\ EndKnown
  BY <1>1 DEF ClearInv
<1>4. MergeHandles
  BY <1>1 DEF Idle, MergeHandles
<1> QED BY <1>2, <1>3, <1>4 DEF OrderInv

LEMMA OrderVerifies ==
    ASSUME ShortStreams, WriterInv, OrderInv
    PROVE  SequencedFileVerifies
<1> SUFFICES ASSUME NEW s \in Sids, sessions[s] # None, sessions[s].verify
             PROVE  Verifies(s)
  BY DEF SequencedFileVerifies
<1>1. WritersKnown /\ HistoryKnown
  BY DEF WriterInv
<1>2. PICK w \in WriterType : w = sessions[s]
  BY <1>1 DEF WritersKnown
<1>3. PICK m \in Seq(Producer.records) : m = Kept(file, SentIn[s])
  BY <1>1, WrittenType
<1>4. FollowedBy(Base[s], w, m)
  <2>1. Known(s, w, checker, m)
    BY <1>2, <1>3 DEF OrderInv
  <2> QED BY <1>2, <2>1 DEF Known
<1>5. \A j \in DOMAIN m : m[j].pid \in Peers(s) => NearHints(Base[s], m[j].pid, m[j])
  <2>1. \A j \in DOMAIN m : m[j] \in Producer.records /\ m[j].sid = s
    <3>1. file \in Seq(Blocks)
      BY <1>1 DEF HistoryKnown
    <3>2. ToSet(m) \subseteq SentIn[s]
      BY <1>3, <3>1, KeptMembers
    <3>3. \A j \in DOMAIN m : m[j] \in SentIn[s]
      BY <3>2 DEF ToSet
    <3> QED BY <3>3 DEF SentIn
  <2> QED BY <2>1, BaseType
<1>6. PICK count, start : count = Cardinality(w.pids) /\ start = [order |-> NewOrder(count, w.isn), ok |-> TRUE]
  OBVIOUS
<1>7. Gone(count, start, m).ok
  BY <1>4, <1>5, <1>6, BaseType, FollowedVerifies
<1>8. Verifies(s) <=>
        Gone(Cardinality(sessions[s].pids),
             [order |-> NewOrder(Cardinality(sessions[s].pids), sessions[s].isn), ok |-> TRUE],
             Kept(file, SentIn[s])).ok
  BY Zenon DEF Verifies, Gone
<1> QED BY <1>2, <1>3, <1>6, <1>7, <1>8

\* The records a verify_order session wrote pass the check of a reader, whatever was
\* refused on the way and however they were flushed, as long as the streams are
\* shorter than half the sequence space: the guards see more of a session than is
\* written, and know less of it than its reader, and still refuse all that it would
\* (writer.py SessionWriter._emit_record, reader.py SessionReader.verify).
THEOREM SequencedFilesVerify == ShortStreams /\ Spec => []SequencedFileVerifies
<1> SUFFICES ASSUME ShortStreams PROVE Spec => []SequencedFileVerifies
  OBVIOUS
<1>1. WriterInv /\ OrderInv => SequencedFileVerifies
  BY OrderVerifies
<1>2. OrderInv /\ WriterInv /\ [Next]_vars => OrderInv'
  BY OrderNext
<1> QED BY <1>1, <1>2, OrderInit, WriterAlwaysSound, PTL DEF Spec
===============================================================================
