---------------------------- MODULE SessionizeProofs ----------------------------
(***************************************************************************)
(* SessionizeStage, for every caller, input and output: the ledger and     *)
(* coverage of StageProofs are kept by each of its steps, and each Session *)
(* End in the file declares the input streams its session's records cite.  *)
(***************************************************************************)
EXTENDS SessionizeStage, StageProofs

-------------------------------------------------------------------------------
(* A set as a sequence *)

LEMMA ListOfSet ==
    ASSUME NEW S, IsFiniteSet(S)
    PROVE  /\ SetToSeq(S) \in Seq(S)
           /\ ToSet(SetToSeq(S)) = S
           /\ \A i, j \in DOMAIN SetToSeq(S) : i # j => SetToSeq(S)[i] # SetToSeq(S)[j]
<1>1. Cardinality(S) \in Nat /\ ExistsBijection(1 .. Cardinality(S), S)
  BY FS_CardinalityType
<1>2. PICK n \in Nat : n = Cardinality(S)
  BY <1>1
<1>3. PICK f \in [1 .. n -> S] : IsInjective(f)
  BY <1>1, <1>2 DEF ExistsBijection, Bijection, Injection, IsInjective
<1>4. SetToSeq(S) \in [1 .. n -> S] /\ IsInjective(SetToSeq(S))
  BY <1>2, <1>3 DEF SetToSeq
<1>5. PICK g \in [1 .. n -> S] : g = SetToSeq(S) /\ IsInjective(g)
  BY <1>4
<1>6. g \in Surjection(1 .. n, S)
  <2>1. g \in Injection(1 .. n, S)
    BY <1>5 DEF Injection, IsInjective
  <2>2. IsFiniteSet(1 .. n) /\ Cardinality(1 .. n) = n
    BY FS_Interval
  <2> QED BY <1>2, <2>1, <2>2, FS_Injection
<1>7. g \in Seq(S)
  BY <1>5
<1>8. ToSet(g) = S
  BY <1>5, <1>6 DEF Surjection, ToSet
<1> QED BY <1>5, <1>7, <1>8 DEF IsInjective

\* Two lists of different things, one behind the other.
LEMMA ListsJoin ==
    ASSUME NEW T, NEW a \in Seq(T), NEW b \in Seq(T), IsInjective(a), IsInjective(b),
           ToSet(a) \cap ToSet(b) = {}
    PROVE  a \o b \in Seq(T) /\ IsInjective(a \o b) /\ ToSet(a \o b) = ToSet(a) \cup ToSet(b)
<1>1. PICK c \in Seq(T) : c = a \o b
  <2>1. a \o b \in Seq(T)
    OBVIOUS
  <2> QED BY <2>1
<1>2. /\ Len(a) \in Nat /\ Len(b) \in Nat /\ DOMAIN a = 1 .. Len(a) /\ DOMAIN b = 1 .. Len(b)
      /\ DOMAIN c = 1 .. Len(a) + Len(b)
      /\ \A i \in 1 .. Len(a) : c[i] = a[i]
      /\ \A i \in Len(a) + 1 .. Len(a) + Len(b) : c[i] = b[i - Len(a)]
  BY <1>1
<1>3. \A i \in 1 .. Len(a) : c[i] \in ToSet(a)
  BY <1>2 DEF ToSet
<1>4. \A i \in Len(a) + 1 .. Len(a) + Len(b) : c[i] \in ToSet(b)
  BY <1>2 DEF ToSet
<1>5. ToSet(c) = ToSet(a) \cup ToSet(b)
  <2>1. ASSUME NEW x \in ToSet(a) PROVE x \in ToSet(c)
    <3>1. PICK i \in 1 .. Len(a) : x = a[i]
      BY <1>2 DEF ToSet
    <3>2. i \in DOMAIN c /\ c[i] = x
      BY <1>2, <3>1
    <3> QED BY <3>2 DEF ToSet
  <2>2. ASSUME NEW x \in ToSet(b) PROVE x \in ToSet(c)
    <3>1. PICK i \in 1 .. Len(b) : x = b[i]
      BY <1>2 DEF ToSet
    <3>2. Len(a) + i \in DOMAIN c /\ c[Len(a) + i] = x
      BY <1>2, <3>1
    <3> QED BY <3>2 DEF ToSet
  <2>3. ASSUME NEW x \in ToSet(c) PROVE x \in ToSet(a) \cup ToSet(b)
    <3>1. PICK i \in 1 .. Len(a) + Len(b) : x = c[i]
      BY <1>2 DEF ToSet
    <3> QED BY <1>2, <1>3, <1>4, <3>1
  <2> QED BY <2>1, <2>2, <2>3
<1>6. IsInjective(c)
  <2> SUFFICES ASSUME NEW i \in 1 .. Len(a) + Len(b), NEW j \in 1 .. Len(a) + Len(b), c[i] = c[j]
               PROVE  i = j
    BY <1>2 DEF IsInjective
  <2>5. /\ \A m, n \in 1 .. Len(a) : a[m] = a[n] => m = n
        /\ \A m, n \in 1 .. Len(b) : b[m] = b[n] => m = n
    BY <1>2 DEF IsInjective
  <2>1. CASE i <= Len(a) /\ j <= Len(a)
    BY <1>2, <2>1, <2>5
  <2>2. CASE i > Len(a) /\ j > Len(a)
    <3>1. i - Len(a) \in 1 .. Len(b) /\ j - Len(a) \in 1 .. Len(b)
      BY <1>2, <2>2
    <3>2. b[i - Len(a)] = b[j - Len(a)]
      BY <1>2, <2>2
    <3>3. i - Len(a) = j - Len(a)
      BY <2>5, <3>1, <3>2
    <3> QED BY <1>2, <3>3
  <2>3. CASE i <= Len(a) /\ j > Len(a)
    <3>1. c[i] \in ToSet(a) /\ c[j] \in ToSet(b)
      BY <1>2, <1>3, <1>4, <2>3
    <3> QED BY <3>1
  <2>4. CASE i > Len(a) /\ j <= Len(a)
    <3>1. c[j] \in ToSet(a) /\ c[i] \in ToSet(b)
      BY <1>2, <1>3, <1>4, <2>4
    <3> QED BY <3>1
  <2> QED BY <1>2, <2>1, <2>2, <2>3, <2>4
<1> QED BY <1>1, <1>5, <1>6

-------------------------------------------------------------------------------
(* The inductive invariant of the flows *)

\* The input streams that the records a session accepted draw on.
Drawn(s) == UNION { StreamsCited(b) : b \in ToSet(accepted[s]) }

\* The extents are those an ended flow declares for its session.
Settled(s, extents) ==
    \E i \in DOMAIN flows : flows[i].sid = s /\ flows[i].ended /\ extents = ExtentsOf(flows[i])

\* The sessions whose Session End is in the file.
Over == { s \in Sids : \E b \in ToSet(file) : b.kind = "sessionEnd" /\ b.sid = s }

\* Each session is one flow's, and a flow remembers what its records draw on.
FlowsKnown ==
    /\ flows \in Seq(FlowType)
    /\ pieces \in Seq(Producer.declarations)
    /\ \A s \in Sids : sessions[s] # None <=> \E i \in DOMAIN flows : flows[i].sid = s
    /\ \A i, j \in DOMAIN flows : i # j => flows[i].sid # flows[j].sid
    /\ \A i \in DOMAIN flows :
          IsInjective(flows[i].cited) /\ ToSet(flows[i].cited) = Drawn(flows[i].sid)

\* An end() under way is of a flow just marked as ended, whose session has no
\* Session End yet; close() is called when every flow has ended.
EndingKnown ==
    /\ call.op = "none" => call.step = "none"
    /\ call.op = "close" => \A i \in DOMAIN flows : flows[i].ended
    /\ call.op = "end" =>
          /\ Settled(call.sid, call.extents)
          /\ call.sid \notin Over \cup lost
          /\ \/ call.left = <<call.sid>>
             \/ call.left = << >> /\ sessions[call.sid].pending = NoStreams

\* A session that is over holds nothing back, and takes and writes no record again.
EndsKnown ==
    /\ \A s \in lost : \E i \in DOMAIN flows : flows[i].sid = s /\ flows[i].ended
    /\ \A m, n \in DOMAIN file :
          file[m].kind = "sessionEnd" /\ file[n].kind = "sessionEnd" /\ file[m].sid = file[n].sid => m = n
    /\ \A b \in ToSet(file) : b.kind = "sessionEnd" => Settled(b.sid, b.extents)
    /\ \A s \in Over :
          /\ ToSet(accepted[s]) = ToSet(file) \cap SentIn[s]
          /\ sessions[s].pending = NoStreams
          /\ call.step = "merge" => Head(call.left) # s

FlowInv == FlowsKnown /\ EndingKnown /\ EndsKnown

SoundFlows == WriterInv /\ StageInv /\ FlowInv

\* The input streams a stage reads are inputs of the checker.
LEMMA CitedAreInputs ==
    ASSUME stage.inputs \in InputFiles, NEW b \in Producer.records
    PROVE  StreamsCited(b) \subseteq Inputs /\ IsFiniteSet(StreamsCited(b))
<1>1. \A x \in ToSet(stage.inputs) : InputOf(x.sid, x.pid) \in Inputs
  BY InputsFit
<1>2. StreamsCited(b) \subseteq Inputs
  BY <1>1 DEF StreamsCited
<1>3. IsFiniteSet(b.spans)
  BY StageAssumption
<1> DEFINE T == { span.input : span \in b.spans }
           f == [span \in b.spans |-> span.input]
<1>4. IsFiniteSet(T)
  <2>1. f \in Surjection(b.spans, T)
    BY DEF Surjection
  <2> HIDE DEF f, T
  <2> QED BY <1>3, <2>1, FS_Surjection
<1>5. StreamsCited(b) \in SUBSET T
  BY DEF StreamsCited
<1> HIDE DEF T
<1> QED BY <1>2, <1>4, <1>5, FS_Subset

\* The extents a flow declares are the whole of the streams it cited.
LEMMA ExtentsFit ==
    ASSUME stage.inputs \in InputFiles, NEW flow, flow.cited \in Seq(Inputs),
           ToSet(flow.cited) \subseteq { InputOf(x.sid, x.pid) : x \in ToSet(stage.inputs) }
    PROVE  /\ ExtentsOf(flow) \in Seq(ExtentType)
           /\ DOMAIN ExtentsOf(flow) = DOMAIN flow.cited
           /\ \A n \in DOMAIN flow.cited :
                 /\ ExtentsOf(flow)[n].input = flow.cited[n]
                 /\ \E x \in ToSet(stage.inputs) :
                       InputOf(x.sid, x.pid) = flow.cited[n] /\ x.extent = ExtentsOf(flow)[n].extent
<1>1. \A x \in ToSet(stage.inputs) : x.extent \in Nat /\ InputOf(x.sid, x.pid) \in Inputs
  BY InputsFit DEF InputStream
<1> DEFINE X(n) == CHOOSE x \in ToSet(stage.inputs) : InputOf(x.sid, x.pid) = flow.cited[n]
<1>2. ASSUME NEW n \in DOMAIN flow.cited
      PROVE  X(n) \in ToSet(stage.inputs) /\ InputOf(X(n).sid, X(n).pid) = flow.cited[n]
  <2>1. flow.cited[n] \in ToSet(flow.cited)
    BY DEF ToSet
  <2>2. \E x \in ToSet(stage.inputs) : InputOf(x.sid, x.pid) = flow.cited[n]
    BY <2>1
  <2> QED BY <2>2
<1>3. ExtentsOf(flow) = [n \in DOMAIN flow.cited |-> ExtentOf(X(n))]
  BY DEF ExtentsOf
<1> HIDE DEF X
<1>4. ASSUME NEW n \in DOMAIN flow.cited
      PROVE  /\ ExtentsOf(flow)[n] \in ExtentType
             /\ ExtentsOf(flow)[n].input = flow.cited[n]
             /\ ExtentsOf(flow)[n].extent = X(n).extent
  <2>1. ExtentsOf(flow)[n] =
          [source |-> 0, input |-> InputOf(X(n).sid, X(n).pid), extent |-> X(n).extent]
    BY <1>3 DEF ExtentOf
  <2>2. InputOf(X(n).sid, X(n).pid) \in Inputs /\ X(n).extent \in Nat
    BY <1>1, <1>2
  <2> QED BY <1>2, <2>1, <2>2, StageAssumption DEF ExtentType
<1>5. ExtentsOf(flow) \in Seq(ExtentType)
  <2>1. Len(flow.cited) \in Nat /\ DOMAIN flow.cited = 1 .. Len(flow.cited)
    OBVIOUS
  <2>2. ExtentsOf(flow) = [n \in 1 .. Len(flow.cited) |-> ExtentOf(X(n))]
    BY <1>3, <2>1
  <2>3. \A n \in 1 .. Len(flow.cited) : ExtentOf(X(n)) \in ExtentType
    BY <1>3, <1>4, <2>1
  <2> QED BY <2>1, <2>2, <2>3
<1> QED BY <1>2, <1>3, <1>4, <1>5

-------------------------------------------------------------------------------
(* The start *)

LEMMA ScaffoldOpens == Opens(Scaffold, << >>)
<1>1. \A b \in ToSet(Scaffold) :
        b = Header \/ b = [kind |-> "source", id |-> 0, source |-> "zpf"]
        \/ b = [kind |-> "decoder", id |-> 0, layer |-> "transport"]
  <2>1. DOMAIN Scaffold = 1 .. 3
    BY DEF Scaffold
  <2> QED BY <2>1 DEF ToSet, Scaffold
<1>2. /\ Header \in Blocks
      /\ [kind |-> "source", id |-> 0, source |-> "zpf"] \in Blocks
      /\ [kind |-> "decoder", id |-> 0, layer |-> "transport"] \in Blocks
  BY StageAssumption DEF Blocks, Scaffolds
<1>3. Scaffold \in Seq(Blocks) /\ Scaffold # << >>
  BY <1>2 DEF Scaffold
<1>4. \A b \in ToSet(Scaffold) : b.kind \in {"header", "source", "decoder"}
  BY <1>1, WriterAssumption
<1>5. Begun(Scaffold) = {}
  <2>1. \A i \in DOMAIN Scaffold : Scaffold[i].kind # "session"
    BY <1>4 DEF ToSet
  <2> QED BY <2>1 DEF Begun
<1> QED BY <1>3, <1>4, <1>5 DEF Opens
LEMMA FlowsOpen ==
    ASSUME NEW inputs \in InputFiles, NEW fill \in BOOLEAN, FlowInit(inputs, fill)
    PROVE  SoundFlows
<1>1. /\ InitAfter(Scaffold, << >>) /\ stage = Opened(inputs, fill) /\ flows = << >> /\ pieces = << >>
  BY DEF FlowInit
<1>2. WriterInv
  BY <1>1, ScaffoldOpens, OpeningInv
<1>3. /\ file = Scaffold /\ call = Idle /\ accepted = [s \in Sids |-> << >>] /\ lost = {}
  BY <1>1 DEF InitAfter
<1>4. sessions = [s \in Sids |-> None]
  <2>1. Begun(Scaffold) = {}
    <3>1. DOMAIN Scaffold = 1 .. 3 /\ Scaffold[1] = Header /\ Scaffold[2].kind = "source"
          /\ Scaffold[3].kind = "decoder"
      BY DEF Scaffold
    <3> QED BY <3>1, WriterAssumption DEF Begun
  <2> QED BY <1>1, <2>1 DEF InitAfter
<1>5. \A b \in ToSet(file) : b.kind \in {"header", "source", "decoder"}
  <2>1. DOMAIN Scaffold = 1 .. 3 /\ Scaffold[1] = Header /\ Scaffold[2].kind = "source"
        /\ Scaffold[3].kind = "decoder"
    BY DEF Scaffold
  <2> QED BY <1>3, <2>1, WriterAssumption DEF ToSet
<1>6. ~ Complete
  <2>1. Len(Scaffold) = 3 /\ Scaffold[3].kind = "decoder"
    BY DEF Scaffold
  <2> QED BY <1>3, <2>1 DEF Complete
<1>7. StageInv
  BY <1>1, <1>2, <1>3, <1>5, <1>6, OpenedStage
<1>8. FlowsKnown
  <2>1. << >> \in Seq(FlowType) /\ << >> \in Seq(Producer.declarations) /\ DOMAIN << >> = {}
    OBVIOUS
  <2> QED BY <1>1, <1>4, <2>1 DEF FlowsKnown
<1>9. EndingKnown
  BY <1>3 DEF EndingKnown, Idle
<1>10. EndsKnown
  <2>1. Over = {}
    BY <1>5 DEF Over
  <2>2. \A n \in DOMAIN file : file[n].kind # "sessionEnd"
    BY <1>5 DEF ToSet
  <2> QED BY <1>3, <1>5, <2>1, <2>2 DEF EndsKnown
<1> QED BY <1>2, <1>7, <1>8, <1>9, <1>10 DEF SoundFlows, FlowInv

-------------------------------------------------------------------------------
(* What a step leaves alone *)

\* The flows stay as they were.
LEMMA FlowsStay ==
    ASSUME FlowsKnown, UNCHANGED <<flows, accepted>>, pieces' \in Seq(Producer.declarations),
           stage'.inputs = stage.inputs,
           \A s \in Sids : sessions'[s] = None <=> sessions[s] = None
    PROVE  FlowsKnown'
<1>1. \A s \in Sids : Drawn(s)' = Drawn(s)
  BY DEF Drawn, StreamsCited
<1>2. \A i \in DOMAIN flows : flows[i].sid \in Sids
  <2>1. flows \in Seq(FlowType)
    BY DEF FlowsKnown
  <2>2. \A i \in DOMAIN flows : flows[i] \in FlowType
    BY <2>1
  <2> QED BY <2>2 DEF FlowType
<1> QED BY <1>1, <1>2 DEF FlowsKnown

\* No step undoes what an ended flow has declared.
EndedStay ==
    /\ stage'.inputs = stage.inputs
    /\ \A i \in DOMAIN flows : flows[i].ended => i \in DOMAIN flows' /\ flows'[i] = flows[i]

LEMMA SettledStays ==
    ASSUME EndedStay, NEW s, NEW extents, Settled(s, extents)
    PROVE  Settled(s, extents)'
<1>1. PICK i \in DOMAIN flows : flows[i].sid = s /\ flows[i].ended /\ extents = ExtentsOf(flows[i])
  BY DEF Settled
<1>2. i \in DOMAIN flows' /\ flows'[i] = flows[i]
  BY <1>1 DEF EndedStay
<1>3. ExtentsOf(flows[i])' = ExtentsOf(flows[i])
  BY <1>2 DEF ExtentsOf, EndedStay
<1> QED BY <1>1, <1>2, <1>3 DEF Settled

\* A session that is over is over once more.
LEMMA EndsStay ==
    ASSUME EndsKnown, HistoryKnown, EndedStay,
           \/ UNCHANGED file
           \/ \E b \in Blocks : /\ file' = Append(file, b) /\ b.kind # "sessionEnd"
                                /\ \A s \in Over : b \notin SentIn[s],
           \A s \in Over : accepted'[s] = accepted[s] /\ sessions'[s].pending = NoStreams,
           call'.step = "merge" => Head(call'.left) \notin Over,
           \A s \in lost' \ lost : \E i \in DOMAIN flows : flows[i].sid = s /\ flows[i].ended
    PROVE  EndsKnown' /\ Over' = Over
<1>1. file \in Seq(Blocks) /\ Len(file) \in Nat /\ DOMAIN file = 1 .. Len(file)
  BY DEF HistoryKnown
<1>2. /\ \A b \in ToSet(file') : b.kind = "sessionEnd" => b \in ToSet(file)
      /\ ToSet(file) \subseteq ToSet(file')
      /\ \A s \in Over : ToSet(file') \cap SentIn[s] = ToSet(file) \cap SentIn[s]
      /\ \A n \in DOMAIN file' : file'[n].kind = "sessionEnd" => n \in DOMAIN file /\ file[n] = file'[n]
  <2>1. CASE UNCHANGED file
    BY <2>1 DEF ToSet
  <2>2. CASE \E b \in Blocks : /\ file' = Append(file, b) /\ b.kind # "sessionEnd"
                               /\ \A s \in Over : b \notin SentIn[s]
    <3>1. PICK b \in Blocks : /\ file' = Append(file, b) /\ b.kind # "sessionEnd"
                              /\ \A s \in Over : b \notin SentIn[s]
      BY <2>2
    <3>2. PICK f \in Seq(Blocks) : f = file /\ file' = Append(f, b)
      BY <1>1, <3>1
    <3>3. ToSet(Append(f, b)) = ToSet(f) \cup {b}
      BY AppendMembers
    <3>4. /\ DOMAIN Append(f, b) = 1 .. Len(f) + 1 /\ Append(f, b)[Len(f) + 1] = b
          /\ \A n \in 1 .. Len(f) : Append(f, b)[n] = f[n]
      OBVIOUS
    <3>5. ToSet(file') = ToSet(file) \cup {b}
      BY <3>2, <3>3
    <3>6. /\ DOMAIN file' = 1 .. Len(file) + 1 /\ file'[Len(file) + 1] = b
          /\ \A n \in 1 .. Len(file) : file'[n] = file[n]
      BY <3>2, <3>4
    <3>7. \A b2 \in ToSet(file') : b2.kind = "sessionEnd" => b2 \in ToSet(file)
      BY <3>1, <3>5
    <3>8. \A s \in Over : ToSet(file') \cap SentIn[s] = ToSet(file) \cap SentIn[s]
      BY <3>1, <3>5
    <3>9. \A n \in DOMAIN file' : file'[n].kind = "sessionEnd" => n \in DOMAIN file /\ file[n] = file'[n]
      <4> SUFFICES ASSUME NEW n \in 1 .. Len(file) + 1, file'[n].kind = "sessionEnd"
                   PROVE  n \in DOMAIN file /\ file[n] = file'[n]
        BY <3>6
      <4>1. n # Len(file) + 1
        BY <3>1, <3>6
      <4>2. n \in 1 .. Len(file)
        BY <1>1, <4>1
      <4> QED BY <1>1, <3>6, <4>2
    <3> QED BY <3>5, <3>7, <3>8, <3>9
  <2> QED BY <2>1, <2>2
<1>3. Over' = Over
  BY <1>2 DEF Over
<1>4. \A s \in lost' : \E i \in DOMAIN flows' : flows'[i].sid = s /\ flows'[i].ended
  BY DEF EndsKnown, EndedStay
<1>5. \A m, n \in DOMAIN file' :
        file'[m].kind = "sessionEnd" /\ file'[n].kind = "sessionEnd" /\ file'[m].sid = file'[n].sid => m = n
  BY <1>2 DEF EndsKnown
<1>6. \A b \in ToSet(file') : b.kind = "sessionEnd" => Settled(b.sid, b.extents)'
  BY <1>2, SettledStays DEF EndsKnown
<1>7. \A s \in Over :
        /\ ToSet(accepted'[s]) = ToSet(file') \cap SentIn[s]
        /\ sessions'[s].pending = NoStreams
        /\ call'.step = "merge" => Head(call'.left) # s
  BY <1>2 DEF EndsKnown
<1> QED BY <1>3, <1>4, <1>5, <1>6, <1>7 DEF EndsKnown

\* A flow that has not ended is of a session that is not over, nor lost.
LEMMA OpenIsNotOver ==
    ASSUME FlowsKnown, EndsKnown, NEW i \in DOMAIN flows, ~ flows[i].ended
    PROVE  flows[i].sid \notin Over \cup lost
<1>1. ASSUME flows[i].sid \in Over PROVE FALSE
  <2>1. PICK b \in ToSet(file) : b.kind = "sessionEnd" /\ b.sid = flows[i].sid
    BY <1>1 DEF Over
  <2>2. Settled(b.sid, b.extents)
    BY <2>1 DEF EndsKnown
  <2>3. PICK j \in DOMAIN flows : flows[j].sid = b.sid /\ flows[j].ended
    BY <2>2 DEF Settled
  <2> QED BY <2>1, <2>3 DEF FlowsKnown
<1>2. ASSUME flows[i].sid \in lost PROVE FALSE
  <2>1. PICK j \in DOMAIN flows : flows[j].sid = flows[i].sid /\ flows[j].ended
    BY <1>2 DEF EndsKnown
  <2> QED BY <2>1 DEF FlowsKnown
<1> QED BY <1>1, <1>2

\* One that is over has a session.
LEMMA OverIsKnown ==
    ASSUME FlowsKnown, EndsKnown, NEW s \in Over
    PROVE  s \in Sids /\ sessions[s] # None /\ sessions[s].pending = NoStreams
<1>1. PICK b \in ToSet(file) : b.kind = "sessionEnd" /\ b.sid = s
  BY DEF Over
<1>2. Settled(b.sid, b.extents)
  BY <1>1 DEF EndsKnown
<1>3. PICK j \in DOMAIN flows : flows[j].sid = s
  BY <1>1, <1>2 DEF Settled
<1>4. s \in Sids
  BY DEF Over
<1> QED BY <1>3, <1>4 DEF FlowsKnown, EndsKnown

\* A call of the writer that begins and ends outside end() and close(), writes no
\* Session End and leaves the flows alone.
LEMMA QuietCall ==
    ASSUME SoundFlows, call' = Idle, UNCHANGED <<flows, accepted, lost>>,
           stage'.inputs = stage.inputs,
           SessionsAlike, pieces' \in Seq(Producer.declarations),
           \/ UNCHANGED file
           \/ \E b \in Blocks : file' = Append(file, b) /\ b.kind \notin {"sessionEnd", "record"}
    PROVE  FlowInv'
<1>1. FlowsKnown /\ EndsKnown /\ HistoryKnown
  BY DEF SoundFlows, FlowInv, WriterInv
<1>2. FlowsKnown'
  BY <1>1, FlowsStay DEF SessionsAlike
<1>3. EndingKnown'
  BY DEF EndingKnown, Idle
<1>4. EndsKnown'
  <2>1. EndedStay
    BY DEF EndedStay
  <2>2. \A s \in Over : accepted'[s] = accepted[s] /\ sessions'[s].pending = NoStreams
    BY <1>1, OverIsKnown DEF SessionsAlike
  <2>3. call'.step # "merge"
    BY DEF Idle
  <2>4. \A b \in Blocks, s \in Sids : b.kind # "record" => b \notin SentIn[s]
    BY SentType DEF SentIn
  <2>5. Over \subseteq Sids
    BY DEF Over
  <2>6. \/ UNCHANGED file
        \/ \E b \in Blocks : /\ file' = Append(file, b) /\ b.kind # "sessionEnd"
                             /\ \A s \in Over : b \notin SentIn[s]
    BY <2>4, <2>5
  <2> QED BY <1>1, <2>1, <2>2, <2>3, <2>6, EndsStay
<1> QED BY <1>2, <1>3, <1>4 DEF FlowInv

-------------------------------------------------------------------------------
(* The calls of a sessionizer *)

\* A block written, or refused.
LEMMA MaybeWritten ==
    ASSUME NEW b \in Blocks, Emit(b)
    PROVE  UNCHANGED file \/ file' = Append(file, b)
BY DEF Emit

LEMMA OpenFlowStep ==
    ASSUME SoundFlows, NEW key \in Producer.keys, NEW s \in Sids, NEW sequenced \in BOOLEAN,
           OpenFlow(key, s, sequenced)
    PROVE  SoundFlows'
<1> DEFINE b == [kind |-> "session", sid |-> s]
           flow == [key |-> key, sid |-> s, ended |-> FALSE, cited |-> << >>]
<1>1. PICK mode \in Modes : mode = [verify |-> sequenced, linearize |-> sequenced]
  <2>1. [verify |-> sequenced, linearize |-> sequenced] \in Modes
    BY DEF Modes
  <2> QED BY <2>1
<1>2. /\ BeginSession(s, mode) /\ UNCHANGED <<stage, pieces>>
      /\ flows' = IF Emits(b) THEN Append(flows, flow) ELSE flows
  BY <1>1 DEF OpenFlow
<1>3. WriterInv /\ StageInv /\ FlowsKnown /\ EndsKnown
  BY DEF SoundFlows, FlowInv
<1>4. WriterInv' /\ StageInv'
  BY <1>2, <1>3, BeginSessionStep, StageBegins
<1>5. /\ Emit(b) /\ sessions[s] = None /\ call = Idle
      /\ UNCHANGED <<call, accepted, lost>>
      /\ IF Emits(b) THEN sessions' = [sessions EXCEPT ![s] = NewSession(mode)] ELSE UNCHANGED sessions
  BY <1>2 DEF BeginSession, MayCall, history
<1>6. b \in Blocks /\ b.kind = "session"
  BY DEF Blocks
<1>7. UNCHANGED file \/ file' = Append(file, b)
  BY <1>5, <1>6, MaybeWritten
<1> HIDE DEF b
<1>8. CASE ~ Emits(b)
  <2>1. UNCHANGED <<sessions, flows>>
    BY <1>2, <1>5, <1>8
  <2>2. SessionsAlike
    BY <2>1 DEF SessionsAlike
  <2>3. pieces' \in Seq(Producer.declarations)
    BY <1>2, <1>3 DEF FlowsKnown
  <2>4. UNCHANGED file \/ \E c \in Blocks : file' = Append(file, c) /\ c.kind \notin {"sessionEnd", "record"}
    BY <1>6, <1>7
  <2>5. FlowInv'
    BY <1>2, <1>5, <2>1, <2>2, <2>3, <2>4, QuietCall
  <2> QED BY <1>4, <2>5 DEF SoundFlows
<1>9. CASE Emits(b)
  <2>1. PICK n \in Nat : n = Len(flows) /\ DOMAIN flows = 1 .. n
    BY <1>3 DEF FlowsKnown
  <2>2. /\ flows' = Append(flows, flow) /\ flows \in Seq(FlowType) /\ flow \in FlowType
    BY <1>2, <1>3, <1>9 DEF FlowsKnown, FlowType
  <2>3. /\ flows' \in Seq(FlowType) /\ DOMAIN flows' = 1 .. n + 1 /\ flows'[n + 1] = flow
        /\ \A i \in 1 .. n : flows'[i] = flows[i]
    BY <2>1, <2>2
  <2>4. \A i \in 1 .. n : flows[i] \in FlowType
    BY <2>1, <2>2
  <2>5. \A i \in 1 .. n : sessions[flows[i].sid] # None /\ flows[i].sid # s /\ flows[i].sid \in Sids
    BY <1>3, <1>5, <2>1, <2>4 DEF FlowsKnown, FlowType
  <2>6. /\ sessions'[s] # None /\ \A r \in Sids \ {s} : sessions'[r] = sessions[r]
    <3>1. PICK writer \in WriterType : writer = NewSession(mode)
      BY NewSessionType
    <3>2. sessions' = [sessions EXCEPT ![s] = writer] /\ writer # None
      BY <1>5, <1>9, <3>1, WriterAssumption
    <3>3. sessions \in [Sids -> WriterType \cup {None}]
      BY <1>3 DEF WriterInv, WritersKnown
    <3> QED BY <3>2, <3>3
  <2>7. \A r \in Sids : Drawn(r)' = Drawn(r)
    BY <1>2, <1>5 DEF Drawn, StreamsCited
  <2>8. Drawn(s) = {}
    <3>1. accepted[s] = << >>
      BY <1>3, <1>5 DEF WriterInv, WritersKnown
    <3>2. ToSet(accepted[s]) = {}
      BY <3>1 DEF ToSet
    <3> QED BY <3>2 DEF Drawn
  <2>9. FlowsKnown'
    <3>1. pieces' \in Seq(Producer.declarations)
      BY <1>2, <1>3 DEF FlowsKnown
    <3>2. \A r \in Sids : sessions'[r] # None <=> \E i \in DOMAIN flows' : flows'[i].sid = r
      <4> TAKE r \in Sids
      <4>1. CASE r = s
        <5>1. n + 1 \in DOMAIN flows' /\ flows'[n + 1].sid = s
          BY <2>3
        <5> QED BY <2>6, <4>1, <5>1
      <4>2. CASE r # s
        <5>1. (\E i \in DOMAIN flows' : flows'[i].sid = r) <=> \E i \in DOMAIN flows : flows[i].sid = r
          <6>1. flows'[n + 1].sid # r
            BY <2>3, <4>2
          <6>2. \A i \in 1 .. n + 1 : i \in 1 .. n \/ i = n + 1
            OBVIOUS
          <6>3. 1 .. n \subseteq 1 .. n + 1
            OBVIOUS
          <6> QED BY <2>1, <2>3, <6>1, <6>2, <6>3
        <5> QED BY <1>3, <2>6, <4>2, <5>1 DEF FlowsKnown
      <4> QED BY <4>1, <4>2
    <3>3. \A i, j \in DOMAIN flows' : i # j => flows'[i].sid # flows'[j].sid
      <4>1. \A i, j \in 1 .. n : i # j => flows[i].sid # flows[j].sid
        BY <1>3, <2>1 DEF FlowsKnown
      <4>2. flows'[n + 1].sid = s
        BY <2>3
      <4>3. \A i \in 1 .. n + 1 : i \in 1 .. n \/ i = n + 1
        OBVIOUS
      <4> QED BY <2>3, <2>5, <4>1, <4>2, <4>3
    <3>4. ASSUME NEW i \in DOMAIN flows', NEW r \in Sids, r = flows'[i].sid
          PROVE  IsInjective(flows'[i].cited) /\ ToSet(flows'[i].cited) = Drawn(r)'
      <4>1. CASE i \in 1 .. n
        <5>1. IsInjective(flows[i].cited) /\ ToSet(flows[i].cited) = Drawn(flows[i].sid)
          BY <1>3, <2>1, <4>1 DEF FlowsKnown
        <5>2. flows'[i] = flows[i] /\ flows[i].sid = r
          BY <2>3, <3>4, <4>1
        <5>3. Drawn(flows[i].sid) = Drawn(r)
          BY <5>2
        <5> QED BY <2>7, <5>1, <5>2, <5>3
      <4>2. CASE i = n + 1
        <5>1. flows'[i].cited = << >> /\ r = s
          BY <2>3, <3>4, <4>2
        <5>2. Drawn(r)' = {}
          BY <2>7, <2>8, <5>1
        <5>3. IsInjective(<< >>) /\ ToSet(<< >>) = {}
          BY DEF IsInjective, ToSet
        <5> QED BY <5>1, <5>2, <5>3
      <4> QED BY <2>3, <4>1, <4>2
    <3>5. \A i \in DOMAIN flows' : flows'[i].sid \in Sids
      BY <2>1, <2>3, <2>5
    <3> QED BY <2>3, <3>1, <3>2, <3>3, <3>4, <3>5 DEF FlowsKnown
  <2>10. EndsKnown'
    <3>1. EndedStay
      BY <1>2, <2>1, <2>3 DEF EndedStay
    <3>2. \A r \in Over : accepted'[r] = accepted[r] /\ sessions'[r].pending = NoStreams
      BY <1>3, <1>5, <2>6, OverIsKnown
    <3>3. call'.step # "merge" /\ HistoryKnown
      BY <1>3, <1>5 DEF Idle, WriterInv
    <3>4. \A r \in Sids : b \notin SentIn[r]
      BY <1>6, SentType DEF SentIn
    <3>5. Over \subseteq Sids
      BY DEF Over
    <3> QED BY <1>3, <1>5, <1>6, <1>7, <3>1, <3>2, <3>3, <3>4, <3>5, EndsStay
  <2>11. EndingKnown'
    BY <1>5 DEF EndingKnown, Idle
  <2> QED BY <1>4, <2>9, <2>10, <2>11 DEF SoundFlows, FlowInv
<1> QED BY <1>8, <1>9

LEMMA DeclareEndpointStep ==
    ASSUME SoundFlows, NEW b \in Producer.participants, DeclareEndpoint(b)
    PROVE  SoundFlows'
<1>1. Participant(b) /\ UNCHANGED <<stage, flows, pieces>>
  BY DEF DeclareEndpoint
<1>2. WriterInv /\ StageInv /\ FlowsKnown
  BY DEF SoundFlows, FlowInv
<1>3. WriterInv' /\ StageInv'
  BY <1>1, <1>2, ParticipantStep, StageParticipant
<1>4. b \in Blocks /\ b.kind = "participant" /\ b.sid \in Sids
  BY WriterAssumption DEF Blocks
<1>5. /\ Emit(b) /\ call = Idle /\ sessions[b.sid] # None
      /\ sessions' = IF Emits(b) THEN [sessions EXCEPT ![b.sid] = DeclaredIn(@, b)] ELSE sessions
      /\ UNCHANGED <<call, accepted, lost>>
  BY <1>1 DEF Participant, MayCall, history
<1>6. SessionsAlike
  <2>1. sessions \in [Sids -> WriterType \cup {None}] /\ sessions[b.sid] \in WriterType
    BY <1>2, <1>4, <1>5 DEF WriterInv, WritersKnown
  <2>2. PICK writer \in WriterType : /\ writer = DeclaredIn(sessions[b.sid], b)
                                     /\ writer.pending = sessions[b.sid].pending
                                     /\ writer.linearize = sessions[b.sid].linearize
    BY <2>1, WriterAssumption, DeclaredInType
  <2>3. writer # None
    BY WriterAssumption
  <2>4. sessions' = sessions \/ sessions' = [sessions EXCEPT ![b.sid] = writer]
    BY <1>5, <2>2
  <2> QED BY <1>4, <1>5, <2>1, <2>2, <2>3, <2>4 DEF SessionsAlike
<1>7. UNCHANGED file \/ \E c \in Blocks : file' = Append(file, c) /\ c.kind \notin {"sessionEnd", "record"}
  BY <1>4, <1>5, MaybeWritten
<1>8. pieces' \in Seq(Producer.declarations)
  BY <1>1, <1>2 DEF FlowsKnown
<1>9. FlowInv'
  BY <1>1, <1>5, <1>6, <1>7, <1>8, QuietCall
<1> QED BY <1>3, <1>9 DEF SoundFlows

\* undecoded(), and each piece of incomplete().
LEMMA MarkStep ==
    ASSUME SoundFlows, NEW b \in Producer.declarations, MarkUndecoded(b), UNCHANGED flows,
           pieces' \in Seq(Producer.declarations)
    PROVE  SoundFlows'
<1>1. /\ Declare(b) /\ MayStage
      /\ stage' = IF Emits(b) THEN [stage EXCEPT !.marked[b.input] = Add(@, b.start, b.end)] ELSE stage
  BY DEF MarkUndecoded
<1>2. WriterInv /\ StageInv
  BY DEF SoundFlows
<1>3. WriterInv' /\ StageInv'
  BY <1>1, <1>2, DeclareStep, StageMarks
<1>4. b \in Blocks /\ b.kind = "undecoded"
  BY StageAssumption DEF Blocks, Markable
<1>5. Emit(b) /\ call = Idle /\ UNCHANGED <<call, accepted, lost, sessions>>
  BY <1>1 DEF Declare, MayCall, history
<1>6. SessionsAlike
  BY <1>5 DEF SessionsAlike
<1>7. UNCHANGED file \/ \E c \in Blocks : file' = Append(file, c) /\ c.kind \notin {"sessionEnd", "record"}
  BY <1>4, <1>5, MaybeWritten
<1>8. stage'.inputs = stage.inputs
  BY <1>1, <1>2 DEF StageInv, StageKnown
<1>9. FlowInv'
  BY <1>5, <1>6, <1>7, <1>8, QuietCall
<1> QED BY <1>3, <1>9 DEF SoundFlows

LEMMA FlowUndecodedStep ==
    ASSUME SoundFlows, NEW b \in Producer.declarations, FlowUndecoded(b)
    PROVE  SoundFlows'
<1>1. MarkUndecoded(b) /\ UNCHANGED <<flows, pieces>>
  BY DEF FlowUndecoded
<1>2. pieces' \in Seq(Producer.declarations)
  BY <1>1 DEF SoundFlows, FlowInv, FlowsKnown
<1> QED BY <1>1, <1>2, MarkStep

LEMMA MarkPieceStep ==
    ASSUME SoundFlows, MarkPiece
    PROVE  SoundFlows'
<1>1. /\ pieces # << >> /\ MarkUndecoded(Head(pieces)) /\ UNCHANGED flows
      /\ pieces' = IF Emits(Head(pieces)) THEN Tail(pieces) ELSE << >>
  BY DEF MarkPiece
<1>2. pieces \in Seq(Producer.declarations)
  BY DEF SoundFlows, FlowInv, FlowsKnown
<1>3. /\ Head(pieces) \in Producer.declarations /\ Tail(pieces) \in Seq(Producer.declarations)
      /\ << >> \in Seq(Producer.declarations)
  BY <1>1, <1>2
<1>4. pieces' \in Seq(Producer.declarations)
  BY <1>1, <1>3
<1> QED BY <1>1, <1>3, <1>4, MarkStep

\* A step that leaves the writer alone, outside its calls.
LEMMA WriterAlone ==
    ASSUME SoundFlows, call = Idle, UNCHANGED <<vars, flows>>, StageInv', stage'.inputs = stage.inputs,
           pieces' \in Seq(Producer.declarations)
    PROVE  SoundFlows'
<1>1. UNCHANGED <<file, closed, sessions, linearizing, call, mergeVars, history, accepted, lost>>
  BY DEF vars, history
<1>2. SessionsAlike /\ sessions' \in [Sids -> WriterType \cup {None}]
  BY <1>1 DEF SessionsAlike, SoundFlows, WriterInv, WritersKnown
<1>3. WriterInv'
  BY <1>1, <1>2, QuietStep DEF SoundFlows
<1>4. FlowInv'
  BY <1>1, <1>2, QuietCall
<1> QED BY <1>3, <1>4 DEF SoundFlows

LEMMA IncompleteStep ==
    ASSUME SoundFlows, NEW marks \in Producer.incomplete, Incomplete(marks)
    PROVE  SoundFlows'
<1>1. UNCHANGED <<vars, stage, flows>> /\ pieces' = marks /\ call = Idle
  BY DEF Incomplete, MayFlow, MayStage, MayCall
<1>2. pieces' \in Seq(Producer.declarations)
  BY <1>1, SessionizeAssumption
<1>3. StageInv'
  <2>1. UNCHANGED <<file, accepted, lost, call>> /\ call.op # "close"
    BY <1>1 DEF vars, history, Idle
  <2> QED BY <1>1, <2>1, MarksStay, StageAlone DEF SoundFlows, WriterInv
<1> QED BY <1>1, <1>2, <1>3, WriterAlone

\* record() of a flow that has not ended: its cites are remembered if it returns.
LEMMA FlowRecordStep ==
    ASSUME SoundFlows, NEW b \in Producer.records, NEW i \in DOMAIN flows, FlowRecord(i, b)
    PROVE  SoundFlows'
<1>1. /\ MayFlow /\ b.sid = flows[i].sid /\ ~ flows[i].ended
      /\ Record(b) \/ Buffer(b)
      /\ stage' = Counted(b) /\ UNCHANGED pieces
      /\ flows' = IF Takes(b) THEN [flows EXCEPT ![i] = WithCites(@, b)] ELSE flows
  BY DEF FlowRecord
<1>2. WriterInv /\ StageInv /\ FlowsKnown /\ EndsKnown /\ HistoryKnown
  BY DEF SoundFlows, FlowInv, WriterInv
<1>3. WriterInv'
  BY <1>1, <1>2, RecordStep, BufferStep
<1>4. StageInv'
  BY <1>1, <1>2, StageCounts DEF MayFlow, MayStage
<1>5. /\ call = Idle /\ UNCHANGED <<call, lost>>
      /\ IF Takes(b) THEN accepted' = [accepted EXCEPT ![b.sid] = Append(@, b)]
                     ELSE UNCHANGED accepted
  BY <1>1, <1>2, RecordCounts
<1>6. b.sid \in Sids /\ b \in Blocks /\ b.kind = "record"
      /\ \A s \in Sids : s # b.sid => b \notin SentIn[s]
  BY SentType
<1>7. b.sid \notin Over
  BY <1>1, <1>2, OpenIsNotOver
<1>8. stage'.inputs = stage.inputs /\ stage.inputs \in InputFiles
  BY <1>1, <1>2 DEF Counted, StageInv, StageKnown
<1>9. /\ \A s \in Sids : sessions'[s] = None <=> sessions[s] = None
      /\ \A s \in Sids : s # b.sid => sessions'[s] = sessions[s]
      /\ UNCHANGED file \/ file' = Append(file, b)
  <2>1. sessions[b.sid] # None /\ sessions \in [Sids -> WriterType \cup {None}]
    BY <1>1, <1>2 DEF Record, Buffer, HasHandle, WriterInv, WritersKnown
  <2>2. CASE Record(b)
    <3>1. EmitRecord(b.sid, b)
      BY <2>2 DEF Record
    <3>2. SessionsAlike
      BY <1>2, <2>1, <3>1, EmitRecordEffect
    <3>3. sessions' = [sessions EXCEPT ![b.sid] = AfterRecord(@, b)]
      BY <3>1 DEF EmitRecord
    <3>4. UNCHANGED file \/ file' = Append(file, b)
      BY <1>6, <3>1, MaybeWritten DEF EmitRecord
    <3> QED BY <1>6, <2>1, <3>2, <3>3, <3>4 DEF SessionsAlike
  <2>3. CASE Buffer(b)
    <3>1. /\ sessions' = [sessions EXCEPT ![b.sid].pending[b.pid] = Append(@, b)] /\ UNCHANGED file
          /\ b.pid \in Pair
      BY <2>3 DEF Buffer
    <3>2. sessions[b.sid] \in WriterType
      BY <1>6, <2>1
    <3>3. sessions'[b.sid] # None
      <4>1. sessions'[b.sid] \in WriterType \cup {None}
        BY <1>3, <1>6 DEF WriterInv, WritersKnown
      <4>2. sessions'[b.sid] = [sessions[b.sid] EXCEPT !.pending[b.pid] = Append(@, b)]
        BY <1>6, <2>1, <3>1
      <4>3. PICK pending \in [Pair -> Seq(Producer.records)] :
               pending = [sessions[b.sid].pending EXCEPT ![b.pid] = Append(@, b)]
        <5>1. sessions[b.sid].pending \in [Pair -> Seq(Producer.records)]
          BY <3>2 DEF WriterType
        <5>2. [sessions[b.sid].pending EXCEPT ![b.pid] = Append(@, b)] \in [Pair -> Seq(Producer.records)]
          <6>1. PICK before \in [Pair -> Seq(Producer.records)] : before = sessions[b.sid].pending
            BY <5>1
          <6>2. before[b.pid] \in Seq(Producer.records)
            BY <3>1, <6>1
          <6>3. Append(before[b.pid], b) \in Seq(Producer.records)
            BY <6>2, AppendMembers
          <6> QED BY <6>1, <6>3
        <5> QED BY <5>2
      <4>4. sessions'[b.sid] = [sessions[b.sid] EXCEPT !.pending = pending]
        BY <3>2, <4>2, <4>3 DEF WriterType
      <4>5. sessions'[b.sid] \in WriterType
        <5>1. PICK writer \in WriterType : writer = sessions[b.sid]
          BY <3>2
        <5>2. [writer EXCEPT !.pending = pending] \in WriterType
          BY BufferType
        <5> QED BY <4>4, <5>1, <5>2
      <4> QED BY <4>5, WriterAssumption
    <3>4. \A s \in Sids : s # b.sid => sessions'[s] = sessions[s]
      BY <2>1, <3>1
    <3> QED BY <2>1, <3>1, <3>3, <3>4
  <2> QED BY <1>1, <2>2, <2>3
<1>10. CASE ~ Takes(b)
  <2>1. UNCHANGED <<flows, accepted>>
    BY <1>1, <1>5, <1>10
  <2>2. FlowsKnown'
    <3>1. pieces' \in Seq(Producer.declarations)
      BY <1>1, <1>2 DEF FlowsKnown
    <3> QED BY <1>2, <1>8, <1>9, <2>1, <3>1, FlowsStay
  <2>3. EndsKnown'
    <3>1. EndedStay
      BY <1>8, <2>1 DEF EndedStay
    <3>2. \A s \in Over : accepted'[s] = accepted[s] /\ sessions'[s].pending = NoStreams
      BY <1>2, <1>7, <1>9, <2>1, OverIsKnown
    <3>3. call'.step # "merge"
      BY <1>5 DEF Idle
    <3>4. \A s \in Over : s \in Sids /\ s # b.sid
      BY <1>7 DEF Over
    <3> QED BY <1>2, <1>5, <1>6, <1>9, <3>1, <3>2, <3>3, <3>4, EndsStay
  <2>4. EndingKnown'
    BY <1>5 DEF EndingKnown, Idle
  <2> QED BY <1>3, <1>4, <2>2, <2>3, <2>4 DEF SoundFlows, FlowInv
<1>11. CASE Takes(b)
  <2>1. /\ accepted \in [Sids -> Seq(Producer.records)]
        /\ accepted' = [accepted EXCEPT ![b.sid] = Append(accepted[b.sid], b)]
        /\ flows \in Seq(FlowType) /\ DOMAIN flows = 1 .. Len(flows) /\ Len(flows) \in Nat
        /\ pieces' \in Seq(Producer.declarations)
    BY <1>1, <1>2, <1>5, <1>11 DEF HistoryKnown, FlowsKnown
  <2>2. flows[i] \in FlowType
    BY <2>1
  <2> DEFINE fresh == SetToSeq(StreamsCited(b) \ ToSet(flows[i].cited))
  <2>3. /\ IsInjective(flows[i].cited) /\ ToSet(flows[i].cited) = Drawn(b.sid)
        /\ flows[i].cited \in Seq(Inputs)
    BY <1>1, <1>2, <2>2 DEF FlowsKnown, FlowType
  <2>4. /\ fresh \in Seq(Inputs) /\ IsInjective(fresh)
        /\ ToSet(fresh) = StreamsCited(b) \ ToSet(flows[i].cited)
    <3>1. StreamsCited(b) \subseteq Inputs /\ IsFiniteSet(StreamsCited(b))
      BY <1>8, CitedAreInputs
    <3>2. PICK S : S = StreamsCited(b) \ ToSet(flows[i].cited)
      OBVIOUS
    <3>3. IsFiniteSet(S) /\ S \subseteq Inputs
      BY <3>1, <3>2, FS_Subset
    <3>4. /\ SetToSeq(S) \in Seq(S) /\ ToSet(SetToSeq(S)) = S
          /\ \A m, n \in DOMAIN SetToSeq(S) : m # n => SetToSeq(S)[m] # SetToSeq(S)[n]
      BY <3>3, ListOfSet
    <3>5. SetToSeq(S) \in Seq(Inputs)
      BY <3>3, <3>4
    <3>6. IsInjective(SetToSeq(S))
      BY <3>4 DEF IsInjective
    <3> QED BY <3>2, <3>4, <3>5, <3>6
  <2>5. PICK cited \in Seq(Inputs) :
          /\ cited = flows[i].cited \o fresh /\ IsInjective(cited)
          /\ ToSet(cited) = Drawn(b.sid) \cup StreamsCited(b)
    <3>1. PICK a \in Seq(Inputs), c \in Seq(Inputs) :
            /\ a = flows[i].cited /\ c = fresh /\ IsInjective(a) /\ IsInjective(c)
            /\ ToSet(a) = Drawn(b.sid) /\ ToSet(c) = StreamsCited(b) \ ToSet(a)
      BY <2>3, <2>4
    <3>2. ToSet(a) \cap ToSet(c) = {}
      BY <3>1
    <3>3. a \o c \in Seq(Inputs) /\ IsInjective(a \o c) /\ ToSet(a \o c) = ToSet(a) \cup ToSet(c)
      BY <3>1, <3>2, ListsJoin
    <3>4. ToSet(a \o c) = Drawn(b.sid) \cup StreamsCited(b)
      BY <3>1, <3>3
    <3> QED BY <3>1, <3>3, <3>4
  <2> HIDE DEF fresh
  <2>6. WithCites(flows[i], b) = [flows[i] EXCEPT !.cited = cited]
    BY <2>2, <2>5 DEF WithCites, FlowType, fresh
  <2>7. flows' = [flows EXCEPT ![i] = [flows[i] EXCEPT !.cited = cited]]
    BY <1>1, <1>11, <2>6
  <2>8. /\ flows' \in Seq(FlowType) /\ DOMAIN flows' = DOMAIN flows
        /\ flows'[i].cited = cited /\ flows'[i].sid = b.sid
        /\ \A j \in DOMAIN flows : j # i => flows'[j] = flows[j]
    <3>1. [flows[i] EXCEPT !.cited = cited] \in FlowType
      BY <2>2, <2>5 DEF FlowType
    <3>2. flows' \in Seq(FlowType) /\ DOMAIN flows' = DOMAIN flows
      BY <2>1, <2>7, <3>1
    <3>3. flows'[i] = [flows[i] EXCEPT !.cited = cited] /\ \A j \in DOMAIN flows : j # i => flows'[j] = flows[j]
      BY <2>1, <2>7
    <3> QED BY <1>1, <2>2, <3>2, <3>3 DEF FlowType
  <2>9. \A s \in Sids : StreamsCited(b)' = StreamsCited(b)
    BY <1>8 DEF StreamsCited
  <2>10. ASSUME NEW s \in Sids
         PROVE  Drawn(s)' = IF s = b.sid THEN Drawn(s) \cup StreamsCited(b) ELSE Drawn(s)
    <3>1. \A c : StreamsCited(c)' = StreamsCited(c)
      BY <1>8 DEF StreamsCited
    <3>2. CASE s # b.sid
      <4>1. accepted'[s] = accepted[s]
        BY <2>1, <3>2
      <4> QED BY <3>1, <3>2, <4>1 DEF Drawn
    <3>3. CASE s = b.sid
      <4>1. PICK before \in Seq(Producer.records) : before = accepted[s] /\ accepted'[s] = Append(before, b)
        BY <1>6, <2>1, <3>3
      <4>2. ToSet(Append(before, b)) = ToSet(before) \cup {b}
        BY AppendMembers
      <4>3. ToSet(accepted'[s]) = ToSet(accepted[s]) \cup {b}
        BY <4>1, <4>2
      <4>4. \A k : k \in Drawn(s)' <=> \E c \in ToSet(accepted'[s]) : k \in StreamsCited(c)
        BY <3>1 DEF Drawn
      <4>5. \A k : k \in Drawn(s) <=> \E c \in ToSet(accepted[s]) : k \in StreamsCited(c)
        BY DEF Drawn
      <4>6. \A k : k \in Drawn(s)' <=> k \in Drawn(s) \cup StreamsCited(b)
        BY <4>3, <4>4, <4>5
      <4> QED BY <3>3, <4>6
    <3> QED BY <3>2, <3>3
  <2>11. FlowsKnown'
    <3>1. \A s \in Sids : sessions'[s] # None <=> \E j \in DOMAIN flows' : flows'[j].sid = s
      <4>1. \A j \in DOMAIN flows : flows'[j].sid = flows[j].sid
        BY <1>1, <2>8
      <4>2. \A s \in Sids : sessions[s] # None <=> \E j \in DOMAIN flows : flows[j].sid = s
        BY <1>2 DEF FlowsKnown
      <4> TAKE s \in Sids
      <4>3. (\E j \in DOMAIN flows' : flows'[j].sid = s) <=> \E j \in DOMAIN flows : flows[j].sid = s
        BY <2>8, <4>1
      <4> QED BY <1>9, <4>2, <4>3
    <3>2. \A m, n \in DOMAIN flows' : m # n => flows'[m].sid # flows'[n].sid
      BY <1>1, <1>2, <2>8 DEF FlowsKnown
    <3>3. ASSUME NEW j \in DOMAIN flows', NEW s \in Sids, s = flows'[j].sid
          PROVE  IsInjective(flows'[j].cited) /\ ToSet(flows'[j].cited) = Drawn(s)'
      <4>1. CASE j = i
        BY <2>5, <2>8, <2>10, <3>3, <4>1
      <4>2. CASE j # i
        <5>1. flows'[j] = flows[j] /\ flows[j].sid = s /\ s # b.sid
          BY <1>1, <1>2, <2>8, <3>3, <4>2 DEF FlowsKnown
        <5>2. IsInjective(flows[j].cited) /\ ToSet(flows[j].cited) = Drawn(s)
          BY <1>2, <2>8, <5>1 DEF FlowsKnown
        <5> QED BY <2>10, <5>1, <5>2
      <4> QED BY <4>1, <4>2
    <3>4. \A j \in DOMAIN flows' : flows'[j].sid \in Sids
      <4>1. \A j \in DOMAIN flows' : flows'[j] \in FlowType
        BY <2>8
      <4> QED BY <4>1 DEF FlowType
    <3> QED BY <2>1, <2>8, <3>1, <3>2, <3>3, <3>4 DEF FlowsKnown
  <2>12. EndsKnown'
    <3>1. EndedStay
      BY <1>1, <1>8, <2>8 DEF EndedStay
    <3>2. \A s \in Over : s \in Sids /\ s # b.sid
      BY <1>7 DEF Over
    <3>3. \A s \in Over : accepted'[s] = accepted[s] /\ sessions'[s].pending = NoStreams
      BY <1>2, <1>9, <2>1, <3>2, OverIsKnown
    <3>4. call'.step # "merge"
      BY <1>5 DEF Idle
    <3> QED BY <1>2, <1>5, <1>6, <1>9, <3>1, <3>2, <3>3, <3>4, EndsStay
  <2>13. EndingKnown'
    BY <1>5 DEF EndingKnown, Idle
  <2> QED BY <1>3, <1>4, <2>11, <2>12, <2>13 DEF SoundFlows, FlowInv
<1> QED BY <1>10, <1>11

\* end() of a flow: it is marked as ended, and its extents are handed to the writer.
LEMMA EndFlowStep ==
    ASSUME SoundFlows, stage.step # "fill", NEW i \in DOMAIN flows, EndFlow(i)
    PROVE  SoundFlows'
<1>1. /\ ~ flows[i].ended /\ End(flows[i].sid, ExtentsOf(flows[i]))
      /\ flows' = [flows EXCEPT ![i].ended = TRUE] /\ UNCHANGED <<stage, pieces>>
  BY DEF EndFlow
<1>2. WriterInv /\ StageInv /\ FlowsKnown /\ EndsKnown /\ HistoryKnown
  BY DEF SoundFlows, FlowInv, WriterInv
<1>3. /\ flows \in Seq(FlowType) /\ flows[i] \in FlowType
      /\ stage.inputs \in InputFiles
  BY <1>2 DEF FlowsKnown, StageInv, StageKnown
<1>4. PICK s \in Sids : s = flows[i].sid
  BY <1>3 DEF FlowType
<1>5. PICK extents \in Seq(ExtentType) : extents = ExtentsOf(flows[i])
  <2>1. flows[i].cited \in Seq(Inputs) /\ ToSet(flows[i].cited) = Drawn(flows[i].sid)
    BY <1>2, <1>3 DEF FlowsKnown, FlowType
  <2>2. Drawn(flows[i].sid) \subseteq { InputOf(x.sid, x.pid) : x \in ToSet(stage.inputs) }
    BY DEF Drawn, StreamsCited
  <2>3. ExtentsOf(flows[i]) \in Seq(ExtentType)
    BY <1>3, <2>1, <2>2, ExtentsFit
  <2> QED BY <2>3
<1>6. /\ WriterInv' /\ StageInv'
  <2>1. End(s, extents)
    BY <1>1, <1>4, <1>5
  <2> QED BY <1>1, <1>2, <2>1, EndStep, StageEnds
<1>7. /\ UNCHANGED <<file, accepted, lost, sessions>>
      /\ call' = [op |-> "end", sid |-> s, extents |-> extents, left |-> <<s>>, step |-> "flush"]
  BY <1>1, <1>4, <1>5 DEF End, history
<1>8. /\ flows' \in Seq(FlowType) /\ DOMAIN flows' = DOMAIN flows
      /\ flows'[i] = [flows[i] EXCEPT !.ended = TRUE]
      /\ \A j \in DOMAIN flows : j # i => flows'[j] = flows[j]
  <2>1. [flows[i] EXCEPT !.ended = TRUE] \in FlowType
    BY <1>3 DEF FlowType
  <2>2. flows' = [flows EXCEPT ![i] = [flows[i] EXCEPT !.ended = TRUE]]
    BY <1>1
  <2> QED BY <1>3, <2>1, <2>2
<1>9. /\ flows'[i].ended /\ flows'[i].sid = s /\ flows'[i].cited = flows[i].cited
  BY <1>3, <1>4, <1>8 DEF FlowType
<1>10. FlowsKnown'
  <2>1. \A r \in Sids : Drawn(r)' = Drawn(r)
    BY <1>1, <1>7 DEF Drawn, StreamsCited
  <2>2. \A j \in DOMAIN flows : flows'[j].sid = flows[j].sid /\ flows'[j].cited = flows[j].cited
    BY <1>4, <1>8, <1>9
  <2>3. \A j \in DOMAIN flows : flows[j].sid \in Sids
    <3>1. \A j \in DOMAIN flows : flows[j] \in FlowType
      BY <1>3
    <3> QED BY <3>1 DEF FlowType
  <2>4. pieces' \in Seq(Producer.declarations)
    BY <1>1, <1>2 DEF FlowsKnown
  <2>5. \A r \in Sids : sessions'[r] # None <=> \E j \in DOMAIN flows' : flows'[j].sid = r
    BY <1>2, <1>7, <1>8, <2>2 DEF FlowsKnown
  <2>6. \A m, n \in DOMAIN flows' : m # n => flows'[m].sid # flows'[n].sid
    BY <1>2, <1>8, <2>2 DEF FlowsKnown
  <2>7. ASSUME NEW j \in DOMAIN flows', NEW r \in Sids, r = flows'[j].sid
        PROVE  IsInjective(flows'[j].cited) /\ ToSet(flows'[j].cited) = Drawn(r)'
    <3>1. IsInjective(flows[j].cited) /\ ToSet(flows[j].cited) = Drawn(flows[j].sid)
      BY <1>2, <1>8 DEF FlowsKnown
    <3>2. flows[j].sid = r /\ flows'[j].cited = flows[j].cited
      BY <1>8, <2>2, <2>7
    <3> QED BY <2>1, <3>1, <3>2
  <2> QED BY <1>8, <2>2, <2>3, <2>4, <2>5, <2>6, <2>7 DEF FlowsKnown
<1>11. s \notin Over \cup lost
  BY <1>1, <1>2, <1>4, OpenIsNotOver
<1>12. EndsKnown' /\ Over' = Over
  <2>1. EndedStay
    BY <1>1, <1>8 DEF EndedStay
  <2>2. \A r \in Over : accepted'[r] = accepted[r] /\ sessions'[r].pending = NoStreams
    BY <1>2, <1>7, OverIsKnown
  <2> QED BY <1>2, <1>7, <2>1, <2>2, EndsStay
<1>13. EndingKnown'
  <2>1. Settled(s, extents)'
    <3>1. PICK flow : flow = flows'[i]
      OBVIOUS
    <3>2. ExtentsOf(flow)' = ExtentsOf(flow)
      BY <1>1 DEF ExtentsOf
    <3>3. flow.cited = flows[i].cited
      BY <1>9, <3>1
    <3>4. ExtentsOf(flow) = ExtentsOf(flows[i])
      BY <3>3 DEF ExtentsOf
    <3> QED BY <1>5, <1>8, <1>9, <3>1, <3>2, <3>4 DEF Settled
  <2> QED BY <1>7, <1>11, <1>12, <2>1 DEF EndingKnown
<1> QED BY <1>6, <1>10, <1>12, <1>13 DEF SoundFlows, FlowInv

LEMMA CloseFlowsStep ==
    ASSUME SoundFlows, CloseFlows \/ AbandonFlows
    PROVE  SoundFlows'
<1>1. WriterInv /\ StageInv /\ FlowsKnown /\ HistoryKnown /\ UNCHANGED <<flows, pieces>>
  BY DEF SoundFlows, FlowInv, WriterInv, CloseFlows, AbandonFlows
<1>2. pieces' \in Seq(Producer.declarations)
  BY <1>1 DEF FlowsKnown
<1>3. CASE CloseFlows
  <2>1. CloseStage /\ call = Idle /\ UNCHANGED vars
    BY <1>3 DEF CloseFlows, CloseStage, MayClose
  <2>2. StageInv' /\ stage'.inputs = stage.inputs
    BY <1>1, <2>1, StageTurns DEF CloseStage, StageInv, StageKnown
  <2> QED BY <1>1, <1>2, <2>1, <2>2, WriterAlone
<1>4. CASE AbandonFlows
  <2>1. Abandon /\ stage' = [stage EXCEPT !.step = "done"]
    BY <1>4 DEF AbandonFlows, AbandonStage
  <2>2. WriterInv' /\ StageInv'
    BY <1>1, <2>1, AbandonStep, StageAbandons
  <2>3. /\ call' = Idle /\ UNCHANGED <<file, accepted, lost, sessions>>
        /\ stage'.inputs = stage.inputs
    BY <1>1, <2>1 DEF Abandon, history, StageInv, StageKnown
  <2>4. SessionsAlike
    BY <2>3 DEF SessionsAlike
  <2>5. FlowInv'
    BY <1>1, <1>2, <2>3, <2>4, QuietCall
  <2> QED BY <2>2, <2>5 DEF SoundFlows
<1> QED BY <1>3, <1>4

-------------------------------------------------------------------------------
(* Inside the calls *)

\* What autofill does, and a close of the output that writes no End.
LEMMA FillingStep ==
    ASSUME SoundFlows, Autofill \/ RaiseOut, UNCHANGED <<flows, pieces>>
    PROVE  SoundFlows'
<1>1. WriterInv /\ StageInv /\ FlowsKnown /\ HistoryKnown
  BY DEF SoundFlows, FlowInv, WriterInv
<1>2. pieces' \in Seq(Producer.declarations)
  BY <1>1 DEF FlowsKnown
<1>3. stage.step = "fill" => call = Idle
  BY <1>1 DEF StageInv, StageKnown
<1>4. stage \in [inputs : InputFiles, fill : BOOLEAN,
                 cited : [Inputs -> Lists], marked : [Inputs -> Lists],
                 step : {"open", "fill", "end", "raise", "done"},
                 unfilled : Seq(ToSet(stage.inputs)), fills : Seq(Fills)]
  BY <1>1 DEF StageInv, StageKnown
<1>5. CASE FillStream
  <2>1. UNCHANGED vars /\ call = Idle /\ stage'.inputs = stage.inputs
    BY <1>3, <1>4, <1>5 DEF FillStream, Filling
  <2> QED BY <1>1, <1>2, <1>5, <2>1, StageFills, WriterAlone
<1>6. CASE FillDone
  <2>1. UNCHANGED vars /\ call = Idle /\ stage'.inputs = stage.inputs
    BY <1>3, <1>4, <1>6 DEF FillDone, Filling
  <2> QED BY <1>1, <1>2, <1>6, <2>1, StageFilled, WriterAlone
<1>7. CASE FillClashes \/ RaiseOut
  <2>1. Abandon /\ stage' = [stage EXCEPT !.step = "done"]
    BY <1>7 DEF FillClashes, RaiseOut
  <2>2. WriterInv' /\ StageInv'
    BY <1>1, <2>1, AbandonStep, StageAbandons
  <2>3. /\ call' = Idle /\ UNCHANGED <<file, accepted, lost, sessions>>
        /\ stage'.inputs = stage.inputs
    BY <1>4, <2>1 DEF Abandon, history
  <2>4. SessionsAlike
    BY <2>3 DEF SessionsAlike
  <2>5. FlowInv'
    BY <1>2, <2>3, <2>4, QuietCall
  <2> QED BY <2>2, <2>5 DEF SoundFlows
<1>8. CASE WriteFill
  <2>1. WriterInv' /\ StageInv'
    BY <1>1, <1>8, StageFillWritten
  <2>2. /\ stage.step = "fill" /\ stage.fills # << >> /\ Emit(Head(stage.fills))
        /\ UNCHANGED <<call, accepted, lost, sessions>>
        /\ \/ stage' = [stage EXCEPT !.fills = Tail(@)]
           \/ stage' = [stage EXCEPT !.step = "done"]
    BY <1>8 DEF WriteFill, history
  <2>3. PICK b \in Fills : b = Head(stage.fills)
    <3>1. stage.fills \in Seq(Fills)
      BY <1>4
    <3>2. Head(stage.fills) \in Fills
      BY <2>2, <3>1
    <3> QED BY <3>2
  <2>4. b \in Blocks /\ b.kind = "undecoded"
    BY DEF Fills, Blocks
  <2>5. UNCHANGED file \/ \E c \in Blocks : file' = Append(file, c) /\ c.kind \notin {"sessionEnd", "record"}
    BY <2>2, <2>3, <2>4, MaybeWritten
  <2>6. call' = Idle /\ stage'.inputs = stage.inputs
    BY <1>3, <1>4, <2>2
  <2>7. SessionsAlike
    BY <2>2 DEF SessionsAlike
  <2>8. FlowInv'
    BY <1>2, <2>2, <2>5, <2>6, <2>7, QuietCall
  <2> QED BY <2>1, <2>8 DEF SoundFlows
<1> QED BY <1>5, <1>6, <1>7, <1>8 DEF Autofill

\* What a raise within close(), or within end(), makes of the stage.
LEMMA RaisedStep ==
    ASSUME StageKnown
    PROVE  \E step \in {stage.step, "raise", "done"} : Raised = [stage EXCEPT !.step = step]
<1>1. stage = [stage EXCEPT !.step = stage.step]
  BY DEF StageKnown
<1>2. \/ Raised = [stage EXCEPT !.step = "raise"]
      \/ Raised = [stage EXCEPT !.step = "done"]
      \/ Raised = stage
  BY DEF Raised
<1> QED BY <1>1, <1>2

\* A record that is none of the sessions that are over.
LEMMA OverIsDone ==
    ASSUME WriterInv, FlowsKnown, EndingKnown, EndsKnown, call.step = "merge"
    PROVE  Head(call.left) \notin Over /\ Head(call.left) \in Sids
<1>1. call.left # << >> /\ call.left \in Seq(Sids)
  BY DEF WriterInv, CallKnown
<1> QED BY <1>1 DEF EndsKnown

\* The flush goes on, of a session that is not over.
LEMMA FlushesStep ==
    ASSUME SoundFlows, Flushes, UNCHANGED <<flows, pieces>>
    PROVE  SoundFlows'
<1>1. WriterInv /\ StageInv /\ FlowsKnown /\ EndingKnown /\ EndsKnown /\ HistoryKnown
  BY DEF SoundFlows, FlowInv, WriterInv
<1>2. UNCHANGED stage /\ pieces' \in Seq(Producer.declarations)
  BY <1>1 DEF Flushes, FlowsKnown
<1>3. WriterInv' /\ StageInv'
  <2>1. WriterInv'
    BY <1>1, SkipFlushStep, StartFlushStep, MergeRunsStep, MergeYieldsStep, FlushDoneStep DEF Flushes
  <2> QED BY <1>1, <2>1, StageFlushes
<1>4. call \in [op : {"none", "end", "close"}, sid : Sids \cup {None}, extents : Seq(ExtentType),
                left : Seq(Sids), step : {"none", "flush", "merge", "raise"}]
  BY <1>1 DEF WriterInv, CallKnown
<1>5. /\ UNCHANGED <<accepted, lost>> /\ call.step \in {"flush", "merge"} /\ call.left # << >>
      /\ call'.op = call.op /\ call'.sid = call.sid /\ call'.extents = call.extents
      /\ call'.left = call.left \/ call'.left = Tail(call.left)
  BY <1>1, <1>4 DEF Flushes, SkipFlush, StartFlush, MergeRuns, MergeYields, FlushDone, Flushing, history,
        WriterInv, CallKnown
<1>6. PICK s \in Sids : s = Head(call.left)
  <2>1. Head(call.left) \in Sids
    BY <1>4, <1>5
  <2> QED BY <2>1
<1>7. sessions[s] # None
  BY <1>1, <1>4, <1>5, <1>6 DEF WriterInv, CallKnown
<1>8. /\ \A r \in Sids : sessions'[r] = None <=> sessions[r] = None
      /\ \A r \in Over : sessions'[r].pending = NoStreams
      /\ \/ UNCHANGED file
         \/ \E b \in Blocks : /\ file' = Append(file, b) /\ b.kind # "sessionEnd"
                              /\ \A r \in Over : b \notin SentIn[r]
      /\ call'.step = "merge" => Head(call'.left) \notin Over
      /\ call'.left = call.left \/ (call'.left = Tail(call.left) /\ sessions'[s].pending = NoStreams)
  <2>1. \A r \in Over : r \in Sids /\ sessions[r] # None /\ sessions[r].pending = NoStreams
    BY <1>1, OverIsKnown
  <2>2. CASE SkipFlush
    <3>1. /\ UNCHANGED <<sessions, file>> /\ sessions[s].pending = NoStreams
          /\ call' = [call EXCEPT !.left = Tail(@)] /\ call.step = "flush"
      BY <1>6, <2>2 DEF SkipFlush, Flushing, PendingOf
    <3>2. call'.step = "flush" /\ call'.left = Tail(call.left)
      BY <1>4, <3>1
    <3> QED BY <2>1, <3>1, <3>2
  <2>3. CASE FlushDone
    <3>1. /\ UNCHANGED <<sessions, file>>
          /\ call' = [call EXCEPT !.step = "flush", !.left = Tail(@)] /\ call.step = "merge"
      BY <2>3 DEF FlushDone
    <3>2. sessions[s].pending = NoStreams
      BY <1>1, <1>6, <3>1 DEF WriterInv, CallKnown
    <3>3. call'.step = "flush" /\ call'.left = Tail(call.left)
      BY <1>4, <3>1
    <3> QED BY <2>1, <3>1, <3>2, <3>3
  <2>4. CASE MergeRuns
    <3>1. UNCHANGED <<sessions, file, call>> /\ call.step = "merge"
      BY <2>4 DEF MergeRuns
    <3> QED BY <1>1, <2>1, <3>1, OverIsDone
  <2>5. CASE StartFlush
    <3>1. /\ UNCHANGED file /\ sessions[s].pending # NoStreams
          /\ sessions' = [sessions EXCEPT ![s].pending = NoStreams]
          /\ call' = [call EXCEPT !.step = "merge"]
      BY <1>6, <2>5 DEF StartFlush, PendingOf
    <3>2. s \notin Over
      BY <2>1, <3>1
    <3>3. sessions \in [Sids -> WriterType \cup {None}] /\ sessions[s] \in WriterType
      BY <1>1, <1>7 DEF WriterInv, WritersKnown
    <3>4. sessions'[s] # None
      <4>1. PICK writer \in WriterType : writer = sessions[s]
        BY <3>3
      <4>2. NoStreams \in [Pair -> Seq(Producer.records)]
        BY DEF NoStreams
      <4>3. [writer EXCEPT !.pending = NoStreams] \in WriterType
        BY <4>2, BufferType
      <4>4. sessions'[s] = [writer EXCEPT !.pending = NoStreams]
        BY <3>1, <3>3, <4>1
      <4> QED BY <4>3, <4>4, WriterAssumption
    <3>5. \A r \in Sids \ {s} : sessions'[r] = sessions[r]
      BY <3>1, <3>3
    <3>6. call'.left = call.left
      BY <1>4, <3>1
    <3> QED BY <1>6, <1>7, <2>1, <3>1, <3>2, <3>4, <3>5, <3>6
  <2>6. ASSUME NEW p \in Pair, MergeYields(p)
        PROVE  /\ SessionsAlike
               /\ UNCHANGED file \/ (file' = Append(file, frontier[p].head))
               /\ frontier[p].head \in Producer.records /\ frontier[p].head.sid = s
               /\ call.step = "merge" /\ call'.left = call.left
    <3>1. /\ EmitRecord(s, frontier[p].head) /\ call.step = "merge"
          /\ call' = call \/ call' = [call EXCEPT !.step = "raise"]
      BY <1>6, <2>6 DEF MergeYields
    <3>2. frontier[p].head \in Producer.records /\ frontier[p].head.sid = s
      BY <1>1, <1>6, <2>6, HeadYielded
    <3>3. frontier[p].head \in Blocks
      BY <3>2, SentType
    <3>4. SessionsAlike
      BY <1>1, <1>7, <3>1, <3>2, EmitRecordEffect
    <3>5. UNCHANGED file \/ (file' = Append(file, frontier[p].head))
      BY <3>1, <3>3, MaybeWritten DEF EmitRecord
    <3>6. call'.left = call.left
      BY <1>4, <3>1
    <3> QED BY <3>1, <3>2, <3>4, <3>5, <3>6
  <2>7. CASE \E p \in Pair : MergeYields(p)
    <3>1. PICK p \in Pair : MergeYields(p)
      BY <2>7
    <3>2. PICK b \in Producer.records : b = frontier[p].head /\ b.sid = s
      BY <2>6, <3>1
    <3>3. s \notin Over
      BY <1>1, <1>6, <2>6, <3>1, OverIsDone
    <3>4. b \in Blocks /\ b.kind = "record" /\ \A r \in Sids : r # s => b \notin SentIn[r]
      BY <3>2, SentType
    <3>5. \A r \in Over : b \notin SentIn[r]
      BY <2>1, <3>3, <3>4
    <3>6. \/ UNCHANGED file
          \/ \E c \in Blocks : /\ file' = Append(file, c) /\ c.kind # "sessionEnd"
                               /\ \A r \in Over : c \notin SentIn[r]
      BY <2>6, <3>1, <3>2, <3>4, <3>5
    <3>7. call'.left = call.left /\ SessionsAlike
      BY <2>6, <3>1
    <3> QED BY <1>6, <2>1, <3>3, <3>6, <3>7 DEF SessionsAlike
  <2> QED BY <2>2, <2>3, <2>4, <2>5, <2>7 DEF Flushes
<1>9. FlowsKnown'
  BY <1>1, <1>2, <1>5, <1>8, FlowsStay
<1>10. EndedStay
  BY <1>2 DEF EndedStay
<1>11. EndsKnown' /\ Over' = Over
  BY <1>1, <1>5, <1>8, <1>10, EndsStay
<1>12. EndingKnown'
  <2>1. call.op = "close" => \A i \in DOMAIN flows' : flows'[i].ended
    BY <1>1 DEF EndingKnown
  <2>2. ASSUME call.op = "end"
        PROVE  /\ Settled(call.sid, call.extents)
               /\ call.sid \notin Over \cup lost /\ call.left = <<call.sid>>
    BY <1>1, <1>5, <2>2 DEF EndingKnown
  <2>3. ASSUME call.op = "end"
        PROVE  \/ call'.left = <<call.sid>>
               \/ call'.left = << >> /\ sessions'[call.sid].pending = NoStreams
    <3>1. call.left = <<call.sid>> /\ Head(call.left) = call.sid /\ Tail(call.left) = << >>
      <4>1. \A x : Head(<<x>>) = x /\ Tail(<<x>>) = << >>
        OBVIOUS
      <4>2. call.left = <<call.sid>>
        BY <2>2, <2>3
      <4> QED BY <4>1, <4>2
    <3> QED BY <1>6, <1>8, <3>1
  <2>4. ASSUME call'.op = "end"
        PROVE  Settled(call.sid, call.extents)'
    <3>1. PICK sid, extents : /\ sid = call.sid /\ extents = call.extents
                              /\ sid = call'.sid /\ extents = call'.extents
      BY <1>5
    <3>2. Settled(sid, extents)'
      BY <1>5, <1>10, <2>2, <2>4, <3>1, SettledStays
    <3> QED BY <3>1, <3>2 DEF Settled
  <2>5. call.op # "none"
    BY <1>1, <1>5 DEF EndingKnown
  <2> QED BY <1>5, <1>11, <2>1, <2>2, <2>3, <2>4, <2>5 DEF EndingKnown
<1> QED BY <1>3, <1>9, <1>11, <1>12 DEF SoundFlows, FlowInv

\* A flush raised: its session's flow has ended all the same.
LEMMA FlowRaisesStep ==
    ASSUME SoundFlows, FlowRaises, UNCHANGED <<flows, pieces>>
    PROVE  SoundFlows'
<1>1. WriterInv /\ StageInv /\ FlowsKnown /\ EndingKnown /\ EndsKnown /\ HistoryKnown /\ StageKnown
  BY DEF SoundFlows, FlowInv, WriterInv, StageInv
<1>2. Unwind /\ stage' = Raised
  BY DEF FlowRaises
<1>3. PICK step \in {stage.step, "raise", "done"} : stage' = [stage EXCEPT !.step = step]
  BY <1>1, <1>2, RaisedStep
<1>4. WriterInv' /\ StageInv'
  BY <1>1, <1>2, <1>3, UnwindStep, StageUnwinds
<1>5. /\ UNCHANGED <<file, accepted, sessions>> /\ call' = Idle
      /\ lost' = lost \cup {Head(call.left)} /\ call.step \in {"raise", "merge"}
  BY <1>2 DEF Unwind
<1>6. stage'.inputs = stage.inputs
  BY <1>1, <1>3 DEF StageKnown
<1>7. FlowsKnown'
  <2>1. pieces' \in Seq(Producer.declarations)
    BY <1>1 DEF FlowsKnown
  <2> QED BY <1>1, <1>5, <1>6, <2>1, FlowsStay
<1>8. EndsKnown'
  <2>1. EndedStay
    BY <1>6 DEF EndedStay
  <2>2. \A s \in Over : accepted'[s] = accepted[s] /\ sessions'[s].pending = NoStreams
    BY <1>1, <1>5, OverIsKnown
  <2>3. call'.step # "merge"
    BY <1>5 DEF Idle
  <2>4. \E i \in DOMAIN flows : flows[i].sid = Head(call.left) /\ flows[i].ended
    <3>1. /\ call.op \in {"none", "end", "close"} /\ call.left \in Seq(Sids) /\ call.left # << >>
          /\ \A n \in DOMAIN call.left : sessions[call.left[n]] # None
      BY <1>1, <1>5 DEF WriterInv, CallKnown
    <3>2. CASE call.op = "end"
      <4>1. call.left = <<call.sid>> /\ Settled(call.sid, call.extents)
        BY <1>1, <3>1, <3>2 DEF EndingKnown
      <4>2. Head(call.left) = call.sid
        <5>1. \A x : Head(<<x>>) = x
          OBVIOUS
        <5> QED BY <4>1, <5>1
      <4> QED BY <4>1, <4>2 DEF Settled
    <3>3. CASE call.op = "close"
      <4>1. Head(call.left) \in Sids /\ sessions[Head(call.left)] # None
        BY <3>1
      <4>2. \E i \in DOMAIN flows : flows[i].sid = Head(call.left)
        BY <1>1, <4>1 DEF FlowsKnown
      <4> QED BY <1>1, <3>3, <4>2 DEF EndingKnown
    <3>4. CASE call.op = "none"
      BY <1>1, <1>5, <3>4 DEF EndingKnown
    <3> QED BY <3>1, <3>2, <3>3, <3>4
  <2> QED BY <1>1, <1>5, <2>1, <2>2, <2>3, <2>4, EndsStay
<1>9. EndingKnown'
  BY <1>5 DEF EndingKnown, Idle
<1> QED BY <1>4, <1>7, <1>8, <1>9 DEF SoundFlows, FlowInv

\* The records of a session whose flush is over, and went well, are in the file.
LEMMA FlushedIsWritten ==
    ASSUME WriterInv, LedgerKnown, NEW s \in Sids \ lost, sessions[s] # None,
           sessions[s].pending = NoStreams, call.step = "flush"
    PROVE  ToSet(accepted[s]) = ToSet(file) \cap SentIn[s]
<1>1. Conserved(s)
  BY DEF WriterInv, Spoiled
<1>2. /\ accepted[s] \in Seq(Producer.records) /\ file \in Seq(Blocks)
      /\ ToSet(accepted[s]) \subseteq SentIn[s]
  BY DEF WriterInv, HistoryKnown, LedgerKnown
<1>3. ASSUME NEW p \in Pids
      PROVE  ToSet(accepted[s]) \cap Sent[s][p] = ToSet(file) \cap Sent[s][p]
  <2>1. Kept(accepted[s], Sent[s][p]) = Kept(file, Sent[s][p])
    <3>1. Kept(accepted[s], Sent[s][p]) =
            Kept(file, Sent[s][p]) \o (IF p \in Pair THEN Out(s, p) ELSE << >>)
      BY <1>1 DEF Conserved
    <3>2. p \in Pair => Out(s, p) = << >>
      BY DEF Out, InFlight, NoStreams
    <3>3. PICK kept \in Seq(Blocks) : kept = Kept(file, Sent[s][p])
      BY <1>2, KeptType
    <3>4. kept \o << >> = kept
      OBVIOUS
    <3> QED BY <3>1, <3>2, <3>3, <3>4
  <2>2. ToSet(Kept(accepted[s], Sent[s][p])) = ToSet(accepted[s]) \cap Sent[s][p]
    BY <1>2, KeptMembers
  <2>3. ToSet(Kept(file, Sent[s][p])) = ToSet(file) \cap Sent[s][p]
    BY <1>2, KeptMembers
  <2> QED BY <2>1, <2>2, <2>3
<1>4. \A b \in SentIn[s] : b.pid \in Pids /\ b \in Sent[s][b.pid]
  <2>1. \A b \in SentIn[s] : b \in Producer.records /\ b.sid = s
    BY DEF SentIn
  <2> QED BY <2>1, SentType
<1>5. \A b \in SentIn[s] : b \in ToSet(accepted[s]) <=> b \in ToSet(file)
  BY <1>3, <1>4
<1> QED BY <1>2, <1>5

\* end() ends: its block is written, behind all the records the session accepted,
\* or it is refused and the flow has ended without.
LEMMA FlowEndsStep ==
    ASSUME SoundFlows, FlowEnds, UNCHANGED <<flows, pieces>>
    PROVE  SoundFlows'
<1>1. WriterInv /\ StageInv /\ FlowsKnown /\ EndingKnown /\ EndsKnown /\ HistoryKnown /\ StageKnown
      /\ LedgerKnown
  BY DEF SoundFlows, FlowInv, WriterInv, StageInv
<1>2. /\ EndSession
      /\ stage' = IF Emits(SessionEndOf(call.sid, call.extents)) THEN stage ELSE Raised
  BY DEF FlowEnds
<1>3. PICK step \in {stage.step, "raise", "done"} : stage' = [stage EXCEPT !.step = step]
  <2>1. stage = [stage EXCEPT !.step = stage.step]
    BY <1>1 DEF StageKnown
  <2>2. \E step \in {stage.step, "raise", "done"} : Raised = [stage EXCEPT !.step = step]
    BY <1>1, RaisedStep
  <2> QED BY <1>2, <2>1, <2>2
<1>4. WriterInv' /\ StageInv'
  BY <1>1, <1>2, <1>3, EndSessionStep, StageEndsSession
<1>5. /\ call.op = "end" /\ call.step = "flush" /\ call.left = << >>
      /\ Emit(SessionEndOf(call.sid, call.extents))
      /\ call' = Idle /\ UNCHANGED <<accepted, lost, sessions>>
  BY <1>2 DEF EndSession, Flushed, history
<1>6. stage'.inputs = stage.inputs
  BY <1>1, <1>3 DEF StageKnown
<1>7. EndedStay
  BY <1>6 DEF EndedStay
<1>8. FlowsKnown'
  <2>1. pieces' \in Seq(Producer.declarations)
    BY <1>1 DEF FlowsKnown
  <2> QED BY <1>1, <1>5, <1>6, <2>1, FlowsStay
<1>9. EndingKnown'
  BY <1>5 DEF EndingKnown, Idle
<1>10. /\ Settled(call.sid, call.extents) /\ call.sid \notin Over \cup lost
       /\ sessions[call.sid].pending = NoStreams
  <2>1. call.left # <<call.sid>>
    BY <1>5
  <2> QED BY <1>1, <1>5, <2>1 DEF EndingKnown
<1>11. PICK s \in Sids : s = call.sid /\ sessions[s] # None
  <2>1. PICK i \in DOMAIN flows : flows[i].sid = call.sid
    BY <1>10 DEF Settled
  <2>2. flows[i] \in FlowType
    BY <1>1 DEF FlowsKnown
  <2>3. call.sid \in Sids
    BY <2>1, <2>2 DEF FlowType
  <2> QED BY <1>1, <2>1, <2>3 DEF FlowsKnown
<1>12. PICK extents \in Seq(ExtentType) : extents = call.extents
  BY <1>1 DEF WriterInv, CallKnown
<1>13. PICK b \in Blocks :
         /\ b = SessionEndOf(call.sid, call.extents)
         /\ b.kind = "sessionEnd" /\ b.sid = s /\ b.extents = extents
  <2>1. SessionEndOf(s, extents) \in Blocks
    BY <1>12 DEF SessionEndOf, Blocks
  <2> QED BY <1>11, <1>12, <2>1 DEF SessionEndOf
<1>14. \A r \in Over : r \in Sids /\ r # s /\ sessions[r].pending = NoStreams
  BY <1>1, <1>10, <1>11, OverIsKnown
<1>15. EndsKnown'
  <2>1. CASE ~ Emits(b)
    <3>1. UNCHANGED file
      BY <1>5, <1>13, <2>1 DEF Emit
    <3>2. call'.step # "merge"
      BY <1>5 DEF Idle
    <3> QED BY <1>1, <1>5, <1>7, <1>14, <3>1, <3>2, EndsStay
  <2>2. CASE Emits(b)
    <3>1. PICK before \in Seq(Blocks) : before = file /\ file' = Append(before, b)
      BY <1>1, <1>5, <1>13, <2>2 DEF Emit, HistoryKnown
    <3>2. PICK n \in Nat : n = Len(before) /\ DOMAIN before = 1 .. n
      OBVIOUS
    <3>3. /\ DOMAIN Append(before, b) = 1 .. n + 1 /\ Append(before, b)[n + 1] = b
          /\ \A i \in 1 .. n : Append(before, b)[i] = before[i]
      BY <3>2
    <3>4. ToSet(Append(before, b)) = ToSet(before) \cup {b}
      BY AppendMembers
    <3>5. ToSet(file') = ToSet(file) \cup {b}
      BY <3>1, <3>4
    <3>6. Over' = Over \cup {s}
      <4>1. \A r \in Sids : r \in Over' <=> \E c \in ToSet(file') : c.kind = "sessionEnd" /\ c.sid = r
        BY DEF Over
      <4>2. \A r \in Sids : r \in Over <=> \E c \in ToSet(file) : c.kind = "sessionEnd" /\ c.sid = r
        BY DEF Over
      <4>3. Over' \subseteq Sids /\ Over \subseteq Sids
        BY DEF Over
      <4> QED BY <1>13, <3>5, <4>1, <4>2, <4>3
    <3>7. \A i \in 1 .. n : ~ (file[i].kind = "sessionEnd" /\ file[i].sid = s)
      BY <1>10, <1>11, <3>1, <3>2 DEF Over, ToSet
    <3>8. \A i, j \in DOMAIN file' :
            file'[i].kind = "sessionEnd" /\ file'[j].kind = "sessionEnd" /\ file'[i].sid = file'[j].sid => i = j
      <4>1. \A i, j \in 1 .. n :
              file[i].kind = "sessionEnd" /\ file[j].kind = "sessionEnd" /\ file[i].sid = file[j].sid => i = j
        BY <1>1, <3>1, <3>2 DEF EndsKnown
      <4>2. /\ DOMAIN file' = 1 .. n + 1 /\ file'[n + 1] = b
            /\ \A i \in 1 .. n : file'[i] = file[i]
        BY <3>1, <3>3
      <4>3. \A i \in 1 .. n + 1 : i \in 1 .. n \/ i = n + 1
        OBVIOUS
      <4> QED BY <1>13, <3>7, <4>1, <4>2, <4>3
    <3>9. ASSUME NEW c \in ToSet(file'), c.kind = "sessionEnd"
          PROVE  Settled(c.sid, c.extents)'
      <4>1. Settled(c.sid, c.extents)
        <5>1. CASE c \in ToSet(file)
          BY <1>1, <3>9, <5>1 DEF EndsKnown
        <5>2. CASE c = b
          BY <1>10, <1>11, <1>12, <1>13, <5>2
        <5> QED BY <3>5, <5>1, <5>2
      <4>2. PICK r, e : r = c.sid /\ e = c.extents
        OBVIOUS
      <4>3. Settled(r, e)'
        BY <1>7, <4>1, <4>2, SettledStays
      <4> QED BY <4>2, <4>3
    <3>10. ASSUME NEW r \in Over'
           PROVE  /\ ToSet(accepted'[r]) = ToSet(file') \cap SentIn[r]
                  /\ sessions'[r].pending = NoStreams
                  /\ call'.step # "merge"
      <4>1. r \in Sids /\ sessions[r].pending = NoStreams
        BY <1>10, <1>11, <1>14, <3>6
      <4>2. ToSet(accepted[r]) = ToSet(file) \cap SentIn[r]
        <5>1. CASE r \in Over
          BY <1>1, <5>1 DEF EndsKnown
        <5>2. CASE r = s
          BY <1>1, <1>5, <1>10, <1>11, <5>2, FlushedIsWritten
        <5> QED BY <3>6, <5>1, <5>2
      <4>3. b \notin SentIn[r]
        BY <1>13, <4>1, SentType DEF SentIn
      <4> QED BY <1>5, <3>5, <4>1, <4>2, <4>3 DEF Idle
    <3>11. \A r \in lost' : \E i \in DOMAIN flows' : flows'[i].sid = r /\ flows'[i].ended
      BY <1>1, <1>5 DEF EndsKnown
    <3> QED BY <3>8, <3>9, <3>10, <3>11 DEF EndsKnown
  <2> QED BY <2>1, <2>2
<1> QED BY <1>4, <1>8, <1>9, <1>15 DEF SoundFlows, FlowInv

LEMMA CloseOutputStep ==
    ASSUME SoundFlows, CloseOutput, UNCHANGED <<flows, pieces>>
    PROVE  SoundFlows'
<1>1. WriterInv /\ StageInv /\ FlowsKnown /\ EndsKnown /\ HistoryKnown
  BY DEF SoundFlows, FlowInv, WriterInv
<1>2. /\ Close /\ UNCHANGED stage /\ stage.step = "end" /\ \A i \in DOMAIN flows : flows[i].ended
  BY DEF CloseOutput, Ending
<1>3. WriterInv' /\ StageInv'
  BY <1>1, <1>2, CloseStep, StageCloses
<1>4. /\ UNCHANGED <<file, accepted, lost, sessions>>
      /\ call' = [op |-> "close", sid |-> None, extents |-> << >>, left |-> linearizing, step |-> "flush"]
  BY <1>2 DEF Close, history
<1>5. FlowsKnown'
  <2>1. pieces' \in Seq(Producer.declarations)
    BY <1>1 DEF FlowsKnown
  <2> QED BY <1>1, <1>2, <1>4, <2>1, FlowsStay
<1>6. EndsKnown'
  <2>1. EndedStay
    BY <1>2 DEF EndedStay
  <2>2. \A s \in Over : accepted'[s] = accepted[s] /\ sessions'[s].pending = NoStreams
    BY <1>1, <1>4, OverIsKnown
  <2> QED BY <1>1, <1>4, <2>1, <2>2, EndsStay
<1>7. EndingKnown'
  BY <1>2, <1>4 DEF EndingKnown
<1> QED BY <1>3, <1>5, <1>6, <1>7 DEF SoundFlows, FlowInv

LEMMA OutputClosedStep ==
    ASSUME SoundFlows, OutputClosed, UNCHANGED <<flows, pieces>>
    PROVE  SoundFlows'
<1>1. WriterInv /\ StageInv /\ FlowsKnown /\ StageKnown
  BY DEF SoundFlows, FlowInv, StageInv
<1>2. EndFile /\ stage' = [stage EXCEPT !.step = "done"]
  BY DEF OutputClosed
<1>3. WriterInv' /\ StageInv'
  BY <1>1, <1>2, EndFileStep, StageOutputClosed
<1>4. /\ call' = Idle /\ UNCHANGED <<accepted, lost, sessions>>
      /\ UNCHANGED file \/ Emit([kind |-> "end"])
  BY <1>2 DEF EndFile, history
<1>5. PICK b \in Blocks : b = [kind |-> "end"] /\ b.kind = "end"
  <2>1. [kind |-> "end"] \in Blocks
    BY DEF Blocks
  <2>2. [kind |-> "end"].kind = "end"
    OBVIOUS
  <2> QED BY <2>1, <2>2
<1>6. UNCHANGED file \/ \E c \in Blocks : file' = Append(file, c) /\ c.kind \notin {"sessionEnd", "record"}
  BY <1>4, <1>5, MaybeWritten
<1>7. SessionsAlike
  BY <1>4 DEF SessionsAlike
<1>8. pieces' \in Seq(Producer.declarations) /\ stage'.inputs = stage.inputs
  BY <1>1, <1>2 DEF FlowsKnown, StageKnown
<1>9. FlowInv'
  BY <1>4, <1>6, <1>7, <1>8, QuietCall
<1> QED BY <1>3, <1>9 DEF SoundFlows

-------------------------------------------------------------------------------
(* The theorems *)

\* Every step of a sessionizer keeps the invariant.
LEMMA FlowNextStep == SoundFlows /\ [FlowNext]_flowVars => SoundFlows'
<1> SUFFICES ASSUME SoundFlows, [FlowNext]_flowVars PROVE SoundFlows'
  OBVIOUS
<1>1. CASE Sessionizes(Producer)
  <2>1. ASSUME NEW key \in Producer.keys, NEW s \in Producer.sids, NEW mode \in Producer.modes,
               OpenFlow(key, s, mode.linearize)
        PROVE  SoundFlows'
    <3>1. s \in Sids /\ mode.linearize \in BOOLEAN
      BY WriterAssumption
    <3> QED BY <2>1, <3>1, OpenFlowStep
  <2>2. ASSUME NEW b \in Producer.participants, DeclareEndpoint(b) PROVE SoundFlows'
    BY <2>2, DeclareEndpointStep
  <2>3. ASSUME NEW b \in Producer.records, NEW i \in DOMAIN flows, FlowRecord(i, b) PROVE SoundFlows'
    BY <2>3, FlowRecordStep
  <2>4. ASSUME NEW b \in Producer.declarations, FlowUndecoded(b) PROVE SoundFlows'
    BY <2>4, FlowUndecodedStep
  <2>5. ASSUME NEW marks \in Producer.incomplete, Incomplete(marks) PROVE SoundFlows'
    BY <2>5, IncompleteStep
  <2> QED BY <1>1, <2>1, <2>2, <2>3, <2>4, <2>5 DEF Sessionizes
<1>2. ASSUME NEW i \in DOMAIN flows, EndEarly(i) PROVE SoundFlows'
  <2>1. EndFlow(i) /\ stage.step # "fill"
    BY <1>2 DEF EndEarly
  <2> QED BY <2>1, EndFlowStep
<1>3. CASE CloseFlows \/ AbandonFlows
  BY <1>3, CloseFlowsStep
<1>4. CASE MarkPiece
  BY <1>4, MarkPieceStep
<1>5. CASE EndRest
  <2>1. PICK i \in DOMAIN flows : EndFlow(i)
    BY <1>5 DEF EndRest
  <2>2. stage.step # "fill"
    BY <1>5 DEF EndRest, Ending
  <2> QED BY <2>1, <2>2, EndFlowStep
<1>6. ASSUME Autofill \/ FlowEnds \/ FlowRaises \/ Flushes \/ CloseOutput \/ RaiseOut \/ OutputClosed,
             UNCHANGED <<flows, pieces>>
      PROVE  SoundFlows'
  <2>1. CASE Autofill \/ RaiseOut
    BY <1>6, <2>1, FillingStep
  <2>2. CASE FlowEnds
    BY <1>6, <2>2, FlowEndsStep
  <2>3. CASE FlowRaises
    BY <1>6, <2>3, FlowRaisesStep
  <2>4. CASE Flushes
    BY <1>6, <2>4, FlushesStep
  <2>5. CASE CloseOutput
    BY <1>6, <2>5, CloseOutputStep
  <2>6. CASE OutputClosed
    BY <1>6, <2>6, OutputClosedStep
  <2> QED BY <1>6, <2>1, <2>2, <2>3, <2>4, <2>5, <2>6
<1>7. CASE UNCHANGED flowVars
  <2>1. /\ UNCHANGED <<file, closed, sessions, linearizing, call, mergeVars, history>>
        /\ UNCHANGED <<accepted, lost, stage, flows, pieces>>
    BY <1>7 DEF flowVars, vars, history
  <2>2. SessionsAlike /\ sessions' \in [Sids -> WriterType \cup {None}]
    BY <2>1 DEF SessionsAlike, SoundFlows, WriterInv, WritersKnown
  <2>3. WriterInv'
    BY <2>1, <2>2, QuietStep DEF SoundFlows
  <2>4. StageInv'
    <3>1. (stage.step = "fill" => call' = Idle) /\ (call'.op = "close" => stage.step = "end")
      BY <2>1 DEF SoundFlows, StageInv, StageKnown
    <3> QED BY <2>1, <3>1, MarksStay, StageAlone DEF SoundFlows, WriterInv
  <2>5. FlowInv'
    <3>1. FlowsKnown'
      <4>1. FlowsKnown /\ pieces' \in Seq(Producer.declarations)
        BY <2>1 DEF SoundFlows, FlowInv, FlowsKnown
      <4> QED BY <2>1, <2>2, <4>1, FlowsStay DEF SessionsAlike
    <3>2. EndingKnown'
      BY <2>1 DEF SoundFlows, FlowInv, EndingKnown, Settled, Over, ExtentsOf
    <3>3. EndsKnown'
      <4>1. FlowsKnown /\ EndsKnown /\ HistoryKnown /\ EndedStay
        BY <2>1 DEF SoundFlows, FlowInv, WriterInv, EndedStay
      <4>2. \A s \in Over : accepted'[s] = accepted[s] /\ sessions'[s].pending = NoStreams
        BY <2>1, <2>2, <4>1, OverIsKnown DEF SessionsAlike
      <4>3. call'.step = "merge" => Head(call'.left) \notin Over
        BY <2>1, <4>1 DEF EndsKnown
      <4> QED BY <2>1, <4>1, <4>2, <4>3, EndsStay
    <3> QED BY <3>1, <3>2, <3>3 DEF FlowInv
  <2> QED BY <2>3, <2>4, <2>5 DEF SoundFlows
<1> QED BY <1>1, <1>2, <1>3, <1>4, <1>5, <1>6, <1>7 DEF FlowNext, FlowInside


\* Every reachable state of a sessionizer satisfies the invariant.
THEOREM FlowsAlwaysSound == FlowSpec => []SoundFlows
<1> DEFINE Start == \E inputs \in InputFiles, fill \in BOOLEAN : FlowInit(inputs, fill)
<1>1. Start => SoundFlows
  BY FlowsOpen
<1>2. FlowSpec => Start /\ [][FlowNext]_flowVars
  BY DEF FlowSpec
<1> HIDE DEF Start
<1> QED BY <1>1, <1>2, FlowNextStep, PTL

\* What is counted of a sessionizer's input is what the file has of its flows and what
\* they still hold, whichever flow cited it; of a flow whose flush raised, also what
\* that dropped; and incomplete() marks no piece ahead of its block (decode.py
\* _Ledger, sessionize.py record, incomplete).
THEOREM FlowLedgerIsFile == FlowSpec => []LedgerIsFile
<1>1. SoundFlows => LedgerIsFile
  BY LedgerIsRead DEF SoundFlows
<1> QED BY <1>1, FlowsAlwaysSound, PTL

\* A sessionizer that closed with an End block has each offset of its input cited
\* or named, and none both, for every input file and every order of its calls
\* (sessionize.py close, decode.py autofill).
THEOREM FlowStageCovers == FlowSpec => []ClosedStageCovers
<1>1. SoundFlows => ClosedStageCovers
  BY DEF SoundFlows, StageInv
<1> QED BY <1>1, FlowsAlwaysSound, PTL

\* And what it filled in on its own is named once, and named truthfully.
THEOREM FlowFillsAreHonest == FlowSpec => []FillsAreHonest
<1>1. SoundFlows => FillsAreHonest
  BY DEF SoundFlows, StageInv
<1> QED BY <1>1, FlowsAlwaysSound, PTL

\* What a flow drew on, once it is over, is what its records in the file cite.
LEMMA DrawnIsCited ==
    ASSUME SoundFlows, NEW s \in Over
    PROVE  Drawn(s) = InputsCited(s)
<1>1. ToSet(accepted[s]) = ToSet(file) \cap SentIn[s]
  BY DEF SoundFlows, FlowInv, EndsKnown
<1>2. s \in Sids /\ HistoryKnown
  BY DEF Over, SoundFlows, WriterInv
<1>3. \A b \in ToSet(file) : b \in SentIn[s] <=> b.kind = "record" /\ b.sid = s
  <2>1. \A b \in ToSet(file) : b.kind = "record" => b \in Producer.records
    BY <1>2, FileHolds
  <2>2. \A b : b \in SentIn[s] <=> b \in Producer.records /\ b.sid = s
    BY <1>2 DEF SentIn
  <2>3. \A b \in Producer.records : b.kind = "record"
    BY <1>2, SentType
  <2> QED BY <2>1, <2>2, <2>3
<1>4. ToSet(accepted[s]) = { b \in ToSet(file) : b.kind = "record" /\ b.sid = s }
  BY <1>1, <1>3
<1> QED BY <1>4 DEF Drawn, InputsCited

\* What the invariant says of the extents declared.
LEMMA EndsAreDeclared == SoundFlows => EndsDeclareCites
<1> SUFFICES ASSUME SoundFlows, NEW n \in DOMAIN file, file[n].kind = "sessionEnd"
             PROVE  LET extents == file[n].extents
                    IN  /\ { extents[i].input : i \in DOMAIN extents } = InputsCited(file[n].sid)
                        /\ Cardinality({ extents[i].input : i \in DOMAIN extents }) = Len(extents)
                        /\ \A i \in DOMAIN extents : \E x \in ToSet(stage.inputs) :
                              InputOf(x.sid, x.pid) = extents[i].input /\ x.extent = extents[i].extent
  BY DEF EndsDeclareCites
<1> DEFINE s == file[n].sid
           extents == file[n].extents
<1>1. /\ FlowsKnown /\ EndsKnown /\ stage.inputs \in InputFiles
  BY DEF SoundFlows, FlowInv, StageInv, StageKnown
<1>2. file[n] \in ToSet(file)
  BY DEF ToSet
<1>3. PICK i \in DOMAIN flows : flows[i].sid = s /\ extents = ExtentsOf(flows[i])
  BY <1>1, <1>2 DEF EndsKnown, Settled
<1>4. /\ flows[i] \in FlowType /\ IsInjective(flows[i].cited)
      /\ ToSet(flows[i].cited) = Drawn(s)
  BY <1>1, <1>3 DEF FlowsKnown
<1>5. PICK cited \in Seq(Inputs) : cited = flows[i].cited
  BY <1>4 DEF FlowType
<1>6. s \in Over
  BY <1>1, <1>2, <1>3, <1>4 DEF Over, FlowType
<1>7. ToSet(cited) = InputsCited(s)
  BY <1>4, <1>5, <1>6, DrawnIsCited
<1>8. ToSet(cited) \subseteq { InputOf(x.sid, x.pid) : x \in ToSet(stage.inputs) }
  BY <1>7 DEF InputsCited, StreamsCited
<1>9. /\ extents \in Seq(ExtentType)
      /\ DOMAIN extents = DOMAIN cited
      /\ \A m \in DOMAIN cited :
            /\ extents[m].input = cited[m]
            /\ \E x \in ToSet(stage.inputs) :
                  InputOf(x.sid, x.pid) = cited[m] /\ x.extent = extents[m].extent
  BY <1>1, <1>3, <1>5, <1>8, ExtentsFit
<1>10. { extents[m].input : m \in DOMAIN extents } = ToSet(cited)
  BY <1>9 DEF ToSet
<1>11. Cardinality(ToSet(cited)) = Len(extents)
  <2>1. PICK m \in Nat : m = Len(cited) /\ cited \in [1 .. m -> Inputs]
    OBVIOUS
  <2>2. Len(extents) = m
    BY <1>9, <2>1
  <2>3. cited \in Injection(1 .. m, ToSet(cited))
    BY <1>4, <1>5, <2>1 DEF IsInjective, Injection, ToSet
  <2>4. cited \in Surjection(1 .. m, ToSet(cited))
    BY <2>1 DEF Surjection, ToSet
  <2>5. ExistsBijection(1 .. m, ToSet(cited))
    BY <2>3, <2>4 DEF ExistsBijection, Bijection
  <2> QED BY <2>1, <2>2, <2>5, FS_CountingElements
<1> QED BY <1>7, <1>9, <1>10, <1>11

\* A Session End declares each input stream its session's records in the file cite,
\* once, at that stream's own extent, and no other: for every input file, any
\* number of flows, and every order of citing, refusing, buffering and ending,
\* whether end() was called early or by close() (sessionize.py input_extents, end).
THEOREM EndsAlwaysDeclare == FlowSpec => []EndsDeclareCites
BY FlowsAlwaysSound, EndsAreDeclared, PTL

-------------------------------------------------------------------------------
(* The reader of the output *)

\* The extents a flow declares are those of input streams.
LEMMA ExtentsDeclare ==
    ASSUME SoundFlows, NEW i \in DOMAIN flows
    PROVE  DeclareInputs(ExtentsOf(flows[i]))
<1>1. /\ flows[i] \in FlowType /\ ToSet(flows[i].cited) = Drawn(flows[i].sid)
  BY DEF SoundFlows, FlowInv, FlowsKnown
<1>2. PICK cited \in Seq(Inputs) : cited = flows[i].cited /\ ToSet(cited) = Drawn(flows[i].sid)
  BY <1>1 DEF FlowType
<1>3. ToSet(cited) \subseteq { InputOf(x.sid, x.pid) : x \in ToSet(stage.inputs) }
  BY <1>2 DEF Drawn, StreamsCited
<1> DEFINE X(n) == CHOOSE x \in ToSet(stage.inputs) : InputOf(x.sid, x.pid) = cited[n]
<1>4. ASSUME NEW n \in DOMAIN cited
      PROVE  X(n) \in ToSet(stage.inputs)
  <2>1. cited[n] \in ToSet(cited)
    BY DEF ToSet
  <2>2. \E x \in ToSet(stage.inputs) : InputOf(x.sid, x.pid) = cited[n]
    BY <1>3, <2>1
  <2> QED BY <2>2
<1>5. ExtentsOf(flows[i]) = [n \in DOMAIN cited |-> ExtentOf(X(n))]
  BY <1>2 DEF ExtentsOf
<1> HIDE DEF X
<1> QED BY <1>4, <1>5 DEF DeclareInputs

\* Every step of a sessionizer keeps what the reader has read in step with the ledger.
LEMMA FlowReads == SoundFlows /\ ReadKnown /\ [FlowNext]_flowVars => ReadKnown'
<1> SUFFICES ASSUME SoundFlows, ReadKnown, [FlowNext]_flowVars PROVE ReadKnown'
  OBVIOUS
<1>0. WriterInv /\ StageTyped
  BY StageIsTyped DEF SoundFlows
<1>1. ASSUME NEW key \in Producer.keys, NEW s \in Producer.sids, NEW mode \in Producer.modes,
             OpenFlow(key, s, mode.linearize)
      PROVE  ReadKnown'
  <2>1. PICK chosen \in [verify : BOOLEAN, linearize : BOOLEAN] :
          chosen = [verify |-> mode.linearize, linearize |-> mode.linearize]
    <3>1. mode.linearize \in BOOLEAN
      BY WriterAssumption
    <3> QED BY <3>1
  <2>2. s \in Sids /\ BeginSession(s, chosen) /\ UNCHANGED stage
    BY <1>1, <2>1, WriterAssumption DEF OpenFlow
  <2> QED BY <1>0, <2>2, ReadCalls
<1>2. ASSUME NEW b \in Producer.participants, DeclareEndpoint(b)
      PROVE  ReadKnown'
  BY <1>0, <1>2, ReadCalls DEF DeclareEndpoint
<1>3. ASSUME NEW b \in Producer.records, NEW i \in DOMAIN flows, FlowRecord(i, b)
      PROVE  ReadKnown'
  BY <1>0, <1>3, ReadCounts DEF FlowRecord
<1>4. ASSUME NEW b \in Producer.declarations, MarkUndecoded(b)
      PROVE  ReadKnown'
  BY <1>0, <1>4, ReadMarks
<1>5. ASSUME NEW marks, Incomplete(marks)
      PROVE  ReadKnown'
  BY <1>0, <1>5, ReadCloses DEF Incomplete
<1>6. CASE Sessionizes(Producer)
  BY <1>1, <1>2, <1>3, <1>4, <1>5, <1>6 DEF Sessionizes, FlowUndecoded
<1>7. CASE MarkPiece
  <2>1. PICK b \in Producer.declarations : b = Head(pieces)
    <3>1. pieces \in Seq(Producer.declarations) /\ pieces # << >>
      BY <1>7 DEF SoundFlows, FlowInv, FlowsKnown, MarkPiece
    <3> QED BY <3>1
  <2> QED BY <1>4, <1>7, <2>1 DEF MarkPiece
<1>8. ASSUME NEW i \in DOMAIN flows, EndFlow(i)
      PROVE  ReadKnown'
  <2>1. DeclareInputs(ExtentsOf(flows[i]))
    BY ExtentsDeclare
  <2>2. End(flows[i].sid, ExtentsOf(flows[i])) /\ UNCHANGED stage
    BY <1>8 DEF EndFlow
  <2> QED BY <1>0, <2>1, <2>2, ReadEnds
<1>9. CASE EndRest \/ \E i \in DOMAIN flows : EndEarly(i)
  BY <1>8, <1>9 DEF EndRest, EndEarly
<1>10. CASE CloseFlows \/ AbandonFlows \/ UNCHANGED flowVars
  BY <1>0, <1>10, ReadCloses DEF CloseFlows, AbandonFlows, AbandonStage, flowVars
<1>11. \E step : Raised = [stage EXCEPT !.step = step]
  <2>1. stage = [stage EXCEPT !.step = stage.step]
    BY <1>0 DEF StageTyped
  <2> QED BY <2>1 DEF Raised
<1>12. CASE FlowEnds
  <2>1. \E step : stage' = [stage EXCEPT !.step = step]
    <3>1. stage = [stage EXCEPT !.step = stage.step]
      BY <1>0 DEF StageTyped
    <3> QED BY <1>11, <1>12, <3>1 DEF FlowEnds
  <2> QED BY <1>0, <1>12, <2>1, ReadEndsSession DEF FlowEnds
<1>13. CASE FlowRaises
  BY <1>0, <1>11, <1>13, ReadCloses DEF FlowRaises
<1>14. CASE Autofill \/ CloseOutput \/ RaiseOut
  BY <1>0, <1>14, ReadCloses DEF CloseOutput, RaiseOut
<1>15. CASE Flushes \/ OutputClosed
  BY <1>0, <1>15, ReadFlushes, ReadEndsFile DEF OutputClosed
<1> QED BY <1>6, <1>7, <1>9, <1>10, <1>12, <1>13, <1>14, <1>15 DEF FlowNext, FlowInside

LEMMA FlowOpensReading ==
    ASSUME NEW inputs \in InputFiles, NEW fill \in BOOLEAN, FlowInit(inputs, fill)
    PROVE  ReadKnown
<1>1. InitAfter(Scaffold, << >>) /\ stage = Opened(inputs, fill)
  BY DEF FlowInit
<1>2. Scaffold \in Seq(Openers) /\ \E i \in DOMAIN Scaffold : Scaffold[i].kind = "source"
  <2>1. /\ Header \in Openers
        /\ [kind |-> "source", id |-> 0, source |-> "zpf"] \in Openers
        /\ [kind |-> "decoder", id |-> 0, layer |-> "transport"] \in Openers
    BY StageAssumption DEF Openers
  <2>2. 2 \in DOMAIN Scaffold /\ Scaffold[2].kind = "source"
    BY DEF Scaffold
  <2> QED BY <2>1, <2>2 DEF Scaffold
<1> QED BY <1>1, <1>2, OpenedReads

\* The reader of a clean output finds no fault in its coverage, however many sessions
\* share an input stream, each declaring the whole of it: given a caller who cites and
\* marks inside the streams it read, and an input whose FINs are the last offsets of
\* theirs (sessionize.py input_extents; decode.py _declare_extents, "so the two cannot
\* disagree").
THEOREM FlowReaderAgrees == FlowSpec => [](StaysInside => ReaderAgrees)
<1> DEFINE Start == \E inputs \in InputFiles, fill \in BOOLEAN : FlowInit(inputs, fill)
<1>1. Start => SoundFlows /\ ReadKnown
  BY FlowsOpen, FlowOpensReading
<1>2. FlowSpec => Start /\ [][FlowNext]_flowVars
  BY DEF FlowSpec
<1>3. SoundFlows /\ ReadKnown => (StaysInside => ReaderAgrees)
  BY ReaderIsRight DEF SoundFlows, WriterInv
<1> HIDE DEF Start
<1> QED BY <1>1, <1>2, <1>3, FlowNextStep, FlowReads, PTL

\* At every instant of a stage, inside its close() too, what it took of a stream is
\* what it wrote, then what a merge still holds, then what it still buffers, also
\* across the flows a session is cut into (sessionize.py record, close; writer.py
\* _flush_pending).
THEOREM FlowConservesRecords == FlowSpec => []RecordsConserved
<1>1. SoundFlows => RecordsConserved
  BY SoundConserves DEF SoundFlows
<1> QED BY <1>1, FlowsAlwaysSound, PTL

-------------------------------------------------------------------------------
(* The lives of flows *)

\* A file is complete when no flow is open nor being ended, and takes no block then.
CompleteKnown == Complete => closed /\ call.op # "end" /\ \A i \in DOMAIN flows : flows[i].ended

\* A flow that has ended is over, unless that is being done, or nobody will.
EndedKnown ==
    \A i \in DOMAIN flows : flows[i].ended /\ flows[i].sid \notin lost \cup Over =>
        \/ call.op = "end" /\ call.sid = flows[i].sid
        \/ closed /\ ~ Complete

\* A session begins once, and is a flow's.
BeginsKnown ==
    /\ \A i \in DOMAIN flows : \E n \in DOMAIN file : file[n].kind = "session" /\ file[n].sid = flows[i].sid
    /\ \A n \in DOMAIN file : file[n].kind = "session" =>
          \E i \in DOMAIN flows : file[n].sid = flows[i].sid
    /\ \A m, n \in DOMAIN file :
          file[m].kind = "session" /\ file[n].kind = "session" /\ file[m].sid = file[n].sid => m = n

\* The sessions of a key follow each other.
EndsBefore(i, j) ==
    \E m, n \in DOMAIN file :
        /\ file[m].kind = "sessionEnd" /\ file[m].sid = flows[i].sid
        /\ file[n].kind = "session" /\ file[n].sid = flows[j].sid
        /\ m < n

SerialKnown ==
    \A i, j \in DOMAIN flows : i < j /\ flows[i].key = flows[j].key =>
        flows[i].ended /\ (flows[i].sid \notin lost => EndsBefore(i, j))

LivesInv == CompleteKnown /\ EndedKnown /\ BeginsKnown /\ SerialKnown

\* The flows may come to cite more, and nothing else.
LivesAlike ==
    /\ DOMAIN flows' = DOMAIN flows
    /\ \A i \in DOMAIN flows :
          flows'[i].key = flows[i].key /\ flows'[i].sid = flows[i].sid /\ flows'[i].ended = flows[i].ended

\* At most one block is written, which begins no session and does not end the file.
Writes ==
    \/ UNCHANGED file
    \/ ~ closed /\ \E b \in Blocks : file' = Append(file, b) /\ b.kind \notin {"session", "end"}

\* An end() under way goes on, or has come to its end.
EndTold ==
    call.op = "end" =>
        \/ call'.op = "end" /\ call'.sid = call.sid
        \/ call.sid \in lost' \cup Over'
        \/ closed' /\ ~ Complete'

LEMMA EmitWrites ==
    ASSUME NEW b \in Blocks, Emit(b), b.kind \notin {"session", "end"}
    PROVE  Writes
BY DEF Emit, Emits, Writes

\* What is in the file stays where it is.
LEMMA FileStays ==
    ASSUME HistoryKnown, UNCHANGED file \/ \E b \in Blocks : file' = Append(file, b)
    PROVE  /\ DOMAIN file \subseteq DOMAIN file'
           /\ \A n \in DOMAIN file : file'[n] = file[n]
           /\ Over \subseteq Over'
<1>1. PICK f \in Seq(Blocks) : f = file
  BY DEF HistoryKnown
<1>2. CASE UNCHANGED file
  BY <1>2 DEF Over
<1>3. CASE \E b \in Blocks : file' = Append(file, b)
  <2>1. PICK b \in Blocks : file' = Append(f, b)
    BY <1>1, <1>3
  <2>2. /\ DOMAIN f \subseteq DOMAIN Append(f, b)
        /\ \A n \in DOMAIN f : Append(f, b)[n] = f[n]
    OBVIOUS
  <2>3. ToSet(Append(f, b)) = ToSet(f) \cup {b}
    BY AppendMembers
  <2>4. ToSet(file) \subseteq ToSet(file')
    BY <1>1, <2>1, <2>3
  <2> QED BY <1>1, <2>1, <2>2, <2>4 DEF Over
<1> QED BY <1>2, <1>3

\* A block that is written is the last one.
LEMMA LastOfMore ==
    ASSUME HistoryKnown, NEW b \in Blocks, file' = Append(file, b)
    PROVE  /\ Complete' <=> b.kind = "end"
           /\ Len(file) + 1 \in DOMAIN file' /\ file'[Len(file) + 1] = b
           /\ \A n \in DOMAIN file' : n \in DOMAIN file \/ n = Len(file) + 1
           /\ \A n \in DOMAIN file : n < Len(file) + 1
<1>1. PICK f \in Seq(Blocks) : f = file
  BY DEF HistoryKnown
<1>2. PICK more : more = Append(f, b)
  OBVIOUS
<1>3. /\ Len(more) = Len(f) + 1 /\ more[Len(f) + 1] = b /\ DOMAIN more = 1 .. Len(f) + 1
      /\ DOMAIN f = 1 .. Len(f) /\ Len(f) \in Nat
  BY <1>2
<1>4. file' = more
  BY <1>1, <1>2
<1> QED BY <1>1, <1>3, <1>4 DEF Complete

\* A step that neither opens nor ends a flow, nor ends the file.
LEMMA LivesStay ==
    ASSUME SoundFlows, LivesInv, Writes, LivesAlike, EndTold,
           closed => closed', call'.op = "end" => call.op = "end", lost \subseteq lost'
    PROVE  LivesInv'
<1>1. HistoryKnown
  BY DEF SoundFlows, WriterInv
<1>2. /\ DOMAIN file \subseteq DOMAIN file'
      /\ \A n \in DOMAIN file : file'[n] = file[n]
      /\ Over \subseteq Over'
  BY <1>1, FileStays DEF Writes
<1>3. Complete' => Complete
  BY <1>1, LastOfMore DEF Writes, Complete
<1>4. \A n \in DOMAIN file' : file'[n].kind = "session" => n \in DOMAIN file
  BY <1>1, LastOfMore DEF Writes
<1>5. CompleteKnown'
  BY <1>3 DEF LivesInv, CompleteKnown, LivesAlike
<1>6. EndedKnown'
  BY <1>2, <1>3 DEF LivesInv, EndedKnown, LivesAlike, EndTold
<1>7. BeginsKnown'
  BY <1>2, <1>4 DEF LivesInv, BeginsKnown, LivesAlike
<1>8. SerialKnown'
  <2>1. \A i, j \in DOMAIN flows : EndsBefore(i, j) => EndsBefore(i, j)'
    BY <1>2 DEF EndsBefore, LivesAlike
  <2> QED BY <2>1 DEF LivesInv, SerialKnown, LivesAlike
<1> QED BY <1>5, <1>6, <1>7, <1>8 DEF LivesInv

\* A flow is opened: the one of its key before it is over, or was lost.
LEMMA LivesOpen ==
    ASSUME SoundFlows, SoundFlows', LivesInv,
           NEW key \in Producer.keys, NEW s \in Sids, NEW sequenced \in BOOLEAN, OpenFlow(key, s, sequenced)
    PROVE  LivesInv'
<1> DEFINE b == [kind |-> "session", sid |-> s]
           flow == [key |-> key, sid |-> s, ended |-> FALSE, cited |-> << >>]
<1>1. /\ Emit(b) /\ sessions[s] = None /\ call = Idle /\ OpenFlows(key) = {}
      /\ UNCHANGED <<call, accepted, lost, closed>>
      /\ flows' = IF Emits(b) THEN Append(flows, flow) ELSE flows
  BY DEF OpenFlow, BeginSession, MayCall, history
<1>2. /\ HistoryKnown /\ FlowsKnown /\ FlowsKnown' /\ flows \in Seq(FlowType)
  BY DEF SoundFlows, FlowInv, WriterInv, FlowsKnown
<1>3. b \in Blocks /\ b.kind = "session" /\ b.sid = s
  BY DEF Blocks
<1> HIDE DEF b
<1>4. CASE ~ Emits(b)
  <2>1. UNCHANGED <<file, flows>>
    BY <1>1, <1>4 DEF Emit
  <2> QED BY <1>1, <2>1, LivesStay DEF Writes, LivesAlike, EndTold, Idle
<1>5. CASE Emits(b)
  <2>1. ~ closed /\ file' = Append(file, b)
    BY <1>1, <1>5 DEF Emit, Emits
  <2>2. PICK m \in Nat : m = Len(flows) /\ DOMAIN flows = 1 .. m
    BY <1>2
  <2>3. /\ DOMAIN flows' = 1 .. m + 1 /\ flows'[m + 1] = flow
        /\ \A i \in 1 .. m : flows'[i] = flows[i]
    <3>1. flow \in FlowType
      BY DEF FlowType
    <3> QED BY <1>1, <1>2, <1>5, <2>2, <3>1
  <2>4. flow.key = key /\ flow.sid = s /\ ~ flow.ended
    OBVIOUS
  <2> HIDE DEF flow
  <2>5. /\ DOMAIN file \subseteq DOMAIN file' /\ (\A n \in DOMAIN file : file'[n] = file[n])
        /\ Over \subseteq Over'
    BY <1>2, <1>3, <2>1, FileStays
  <2>6. /\ ~ Complete'
        /\ Len(file) + 1 \in DOMAIN file' /\ file'[Len(file) + 1] = b
        /\ \A n \in DOMAIN file' : n \in DOMAIN file \/ n = Len(file) + 1
        /\ \A n \in DOMAIN file : n < Len(file) + 1
    BY <1>2, <1>3, <2>1, LastOfMore
  <2>7. \A i \in 1 .. m : flows[i].sid # s
    BY <1>1, <1>2, <2>2 DEF FlowsKnown
  <2>8. CompleteKnown'
    BY <2>6 DEF CompleteKnown
  <2>9. \A i \in 1 .. m : flows[i].ended => flows[i].sid \in lost \cup Over
    BY <1>1, <2>1, <2>2 DEF LivesInv, EndedKnown, Idle
  <2>10. EndedKnown'
    BY <1>1, <2>3, <2>4, <2>5, <2>9 DEF EndedKnown
  <2>11. BeginsKnown'
    <3>1. \A i \in DOMAIN flows' : \E n \in DOMAIN file' :
            file'[n].kind = "session" /\ file'[n].sid = flows'[i].sid
      BY <1>3, <2>2, <2>3, <2>4, <2>5, <2>6 DEF LivesInv, BeginsKnown
    <3>2. \A n \in DOMAIN file' : file'[n].kind = "session" =>
            \E i \in DOMAIN flows' : file'[n].sid = flows'[i].sid
      <4> SUFFICES ASSUME NEW n \in DOMAIN file', file'[n].kind = "session"
                   PROVE  \E i \in DOMAIN flows' : file'[n].sid = flows'[i].sid
        OBVIOUS
      <4>1. CASE n \in DOMAIN file
        BY <2>2, <2>3, <2>5, <4>1 DEF LivesInv, BeginsKnown
      <4>2. CASE n = Len(file) + 1
        <5>1. m + 1 \in DOMAIN flows' /\ flows'[m + 1].sid = s
          BY <2>3, <2>4
        <5> QED BY <1>3, <2>6, <4>2, <5>1
      <4> QED BY <2>6, <4>1, <4>2
    <3>3. \A n \in DOMAIN file : file[n].kind = "session" => file[n].sid # s
      BY <2>2, <2>7 DEF LivesInv, BeginsKnown
    <3>4. \A k, n \in DOMAIN file' :
            file'[k].kind = "session" /\ file'[n].kind = "session" /\ file'[k].sid = file'[n].sid => k = n
      BY <1>3, <2>5, <2>6, <3>3 DEF LivesInv, BeginsKnown
    <3> QED BY <3>1, <3>2, <3>4 DEF BeginsKnown
  <2>12. ASSUME NEW i \in 1 .. m, flows[i].key = key PROVE flows[i].ended
    <3>1. CASE flows[i].ended
      BY <3>1
    <3>2. CASE ~ flows[i].ended
      <4>1. i \notin OpenFlows(key)
        BY <1>1
      <4>2. PICK j \in i + 1 .. m : flows[j].key = key
        BY <2>2, <2>12, <3>2, <4>1 DEF OpenFlows
      <4>3. j \in 1 .. m /\ i < j
        BY <2>2
      <4> QED BY <2>2, <2>12, <4>2, <4>3 DEF LivesInv, SerialKnown
    <3> QED BY <3>1, <3>2
  <2>13. SerialKnown'
    <3> SUFFICES ASSUME NEW i \in DOMAIN flows', NEW j \in DOMAIN flows', i < j,
                        flows'[i].key = flows'[j].key
                 PROVE  flows'[i].ended /\ (flows'[i].sid \notin lost' => EndsBefore(i, j)')
      BY DEF SerialKnown
    <3>1. i \in 1 .. m /\ flows'[i] = flows[i]
      BY <2>2, <2>3
    <3>2. CASE j \in 1 .. m
      <4>1. flows'[j] = flows[j]
        BY <2>3, <3>2
      <4>2. flows[i].ended /\ (flows[i].sid \notin lost => EndsBefore(i, j))
        BY <2>2, <3>1, <3>2, <4>1 DEF LivesInv, SerialKnown
      <4>3. EndsBefore(i, j) => EndsBefore(i, j)'
        BY <2>5, <3>1, <4>1 DEF EndsBefore
      <4> QED BY <1>1, <3>1, <4>2, <4>3
    <3>3. CASE j = m + 1
      <4>1. flows[i].ended
        BY <2>3, <2>4, <2>12, <3>1, <3>3
      <4>2. ASSUME flows[i].sid \notin lost PROVE EndsBefore(i, j)'
        <5>1. flows[i].sid \in Over
          BY <2>9, <3>1, <4>1, <4>2
        <5>2. PICK k \in DOMAIN file : file[k].kind = "sessionEnd" /\ file[k].sid = flows[i].sid
          BY <5>1 DEF Over, ToSet
        <5>3. /\ k \in DOMAIN file' /\ file'[k] = file[k] /\ k < Len(file) + 1
              /\ Len(file) + 1 \in DOMAIN file' /\ file'[Len(file) + 1] = b
          BY <2>5, <2>6
        <5>4. flows'[j].sid = s /\ flows'[i].sid = flows[i].sid
          BY <2>3, <2>4, <3>1, <3>3
        <5> QED BY <1>3, <5>2, <5>3, <5>4 DEF EndsBefore
      <4> QED BY <1>1, <3>1, <4>1, <4>2
    <3> QED BY <2>2, <2>3, <3>2, <3>3
  <2> QED BY <2>8, <2>10, <2>11, <2>13 DEF LivesInv
<1> QED BY <1>4, <1>5

\* A flow is marked as ended, and its session is about to be.
LEMMA LivesEnd ==
    ASSUME SoundFlows, LivesInv, NEW i \in DOMAIN flows, EndFlow(i)
    PROVE  LivesInv'
<1>1. /\ ~ flows[i].ended /\ call = Idle /\ call'.op = "end" /\ call'.sid = flows[i].sid
      /\ flows' = [flows EXCEPT ![i].ended = TRUE]
      /\ UNCHANGED <<file, closed, lost>>
  BY DEF EndFlow, End, history
<1>2. flows \in Seq(FlowType)
  BY DEF SoundFlows, FlowInv, FlowsKnown
<1>3. PICK flow \in FlowType : flow = flows[i]
  BY <1>2
<1>4. /\ DOMAIN flows' = DOMAIN flows
      /\ \A j \in DOMAIN flows : j # i => flows'[j] = flows[j]
      /\ flows'[i].key = flows[i].key /\ flows'[i].sid = flows[i].sid /\ flows'[i].ended
  <2>1. flows'[i] = [flow EXCEPT !.ended = TRUE] /\ \A j \in DOMAIN flows : j # i => flows'[j] = flows[j]
    BY <1>1, <1>3
  <2> QED BY <1>1, <1>3, <2>1 DEF FlowType
<1>5. ~ Complete /\ ~ Complete'
  BY <1>1 DEF LivesInv, CompleteKnown, Complete
<1>6. CompleteKnown'
  BY <1>5 DEF CompleteKnown
<1>7. EndedKnown'
  <2>1. Over' = Over
    BY <1>1 DEF Over
  <2>2. \A j \in DOMAIN flows : flows[j].ended /\ flows[j].sid \notin lost \cup Over => closed
    BY <1>1 DEF LivesInv, EndedKnown, Idle
  <2> QED BY <1>1, <1>4, <1>5, <2>1, <2>2 DEF EndedKnown
<1>8. \A j \in DOMAIN flows :
        /\ flows'[j].key = flows[j].key /\ flows'[j].sid = flows[j].sid
        /\ flows[j].ended => flows'[j].ended
  BY <1>4
<1>9. BeginsKnown'
  BY <1>1, <1>4, <1>8 DEF LivesInv, BeginsKnown
<1>10. SerialKnown'
  <2>1. \A j, k \in DOMAIN flows : EndsBefore(j, k) => EndsBefore(j, k)'
    BY <1>1, <1>8 DEF EndsBefore
  <2> QED BY <1>1, <1>4, <1>8, <2>1 DEF LivesInv, SerialKnown
<1> QED BY <1>6, <1>7, <1>9, <1>10 DEF LivesInv

\* What a call does to the flows outside end(): nothing, or to what they cite.
LEMMA LivesCall ==
    ASSUME SoundFlows, LivesInv, Writes, LivesAlike, call = Idle, call'.op # "end",
           closed => closed', lost \subseteq lost'
    PROVE  LivesInv'
BY LivesStay DEF EndTold, Idle

LEMMA LivesCalls ==
    ASSUME SoundFlows, SoundFlows', LivesInv, Sessionizes(Producer)
    PROVE  LivesInv'
<1>1. ASSUME NEW key \in Producer.keys, NEW s \in Producer.sids, NEW mode \in Producer.modes,
             OpenFlow(key, s, mode.linearize)
      PROVE  LivesInv'
  <2>1. s \in Sids /\ mode.linearize \in BOOLEAN
    BY WriterAssumption
  <2> QED BY <1>1, <2>1, LivesOpen
<1>2. ASSUME NEW b \in Producer.participants, DeclareEndpoint(b)
      PROVE  LivesInv'
  <2>1. /\ Emit(b) /\ call = Idle /\ UNCHANGED <<flows, closed, call, lost>>
    BY <1>2 DEF DeclareEndpoint, Participant, MayCall, history
  <2>2. b \in Blocks /\ b.kind = "participant"
    BY WriterAssumption DEF Blocks
  <2>3. Writes
    BY <2>1, <2>2, EmitWrites
  <2> QED BY <2>1, <2>3, LivesCall DEF LivesAlike, Idle
<1>3. ASSUME NEW b \in Producer.records, NEW i \in DOMAIN flows, FlowRecord(i, b)
      PROVE  LivesInv'
  <2>1. /\ Record(b) \/ Buffer(b)
        /\ flows' = IF Takes(b) THEN [flows EXCEPT ![i] = WithCites(@, b)] ELSE flows
    BY <1>3 DEF FlowRecord
  <2>2. /\ UNCHANGED file \/ Emit(b)
        /\ call = Idle /\ UNCHANGED <<closed, call, lost>>
    BY <2>1 DEF Record, Buffer, EmitRecord, MayCall, history
  <2>3. b \in Blocks /\ b.kind = "record"
    BY WriterAssumption DEF Blocks, SessionRecord
  <2>4. Writes
    BY <2>2, <2>3, EmitWrites DEF Writes
  <2>5. LivesAlike
    <3>1. PICK flow \in FlowType : flow = flows[i]
      BY DEF SoundFlows, FlowInv, FlowsKnown
    <3>2. PICK cited : WithCites(flow, b) = [flow EXCEPT !.cited = cited]
      BY DEF WithCites
    <3>3. /\ [flow EXCEPT !.cited = cited].key = flow.key
          /\ [flow EXCEPT !.cited = cited].sid = flow.sid
          /\ [flow EXCEPT !.cited = cited].ended = flow.ended
      BY DEF FlowType
    <3>4. /\ WithCites(flow, b).key = flow.key /\ WithCites(flow, b).sid = flow.sid
          /\ WithCites(flow, b).ended = flow.ended
      BY <3>2, <3>3
    <3>5. \/ flows' = flows
          \/ flows' = [flows EXCEPT ![i] = WithCites(flow, b)]
      BY <2>1, <3>1
    <3>6. flows \in Seq(FlowType)
      BY DEF SoundFlows, FlowInv, FlowsKnown
    <3> QED BY <3>1, <3>4, <3>5, <3>6 DEF LivesAlike
  <2> QED BY <2>2, <2>4, <2>5, LivesCall DEF Idle
<1>4. ASSUME NEW b \in Producer.declarations, FlowUndecoded(b)
      PROVE  LivesInv'
  <2>1. /\ Emit(b) /\ call = Idle /\ UNCHANGED <<flows, closed, call, lost>>
    BY <1>4 DEF FlowUndecoded, MarkUndecoded, Declare, MayCall, history
  <2>2. b \in Blocks /\ b.kind = "undecoded"
    BY StageAssumption DEF Blocks, Markable
  <2>3. Writes
    BY <2>1, <2>2, EmitWrites
  <2> QED BY <2>1, <2>3, LivesCall DEF LivesAlike, Idle
<1>5. ASSUME NEW marks \in Producer.incomplete, Incomplete(marks)
      PROVE  LivesInv'
  <2>1. /\ call = Idle /\ UNCHANGED <<flows, file, closed, call, lost>>
    BY <1>5 DEF Incomplete, MayFlow, MayStage, MayCall, vars, history
  <2> QED BY <2>1, LivesCall DEF Writes, LivesAlike, Idle
<1> QED BY <1>1, <1>2, <1>3, <1>4, <1>5 DEF Sessionizes

\* The End block is written when every flow has ended, or nothing is.
LEMMA LivesClose ==
    ASSUME SoundFlows, LivesInv, OutputClosed, UNCHANGED flows
    PROVE  LivesInv'
<1> DEFINE b == [kind |-> "end"]
<1>1. /\ call.op = "close" /\ call' = Idle /\ closed' /\ UNCHANGED lost
      /\ UNCHANGED file \/ (~ closed /\ file' = Append(file, b))
  BY DEF OutputClosed, EndFile, Flushed, Emit, Emits, history
<1>2. HistoryKnown /\ \A i \in DOMAIN flows : flows[i].ended
  BY <1>1 DEF SoundFlows, FlowInv, WriterInv, EndingKnown
<1>3. b \in Blocks /\ b.kind = "end"
  BY DEF Blocks
<1> HIDE DEF b
<1>4. CASE UNCHANGED file
  BY <1>1, <1>4, LivesStay DEF Writes, LivesAlike, EndTold, Idle
<1>5. CASE ~ closed /\ file' = Append(file, b)
  <2>1. /\ DOMAIN file \subseteq DOMAIN file' /\ (\A n \in DOMAIN file : file'[n] = file[n])
        /\ Over \subseteq Over'
    BY <1>2, <1>3, <1>5, FileStays
  <2>2. \A n \in DOMAIN file' : file'[n].kind = "session" => n \in DOMAIN file
    BY <1>2, <1>3, <1>5, LastOfMore
  <2>3. CompleteKnown'
    BY <1>1, <1>2 DEF CompleteKnown, Idle
  <2>4. EndedKnown'
    <3>1. \A i \in DOMAIN flows : flows[i].sid \in lost \cup Over
      BY <1>1, <1>2, <1>5 DEF LivesInv, EndedKnown
    <3> QED BY <1>1, <2>1, <3>1 DEF EndedKnown
  <2>5. BeginsKnown'
    BY <2>1, <2>2 DEF LivesInv, BeginsKnown
  <2>6. SerialKnown'
    <3>1. \A i, j \in DOMAIN flows : EndsBefore(i, j) => EndsBefore(i, j)'
      BY <2>1 DEF EndsBefore
    <3> QED BY <1>1, <3>1 DEF LivesInv, SerialKnown
  <2> QED BY <2>3, <2>4, <2>5, <2>6 DEF LivesInv
<1> QED BY <1>1, <1>4, <1>5

\* A step inside close() or end() that writes a fill, a record or nothing.
LEMMA LivesInside ==
    ASSUME SoundFlows, SoundFlows', LivesInv, EndsStand, FlowInside
    PROVE  LivesInv'
<1>0. /\ HistoryKnown /\ StageKnown /\ WriterInv /\ flows \in Seq(FlowType)
      /\ pieces \in Seq(Producer.declarations)
  BY DEF SoundFlows, FlowInv, WriterInv, StageInv, FlowsKnown
<1>1. CASE MarkPiece
  <2>1. PICK b \in Producer.declarations : b = Head(pieces) /\ MarkUndecoded(b)
    BY <1>0, <1>1 DEF MarkPiece
  <2>2. /\ Emit(b) /\ call = Idle /\ UNCHANGED <<flows, closed, call, lost>>
    BY <1>1, <2>1 DEF MarkPiece, MarkUndecoded, Declare, MayCall, history
  <2>3. b \in Blocks /\ b.kind = "undecoded"
    BY StageAssumption DEF Blocks, Markable
  <2>4. Writes
    BY <2>2, <2>3, EmitWrites
  <2> QED BY <2>2, <2>4, LivesCall DEF LivesAlike, Idle
<1>2. CASE EndRest
  BY <1>2, LivesEnd DEF EndRest
<1>3. ASSUME Autofill \/ RaiseOut, UNCHANGED flows PROVE LivesInv'
  <2>1. UNCHANGED <<call, lost>> /\ (closed => closed') /\ Writes
    <3>1. CASE FillStream \/ FillDone
      BY <3>1 DEF FillStream, FillDone, vars, history, Writes
    <3>2. CASE FillClashes \/ RaiseOut
      BY <3>2 DEF FillClashes, RaiseOut, Abandon, history, Writes
    <3>3. CASE WriteFill
      <4>1. PICK b \in Fills : b = Head(stage.fills)
        <5>1. stage.fills \in Seq(Fills) /\ stage.fills # << >>
          BY <1>0, <3>3 DEF StageKnown, WriteFill
        <5> QED BY <5>1
      <4>2. b \in Blocks /\ b.kind = "undecoded"
        BY DEF Blocks, Fills
      <4>3. Emit(b) /\ UNCHANGED <<call, lost>>
        BY <3>3, <4>1 DEF WriteFill, history
      <4>4. closed => closed'
        BY <3>3 DEF WriteFill
      <4>5. Writes
        BY <4>2, <4>3, EmitWrites
      <4> QED BY <4>3, <4>4, <4>5
    <3> QED BY <1>3, <3>1, <3>2, <3>3 DEF Autofill
  <2>2. LivesAlike
    BY <1>3 DEF LivesAlike
  <2>3. EndTold
    BY <2>1 DEF EndTold
  <2> QED BY <2>1, <2>2, <2>3, LivesStay
<1>4. ASSUME FlowEnds, UNCHANGED flows PROVE LivesInv'
  <2>1. /\ call.op = "end" /\ Flushed("end") /\ call' = Idle /\ UNCHANGED <<closed, lost>>
        /\ Emit(SessionEndOf(call.sid, call.extents))
    BY <1>4 DEF FlowEnds, EndSession, Flushed, history
  <2>2. PICK b : b = SessionEndOf(call.sid, call.extents)
    OBVIOUS
  <2>3. b \in Blocks /\ b.kind = "sessionEnd" /\ b.sid = call.sid
    <3>1. call.sid \in Sids \cup {None} /\ call.extents \in Seq(ExtentType)
      BY <1>0 DEF WriterInv, CallKnown
    <3> QED BY <2>2, <3>1 DEF SessionEndOf, Blocks
  <2>4. Writes
    BY <2>1, <2>2, <2>3, EmitWrites
  <2>5. EndTold
    <3>1. CASE closed
      <4>1. UNCHANGED file
        BY <2>1, <3>1 DEF Emit, Emits
      <4>2. ~ Complete
        BY <2>1 DEF LivesInv, CompleteKnown
      <4> QED BY <2>1, <3>1, <4>1, <4>2 DEF EndTold, Complete
    <3>2. CASE ~ closed
      <4>1. file' = Append(file, b)
        BY <2>1, <2>2, <3>2 DEF EndsStand, Emit
      <4>2. Len(file) + 1 \in DOMAIN file' /\ file'[Len(file) + 1] = b
        BY <1>0, <2>3, <4>1, LastOfMore
      <4>3. b \in ToSet(file')
        BY <4>2 DEF ToSet
      <4>4. call.sid \in Sids
        <5>1. PICK i \in DOMAIN flows : flows[i].sid = call.sid
          BY <2>1 DEF SoundFlows, FlowInv, EndingKnown, Settled
        <5>2. flows[i] \in FlowType
          BY <1>0
        <5> QED BY <5>1, <5>2 DEF FlowType
      <4> QED BY <2>3, <4>3, <4>4 DEF EndTold, Over
    <3> QED BY <3>1, <3>2
  <2> QED BY <1>4, <2>1, <2>4, <2>5, LivesStay DEF LivesAlike, Idle
<1>5. ASSUME FlowRaises, UNCHANGED flows PROVE LivesInv'
  <2>1. /\ call.left # << >> /\ call' = Idle /\ UNCHANGED <<closed, file>>
        /\ lost' = lost \cup {Head(call.left)}
    BY <1>0, <1>5 DEF FlowRaises, Unwind, WriterInv, CallKnown
  <2>2. call.op = "end" => call.sid \in lost'
    <3>1. call.op = "end" => call.left = <<call.sid>>
      BY <2>1 DEF SoundFlows, FlowInv, EndingKnown
    <3> QED BY <2>1, <3>1
  <2> QED BY <1>5, <2>1, <2>2, LivesStay DEF LivesAlike, Idle, Writes, EndTold
<1>6. ASSUME Flushes, UNCHANGED flows PROVE LivesInv'
  <2>1. UNCHANGED <<closed, lost>> /\ call'.op = call.op /\ call'.sid = call.sid
    <3>1. call = [call EXCEPT !.left = call.left, !.step = call.step]
      BY <1>0 DEF WriterInv, CallKnown
    <3>2. \E left, step : call' = [call EXCEPT !.left = left, !.step = step]
      <4>1. CASE SkipFlush
        <5>1. call' = [call EXCEPT !.left = Tail(call.left)]
          BY <4>1 DEF SkipFlush
        <5>2. \A left : [call EXCEPT !.left = left] = [call EXCEPT !.left = left, !.step = call.step]
          BY <1>0 DEF WriterInv, CallKnown
        <5> QED BY <5>1, <5>2
      <4>2. CASE StartFlush
        <5>1. call' = [call EXCEPT !.step = "merge"]
          BY <4>2 DEF StartFlush
        <5>2. [call EXCEPT !.step = "merge"] = [call EXCEPT !.left = call.left, !.step = "merge"]
          BY <1>0 DEF WriterInv, CallKnown
        <5> QED BY <5>1, <5>2
      <4>3. CASE MergeRuns
        BY <3>1, <4>3 DEF MergeRuns
      <4>4. CASE \E p \in Pair : MergeYields(p)
        <5>1. call' = call \/ call' = [call EXCEPT !.step = "raise"]
          BY <4>4 DEF MergeYields
        <5>2. [call EXCEPT !.step = "raise"] = [call EXCEPT !.left = call.left, !.step = "raise"]
          BY <1>0 DEF WriterInv, CallKnown
        <5> QED BY <3>1, <5>1, <5>2
      <4>5. CASE FlushDone
        BY <4>5 DEF FlushDone
      <4> QED BY <1>6, <4>1, <4>2, <4>3, <4>4, <4>5 DEF Flushes
    <3>3. call'.op = call.op /\ call'.sid = call.sid
      <4>1. PICK left, step : call' = [call EXCEPT !.left = left, !.step = step]
        BY <3>2
      <4> QED BY <1>0, <4>1 DEF WriterInv, CallKnown
    <3> QED BY <1>6, <3>3 DEF Flushes, SkipFlush, StartFlush, MergeRuns, MergeYields, FlushDone, history
  <2>2. Writes
    <3>1. CASE SkipFlush \/ StartFlush \/ MergeRuns \/ FlushDone
      BY <3>1 DEF SkipFlush, StartFlush, MergeRuns, FlushDone, Writes
    <3>2. ASSUME NEW p \in Pair, MergeYields(p) PROVE Writes
      <4>1. PICK b : b = frontier[p].head /\ EmitRecord(Head(call.left), b)
        BY <3>2 DEF MergeYields
      <4>2. b \in Producer.records
        BY <1>0, <3>2, <4>1, HeadYielded
      <4>3. b \in Blocks /\ b.kind = "record"
        BY <4>2, WriterAssumption DEF Blocks, SessionRecord
      <4> QED BY <4>1, <4>3, EmitWrites DEF EmitRecord, Writes
    <3> QED BY <1>6, <3>1, <3>2 DEF Flushes
  <2> QED BY <1>6, <2>1, <2>2, LivesStay DEF LivesAlike, EndTold
<1>7. ASSUME CloseOutput, UNCHANGED flows PROVE LivesInv'
  <2>1. call = Idle /\ call'.op = "close" /\ UNCHANGED <<file, closed, lost>>
    BY <1>7 DEF CloseOutput, Ending, Close, history
  <2> QED BY <1>7, <2>1, LivesCall DEF LivesAlike, Writes
<1>8. ASSUME OutputClosed, UNCHANGED flows PROVE LivesInv'
  BY <1>8, LivesClose
<1> QED BY <1>1, <1>2, <1>3, <1>4, <1>5, <1>6, <1>7, <1>8 DEF FlowInside

LEMMA LivesNext ==
    SoundFlows /\ SoundFlows' /\ LivesInv /\ EndsStand /\ [FlowNext]_flowVars => LivesInv'
<1> SUFFICES ASSUME SoundFlows, SoundFlows', LivesInv, EndsStand, [FlowNext]_flowVars PROVE LivesInv'
  OBVIOUS
<1>1. ASSUME NEW i \in DOMAIN flows, EndEarly(i) PROVE LivesInv'
  BY <1>1, LivesEnd DEF EndEarly
<1>2. CASE CloseFlows \/ AbandonFlows
  <2>1. /\ call = Idle /\ call' = Idle /\ (closed => closed') /\ UNCHANGED <<flows, file, lost>>
    BY <1>2 DEF CloseFlows, AbandonFlows, CloseStage, AbandonStage, MayClose, Abandon, vars, history
  <2> QED BY <2>1, LivesCall DEF LivesAlike, Writes, Idle
<1>3. CASE UNCHANGED flowVars
  <2>1. UNCHANGED <<flows, file, lost, call, closed>>
    BY <1>3 DEF flowVars, vars, history
  <2> QED BY <2>1, LivesStay DEF LivesAlike, Writes, EndTold
<1> QED BY <1>1, <1>2, <1>3, LivesCalls, LivesInside DEF FlowNext

LEMMA FlowsOpenLives ==
    ASSUME NEW inputs \in InputFiles, NEW fill \in BOOLEAN, FlowInit(inputs, fill)
    PROVE  LivesInv
<1>1. file = Scaffold /\ flows = << >>
  BY DEF FlowInit, InitAfter
<1>2. DOMAIN Scaffold = 1 .. 3 /\ Len(Scaffold) = 3 /\ Scaffold[1] = Header /\ Scaffold[2].kind = "source"
      /\ Scaffold[3].kind = "decoder"
  BY DEF Scaffold
<1>3. ~ Complete /\ \A n \in DOMAIN file : file[n].kind # "session"
  BY <1>1, <1>2, WriterAssumption DEF Complete
<1>4. DOMAIN flows = {}
  BY <1>1
<1> QED BY <1>3, <1>4 DEF LivesInv, CompleteKnown, EndedKnown, BeginsKnown, SerialKnown

\* What the invariant says of the Session Ends of a flow.
LEMMA LivesEndOnce == SoundFlows /\ LivesInv => FlowsEndOnce
<1> SUFFICES ASSUME SoundFlows, LivesInv, call = Idle, ~ closed \/ Complete, NEW i \in DOMAIN flows
             PROVE  /\ flows[i].sid \notin lost =>
                         Cardinality(EndsOf(flows[i].sid)) = IF flows[i].ended THEN 1 ELSE 0
                    /\ Complete => flows[i].ended
  BY DEF FlowsEndOnce
<1>1. Complete => flows[i].ended
  BY DEF LivesInv, CompleteKnown
<1>2. CASE flows[i].ended /\ flows[i].sid \notin lost
  <2>1. flows[i].sid \in Over
    BY <1>2 DEF LivesInv, EndedKnown, Idle
  <2>2. PICK n \in DOMAIN file : file[n].kind = "sessionEnd" /\ file[n].sid = flows[i].sid
    BY <2>1 DEF Over, ToSet
  <2>3. EndsOf(flows[i].sid) = {n}
    BY <2>2 DEF EndsOf, SoundFlows, FlowInv, EndsKnown
  <2> QED BY <1>1, <1>2, <2>3, FS_Singleton
<1>3. CASE ~ flows[i].ended
  <2>1. flows[i].sid \notin Over
    BY <1>3, OpenIsNotOver DEF SoundFlows, FlowInv
  <2>2. flows[i].sid \in Sids
    <3>1. flows[i] \in FlowType
      BY DEF SoundFlows, FlowInv, FlowsKnown
    <3> QED BY <3>1 DEF FlowType
  <2>3. EndsOf(flows[i].sid) = {}
    BY <2>1, <2>2 DEF EndsOf, Over, ToSet
  <2> QED BY <1>1, <1>3, <2>3, FS_EmptySet
<1> QED BY <1>1, <1>2, <1>3

LEMMA LivesSerial == SoundFlows /\ LivesInv => KeysAreSerial
<1> SUFFICES ASSUME SoundFlows, LivesInv, NEW i \in DOMAIN flows, NEW j \in DOMAIN flows,
                    i < j, flows[i].key = flows[j].key
             PROVE  /\ flows[i].ended
                    /\ flows[i].sid \notin lost =>
                          \E n \in EndsOf(flows[i].sid) : n < BeginOf(flows[j].sid)
  BY DEF KeysAreSerial
<1>1. flows[i].ended /\ (flows[i].sid \notin lost => EndsBefore(i, j))
  BY DEF LivesInv, SerialKnown
<1>2. ASSUME EndsBefore(i, j) PROVE \E n \in EndsOf(flows[i].sid) : n < BeginOf(flows[j].sid)
  <2>1. PICK m \in DOMAIN file, n \in DOMAIN file :
          /\ file[m].kind = "sessionEnd" /\ file[m].sid = flows[i].sid
          /\ file[n].kind = "session" /\ file[n].sid = flows[j].sid
          /\ m < n
    BY <1>2 DEF EndsBefore
  <2>2. BeginOf(flows[j].sid) = n
    BY <2>1 DEF BeginOf, LivesInv, BeginsKnown
  <2>3. m \in EndsOf(flows[i].sid)
    BY <2>1 DEF EndsOf
  <2> QED BY <2>1, <2>2, <2>3
<1> QED BY <1>1, <1>2

\* As long as no Session End is refused, a flow that has ended has its Session End in
\* the file, once, an open one has none, and a complete file leaves none open, however
\* its end() was made, early or by close(), and whatever its records ran into; only a
\* flush that raised takes a flow's end away (sessionize.py ended, close).
THEOREM FlowsAlwaysEndOnce == FlowSpec /\ []EndsStand => []FlowsEndOnce
<1> DEFINE Start == \E inputs \in InputFiles, fill \in BOOLEAN : FlowInit(inputs, fill)
<1>1. Start => LivesInv
  BY FlowsOpenLives
<1>2. FlowSpec => Start /\ [][FlowNext]_flowVars
  BY DEF FlowSpec
<1> HIDE DEF Start
<1> QED BY <1>1, <1>2, FlowsAlwaysSound, LivesNext, LivesEndOnce, PTL

\* As long as no Session End is refused, the session of a key begins, for every number
\* of flows and keys, behind the end of the one before (sessionize.py session: "once
\* the key's session has ended, the next call opens a new session").
THEOREM KeysAlwaysSerial == FlowSpec /\ []EndsStand => []KeysAreSerial
<1> DEFINE Start == \E inputs \in InputFiles, fill \in BOOLEAN : FlowInit(inputs, fill)
<1>1. Start => LivesInv
  BY FlowsOpenLives
<1>2. FlowSpec => Start /\ [][FlowNext]_flowVars
  BY DEF FlowSpec
<1> HIDE DEF Start
<1> QED BY <1>1, <1>2, FlowsAlwaysSound, LivesNext, LivesSerial, PTL

===============================================================================
