----------------------------- MODULE DecodeProofs -----------------------------
(***************************************************************************)
(* Theorems about DecodeStage, for every input file, every number of       *)
(* sessions and every order of a decoder's calls: the ledger is what the   *)
(* output accounts for, and close() makes up the rest.                     *)
(***************************************************************************)
EXTENDS DecodeStage, StageProofs

\* A record behind the break of its seam is one the decoder passed, and nothing but
\* that record() goes on before it is written; close() ends sessions of the output.
DecodeKnown ==
    /\ seams \in [emitted : SUBSET Pids, record : Producer.records \cup {None}]
    /\ seams.record # None => seams.record \in Producer.records /\ stage.step \in {"open", "done"}
    /\ unended \in Seq(Sids)

SoundDecode == WriterInv /\ StageInv /\ DecodeKnown

-------------------------------------------------------------------------------
(* The start *)

\* derive_from writes sessions and participants of the input.
LEMMA MirrorOpens ==
    ASSUME NEW inputs \in InputFiles, NEW i \in DOMAIN inputs
    PROVE  /\ MirrorOf(inputs, i) \in Seq(Blocks)
           /\ \A b \in ToSet(MirrorOf(inputs, i)) :
                 \/ b.kind = "session" /\ b.sid \in Sids
                 \/ b.kind = "participant" /\ b \in Participants
           /\ ToSet(MirrorOf(inputs, i)) \subseteq Openers
<1> DEFINE x == inputs[i]
           session == [kind |-> "session", sid |-> x.sid]
           participant == [kind |-> "participant", sid |-> x.sid, pid |-> x.pid, isn |-> None,
                           adjacency |-> "contiguous"]
<1>1. x.sid \in Sids /\ x.pid \in Pids
  <2>1. x \in ToSet(inputs)
    BY DEF ToSet
  <2> QED BY <2>1, InputsFit DEF InputStream
<1>2. session \in Blocks /\ session.kind = "session" /\ session.sid \in Sids /\ session \in Openers
  BY <1>1 DEF Blocks, Openers
<1>3. /\ participant \in Blocks /\ participant.kind = "participant" /\ participant \in Participants
      /\ participant \in Openers
  BY <1>1 DEF Blocks, Scaffolds, Participants, Openers
<1> DEFINE before == IF \E j \in 1 .. i - 1 : inputs[j].sid = inputs[i].sid THEN << >> ELSE <<session>>
<1>4. MirrorOf(inputs, i) = before \o <<participant>>
  BY DEF MirrorOf
<1> HIDE DEF session, participant
<1>5. PICK a \in Seq(Blocks) : a = before /\ ToSet(a) \subseteq {session}
  <2>1. << >> \in Seq(Blocks) /\ ToSet(<< >>) = {}
    BY DEF ToSet
  <2>2. <<session>> \in Seq(Blocks) /\ ToSet(<<session>>) = {session}
    BY <1>2 DEF ToSet
  <2> QED BY <2>1, <2>2
<1>6. PICK b \in Seq(Blocks) : b = <<participant>> /\ ToSet(b) = {participant}
  <2>1. <<participant>> \in Seq(Blocks) /\ ToSet(<<participant>>) = {participant}
    BY <1>3 DEF ToSet
  <2> QED BY <2>1
<1> HIDE DEF before
<1>7. a \o b \in Seq(Blocks) /\ ToSet(a \o b) = ToSet(a) \cup ToSet(b)
  BY ToSetConcat
<1>8. MirrorOf(inputs, i) = a \o b
  BY <1>4, <1>5, <1>6
<1> QED BY <1>2, <1>3, <1>5, <1>6, <1>7, <1>8

\* What decode_stage writes before its first call opens a file.
LEMMA DecodeScaffold ==
    ASSUME NEW inputs \in InputFiles
    PROVE  /\ Scaffold(inputs) \in Seq(Blocks) /\ Scaffold(inputs) # << >>
           /\ Scaffold(inputs)[Len(Scaffold(inputs))].kind = "decoder"
           /\ \A b \in ToSet(Scaffold(inputs)) :
                 /\ b.kind \in {"header", "source", "decoder", "session", "participant"}
                 /\ b.kind = "participant" => b \in Participants
                 /\ b.kind = "session" => b.sid \in Sids
           /\ Scaffold(inputs) \in Seq(Openers)
           /\ \E i \in DOMAIN Scaffold(inputs) : Scaffold(inputs)[i].kind = "source"
<1> DEFINE source == [kind |-> "source", id |-> 0, source |-> "zpf"]
           decoder == [kind |-> "decoder", id |-> 0, layer |-> "decoded"]
           front == <<Header, source>>
           mirrors == [i \in DOMAIN inputs |-> MirrorOf(inputs, i)]
           middle == FlattenSeq(mirrors)
           back == <<decoder>>
<1>1. /\ Header \in Blocks /\ Header.kind = "header"
      /\ source \in Blocks /\ source.kind = "source"
      /\ decoder \in Blocks /\ decoder.kind = "decoder"
      /\ {Header, source, decoder} \subseteq Openers
  BY StageAssumption, WriterAssumption DEF Blocks, Scaffolds, Openers
<1>2. mirrors \in Seq(Seq(Blocks)) /\ DOMAIN mirrors = DOMAIN inputs
  <2>1. inputs \in Seq(ToSet(inputs))
    BY InputsFit
  <2>2. DOMAIN inputs = 1 .. Len(inputs) /\ Len(inputs) \in Nat
    BY <2>1
  <2>3. \A i \in DOMAIN inputs : mirrors[i] \in Seq(Blocks)
    BY MirrorOpens
  <2> QED BY <2>2, <2>3
<1>3. middle \in Seq(Blocks) /\ ToSet(middle) = UNION { ToSet(mirrors[i]) : i \in DOMAIN mirrors }
  <2> HIDE DEF mirrors
  <2> QED BY <1>2, FlattenHolds
<1>4. \A b \in ToSet(middle) :
        /\ b \in Openers
        /\ \/ b.kind = "session" /\ b.sid \in Sids
           \/ b.kind = "participant" /\ b \in Participants
  <2>1. ASSUME NEW b \in ToSet(middle)
        PROVE  \E i \in DOMAIN inputs : b \in ToSet(MirrorOf(inputs, i))
    BY <1>2, <1>3
  <2> HIDE DEF middle
  <2> QED BY <2>1, MirrorOpens
<1> HIDE DEF middle, source, decoder
<1>5. front \in Seq(Blocks) /\ ToSet(front) = {Header, source} /\ Len(front) = 2
  BY <1>1 DEF ToSet
<1>6. back \in Seq(Blocks) /\ ToSet(back) = {decoder} /\ Len(back) = 1 /\ back[1] = decoder
  BY <1>1 DEF ToSet
<1> HIDE DEF front, back
<1>7. front \o middle \in Seq(Blocks) /\ ToSet(front \o middle) = ToSet(front) \cup ToSet(middle)
  BY <1>3, <1>5, ToSetConcat
<1>8. PICK opening \in Seq(Blocks) : opening = front \o middle
  BY <1>7
<1>9. /\ opening \o back \in Seq(Blocks) /\ ToSet(opening \o back) = ToSet(opening) \cup ToSet(back)
      /\ Len(opening \o back) = Len(opening) + 1 /\ Len(opening) \in Nat
      /\ (opening \o back)[Len(opening) + 1] = decoder
  <2>1. PICK list \in Seq(Blocks) : list = back
    BY <1>6
  <2>2. opening \o list \in Seq(Blocks) /\ ToSet(opening \o list) = ToSet(opening) \cup ToSet(list)
    BY ToSetConcat
  <2>3. /\ Len(opening) \in Nat /\ Len(list) = 1 /\ list[1] = decoder
        /\ Len(opening \o list) = Len(opening) + Len(list)
    BY <1>6, <2>1
  <2>4. (opening \o list)[Len(opening) + 1] = list[1]
    BY <2>3
  <2> QED BY <2>1, <2>2, <2>3, <2>4
<1>10. Scaffold(inputs) = opening \o back
  BY <1>8 DEF Scaffold, front, middle, back, source, decoder
<1>11. /\ \A b \in ToSet(Scaffold(inputs)) : b \in {Header, source, decoder} \/ b \in ToSet(middle)
       /\ source \in ToSet(Scaffold(inputs))
  BY <1>5, <1>6, <1>7, <1>8, <1>9, <1>10
<1>12. Scaffold(inputs)[Len(Scaffold(inputs))].kind = "decoder"
  BY <1>1, <1>9, <1>10
<1>13. Scaffold(inputs) \in Seq(Blocks) /\ Scaffold(inputs) # << >>
  BY <1>9, <1>10
<1>14. \A b \in ToSet(Scaffold(inputs)) :
          /\ b.kind \in {"header", "source", "decoder", "session", "participant"}
          /\ b.kind = "participant" => b \in Participants
          /\ b.kind = "session" => b.sid \in Sids
  BY <1>1, <1>4, <1>11
<1>15. \E i \in DOMAIN Scaffold(inputs) : Scaffold(inputs)[i].kind = "source"
  BY <1>1, <1>11 DEF ToSet
<1>16. Scaffold(inputs) \in Seq(Openers)
  <2>1. \A i \in DOMAIN Scaffold(inputs) : Scaffold(inputs)[i] \in ToSet(Scaffold(inputs))
    BY DEF ToSet
  <2>2. \A i \in DOMAIN Scaffold(inputs) : Scaffold(inputs)[i] \in Openers
    BY <1>1, <1>4, <1>11, <2>1
  <2> QED BY <1>13, <2>2
<1> QED BY <1>12, <1>13, <1>14, <1>15, <1>16

LEMMA DecodeOpens ==
    ASSUME NEW inputs \in InputFiles, NEW sequenced \in BOOLEAN, NEW fill \in BOOLEAN,
           DecodeInit(inputs, sequenced, fill)
    PROVE  SoundDecode
<1> DEFINE modes == [s \in Sids |-> [verify |-> sequenced, linearize |-> sequenced]]
<1>1. /\ InitAfter(Scaffold(inputs), modes) /\ stage = Opened(inputs, fill)
      /\ seams = [emitted |-> {}, record |-> None] /\ unended = << >>
  BY DEF DecodeInit
<1>2. Opens(Scaffold(inputs), modes)
  <2>1. \A s \in Begun(Scaffold(inputs)) : modes[s] \in Modes
    BY DEF Begun, Modes
  <2> HIDE DEF modes
  <2> QED BY <2>1, DecodeScaffold DEF Opens
<1> HIDE DEF modes
<1>3. WriterInv
  BY <1>1, <1>2, OpeningInv
<1>4. file = Scaffold(inputs) /\ call = Idle /\ accepted = [s \in Sids |-> << >>]
  BY <1>1 DEF InitAfter
<1>5. ~ Complete /\ \A b \in ToSet(file) : b.kind # "undecoded"
  BY <1>4, DecodeScaffold DEF Complete
<1>6. StageInv
  BY <1>1, <1>3, <1>4, <1>5, OpenedStage
<1>7. DecodeKnown
  <2>1. << >> \in Seq(Sids)
    OBVIOUS
  <2> QED BY <1>1, <2>1 DEF DecodeKnown
<1> QED BY <1>3, <1>6, <1>7 DEF SoundDecode

-------------------------------------------------------------------------------
(* The decoder's calls *)

LEMMA StageFacts ==
    ASSUME SoundDecode
    PROVE  /\ WriterInv /\ StageInv /\ DecodeKnown /\ HistoryKnown
           /\ stage \in [inputs : InputFiles, fill : BOOLEAN,
                         cited : [Inputs -> Lists], marked : [Inputs -> Lists],
                         step : {"open", "fill", "end", "raise", "done"},
                         unfilled : Seq(ToSet(stage.inputs)), fills : Seq(Fills)]
           /\ stage.step = "fill" => call = Idle
           /\ call.op = "close" => stage.step = "end"
BY DEF SoundDecode, WriterInv, StageInv, StageKnown

\* record(), of a record alone or behind its break.
LEMMA WriteDecodedStep ==
    ASSUME SoundDecode, NEW b \in Producer.records, NEW seam, WriteDecoded(b, seam)
    PROVE  SoundDecode'
<1>1. /\ Record(b) \/ Buffer(b)
      /\ stage' = Counted(b) /\ seams' = Emitted(b) /\ UNCHANGED unended
  BY DEF WriteDecoded
<1>2. stage.step \in {"open", "done"}
  <2>1. CASE MayDecode
    BY <2>1 DEF MayDecode, MayStage
  <2>2. CASE seams.record = b
    BY <2>2, StageFacts, WriterAssumption DEF DecodeKnown
  <2> QED BY <2>1, <2>2 DEF WriteDecoded
<1>3. WriterInv'
  BY <1>1, StageFacts, RecordStep, BufferStep
<1>4. StageInv'
  BY <1>1, <1>2, StageFacts, StageCounts
<1>5. DecodeKnown'
  <2>1. b.pid \in Pids
    BY WriterAssumption DEF SessionRecord
  <2> QED BY <1>1, <2>1, StageFacts DEF DecodeKnown, Emitted
<1> QED BY <1>3, <1>4, <1>5 DEF SoundDecode

\* The break of a seam, and one of the caller's own.
LEMMA BreakStep ==
    ASSUME SoundDecode, NEW b \in Blocks, b.kind = "discontinuity", Discontinuity(b),
           UNCHANGED <<stage, unended>>,
           UNCHANGED seams \/ /\ stage.step \in {"open", "done"}
                              /\ \E r \in Producer.records : seams' = [seams EXCEPT !.record = r]
    PROVE  SoundDecode'
<1>1. WriterInv' /\ StageInv'
  BY StageFacts, DiscontinuityStep, StageDiscontinuity
<1>2. DecodeKnown'
  BY StageFacts DEF DecodeKnown
<1> QED BY <1>1, <1>2 DEF SoundDecode

LEMMA BreakFirstStep ==
    ASSUME SoundDecode, NEW r \in Producer.records, BreakFirst(r)
    PROVE  SoundDecode'
<1>1. /\ Discontinuity(BreakIn(r)) /\ stage.step \in {"open", "done"} /\ UNCHANGED <<stage, unended>>
      /\ UNCHANGED seams \/ seams' = [seams EXCEPT !.record = r]
  BY DEF BreakFirst, MayDecode, MayStage
<1>2. PICK b \in Blocks : b = BreakIn(r) /\ b.kind = "discontinuity"
  <2>1. r.sid \in Sids /\ r.pid \in Pids
    BY WriterAssumption DEF SessionRecord
  <2>2. BreakIn(r) \in Blocks
    BY <2>1 DEF BreakIn, Blocks, Scaffolds
  <2>3. BreakIn(r).kind = "discontinuity"
    BY DEF BreakIn
  <2> QED BY <2>2, <2>3
<1> QED BY <1>1, <1>2, BreakStep

LEMMA BreakOutputStep ==
    ASSUME SoundDecode, NEW b \in Producer.breaks, BreakOutput(b)
    PROVE  SoundDecode'
<1>1. b \in Blocks /\ b.kind = "discontinuity"
  BY WriterAssumption DEF Blocks
<1>2. Discontinuity(b) /\ UNCHANGED <<stage, seams, unended>>
  BY DEF BreakOutput
<1> QED BY <1>1, <1>2, BreakStep

LEMMA UndecodedStep ==
    ASSUME SoundDecode, NEW b \in Producer.declarations, Undecoded(b)
    PROVE  SoundDecode'
<1>1. MarkUndecoded(b) /\ seams.record = None /\ UNCHANGED <<seams, unended>>
  BY DEF Undecoded
<1>2. Declare(b)
  BY <1>1 DEF MarkUndecoded
<1>3. WriterInv' /\ StageInv'
  BY <1>1, <1>2, StageFacts, DeclareStep, StageMarks
<1>4. DecodeKnown'
  BY <1>1, StageFacts DEF DecodeKnown
<1> QED BY <1>3, <1>4 DEF SoundDecode

-------------------------------------------------------------------------------
(* close() *)

\* No record waits behind a break when close() is under way.
LEMMA NoneWaits ==
    ASSUME SoundDecode, stage.step \notin {"open", "done"}
    PROVE  seams.record = None
BY StageFacts DEF DecodeKnown

\* A step that leaves seams and unended alone, and no record waiting where it may not.
LEMMA RestStays ==
    ASSUME SoundDecode, UNCHANGED <<seams, unended>>,
           stage'.step = stage.step \/ stage'.step = "done" \/ stage.step \notin {"open", "done"}
    PROVE  DecodeKnown'
BY StageFacts, NoneWaits DEF DecodeKnown

\* The writer does nothing.
LEMMA WriterRests ==
    ASSUME WriterInv, UNCHANGED vars
    PROVE  WriterInv'
<1>1. UNCHANGED <<file, closed, sessions, linearizing, call, mergeVars, history>>
  BY DEF vars
<1>2. SessionsAlike /\ sessions' \in [Sids -> WriterType \cup {None}]
  BY <1>1 DEF SessionsAlike, WriterInv, WritersKnown
<1> QED BY <1>1, <1>2, QuietStep

LEMMA CloseDecodingStep ==
    ASSUME SoundDecode, CloseDecoding
    PROVE  SoundDecode'
<1>1. CloseStage /\ seams.record = None /\ unended' = OutputSessions /\ UNCHANGED seams
  BY DEF CloseDecoding
<1>2. UNCHANGED vars
  BY <1>1 DEF CloseStage
<1>3. WriterInv' /\ StageInv'
  BY <1>1, <1>2, StageFacts, WriterRests, StageTurns
<1>4. OutputSessions \in Seq(Sids)
  <2> DEFINE begun == Kept(file, { b \in ToSet(file) : b.kind = "session" })
  <2>1. file \in Seq(Blocks)
    BY StageFacts DEF HistoryKnown
  <2>2. /\ begun \in Seq(Blocks)
        /\ ToSet(begun) = ToSet(file) \cap { b \in ToSet(file) : b.kind = "session" }
    BY <2>1, KeptType, KeptMembers
  <2> HIDE DEF begun
  <2>3. \A b \in Blocks : b.kind = "session" => b.sid \in Sids
    BY WriterAssumption, StageAssumption DEF Blocks, Scaffolds, Fills, SessionRecord, Stateless, Markable
  <2>4. ASSUME NEW i \in DOMAIN begun PROVE begun[i].sid \in Sids
    <3>1. begun[i] \in ToSet(begun) /\ begun[i] \in Blocks
      BY <2>2 DEF ToSet
    <3> QED BY <2>2, <2>3, <3>1
  <2>5. DOMAIN begun = 1 .. Len(begun) /\ Len(begun) \in Nat
    BY <2>2
  <2>6. [i \in DOMAIN begun |-> begun[i].sid] \in Seq(Sids)
    BY <2>4, <2>5
  <2> QED BY <2>6 DEF OutputSessions, begun
<1>5. DecodeKnown'
  BY <1>1, <1>4, StageFacts DEF DecodeKnown
<1> QED BY <1>3, <1>5 DEF SoundDecode

LEMMA AbandonDecodingStep ==
    ASSUME SoundDecode, AbandonDecoding
    PROVE  SoundDecode'
<1>1. /\ Abandon /\ stage' = [stage EXCEPT !.step = "done"] /\ UNCHANGED <<seams, unended>>
  BY DEF AbandonDecoding, AbandonStage
<1>2. WriterInv' /\ StageInv'
  BY <1>1, StageFacts, AbandonStep, StageAbandons
<1>3. DecodeKnown'
  BY <1>1, StageFacts, RestStays
<1> QED BY <1>2, <1>3 DEF SoundDecode

\* The extents of a session are those of the streams of its counterpart.
LEMMA ExtentsType ==
    ASSUME stage.inputs \in InputFiles, NEW s
    PROVE  ExtentsOf(s) \in Seq(ExtentType)
<1> DEFINE T == ToSet(stage.inputs)
           mine == Kept(stage.inputs, { x \in T : x.sid = s })
<1>1. /\ stage.inputs \in Seq(T)
      /\ \A x \in T : InputStream(x) /\ InputOf(x.sid, x.pid) \in Inputs
  BY InputsFit
<1>2. mine \in Seq(T)
  BY <1>1, KeptType
<1> HIDE DEF mine
<1>3. DOMAIN mine = 1 .. Len(mine) /\ Len(mine) \in Nat /\ \A i \in DOMAIN mine : mine[i] \in T
  BY <1>2
<1>4. \A x \in T : ExtentOf(x) \in ExtentType
  BY <1>1, StageAssumption DEF ExtentOf, ExtentType, InputStream
<1> HIDE DEF T
<1>5. [i \in DOMAIN mine |-> ExtentOf(mine[i])] \in Seq(ExtentType)
  BY <1>3, <1>4
<1> QED BY <1>5 DEF ExtentsOf, mine, T

LEMMA DeclareExtentsStep ==
    ASSUME SoundDecode, DeclareExtents
    PROVE  SoundDecode'
<1>1. /\ stage.step = "end" /\ unended # << >> /\ unended' = Tail(unended)
      /\ End(Head(unended), ExtentsOf(Head(unended))) /\ UNCHANGED <<stage, seams>>
  BY DEF DeclareExtents, Ending
<1>2. PICK s \in Sids : s = Head(unended)
  <2>1. unended \in Seq(Sids)
    BY StageFacts DEF DecodeKnown
  <2> QED BY <1>1, <2>1
<1>3. PICK extents \in Seq(ExtentType) : extents = ExtentsOf(s)
  BY StageFacts, ExtentsType
<1>4. End(s, extents)
  BY <1>1, <1>2, <1>3
<1>5. WriterInv' /\ StageInv'
  BY <1>1, <1>4, StageFacts, EndStep, StageEnds
<1>6. DecodeKnown'
  BY <1>1, StageFacts DEF DecodeKnown
<1> QED BY <1>5, <1>6 DEF SoundDecode

LEMMA SessionEndsStep ==
    ASSUME SoundDecode, SessionEnds, UNCHANGED <<seams, unended>>
    PROVE  SoundDecode'
<1>1. PICK step \in {stage.step, "done"} : stage' = [stage EXCEPT !.step = step]
  <2>1. stage = [stage EXCEPT !.step = stage.step]
    BY StageFacts
  <2> QED BY <2>1 DEF SessionEnds
<1>2. EndSession
  BY DEF SessionEnds
<1>3. WriterInv' /\ StageInv'
  BY <1>1, <1>2, StageFacts, EndSessionStep, StageEndsSession
<1>4. DecodeKnown'
  BY <1>1, StageFacts, RestStays
<1> QED BY <1>3, <1>4 DEF SoundDecode

LEMMA FlushRaisesStep ==
    ASSUME SoundDecode, FlushRaises, UNCHANGED <<seams, unended>>
    PROVE  SoundDecode'
<1>1. Unwind /\ stage' = [stage EXCEPT !.step = "done"]
  BY DEF FlushRaises
<1>2. WriterInv' /\ StageInv'
  BY <1>1, StageFacts, UnwindStep, StageUnwinds
<1>3. DecodeKnown'
  BY <1>1, StageFacts, RestStays
<1> QED BY <1>2, <1>3 DEF SoundDecode

LEMMA AutofillStep ==
    ASSUME SoundDecode, Autofill, UNCHANGED <<seams, unended>>
    PROVE  SoundDecode'
<1>1. stage.step = "fill"
  BY DEF Autofill, FillStream, FillClashes, WriteFill, FillDone, Filling
<1>2. DecodeKnown'
  BY <1>1, RestStays
<1>3. CASE FillStream
  <2>1. UNCHANGED vars
    BY <1>3 DEF FillStream
  <2> QED BY <1>2, <1>3, <2>1, StageFacts, WriterRests, StageFills DEF SoundDecode
<1>4. CASE FillClashes
  <2>1. Abandon /\ stage' = [stage EXCEPT !.step = "done"]
    BY <1>4 DEF FillClashes
  <2> QED BY <1>2, <2>1, StageFacts, AbandonStep, StageAbandons DEF SoundDecode
<1>5. CASE WriteFill
  BY <1>2, <1>5, StageFacts, StageFillWritten DEF SoundDecode
<1>6. CASE FillDone
  <2>1. UNCHANGED vars
    BY <1>6 DEF FillDone
  <2> QED BY <1>2, <1>6, <2>1, StageFacts, WriterRests, StageFilled DEF SoundDecode
<1> QED BY <1>3, <1>4, <1>5, <1>6 DEF Autofill

LEMMA DecodeFlushes ==
    ASSUME SoundDecode, Flushes, UNCHANGED <<seams, unended>>
    PROVE  SoundDecode'
<1>1. WriterInv'
  BY StageFacts, SkipFlushStep, StartFlushStep, MergeRunsStep, MergeYieldsStep, FlushDoneStep DEF Flushes
<1>2. StageInv'
  BY StageFacts, StageFlushes
<1>3. DecodeKnown'
  BY RestStays DEF Flushes
<1> QED BY <1>1, <1>2, <1>3 DEF SoundDecode

LEMMA CloseOutputStep ==
    ASSUME SoundDecode, CloseOutput, UNCHANGED <<seams, unended>>
    PROVE  SoundDecode'
<1>1. Close /\ UNCHANGED stage /\ stage.step = "end"
  BY DEF CloseOutput, Ending
<1>2. WriterInv' /\ StageInv'
  BY <1>1, StageFacts, CloseStep, StageCloses
<1>3. DecodeKnown'
  BY <1>1, RestStays
<1> QED BY <1>2, <1>3 DEF SoundDecode

LEMMA OutputClosedStep ==
    ASSUME SoundDecode, OutputClosed, UNCHANGED <<seams, unended>>
    PROVE  SoundDecode'
<1>1. EndFile /\ stage' = [stage EXCEPT !.step = "done"]
  BY DEF OutputClosed
<1>2. WriterInv' /\ StageInv'
  BY <1>1, StageFacts, EndFileStep, StageOutputClosed
<1>3. DecodeKnown'
  BY <1>1, StageFacts, RestStays
<1> QED BY <1>2, <1>3 DEF SoundDecode

\* Every step of a decoder keeps the invariant.
LEMMA DecodeNextStep == SoundDecode /\ [DecodeNext]_stageVars => SoundDecode'
<1> SUFFICES ASSUME SoundDecode, [DecodeNext]_stageVars PROVE SoundDecode'
  OBVIOUS
<1>1. CASE Decodes(Producer)
  BY <1>1, WriteDecodedStep, BreakFirstStep, UndecodedStep, BreakOutputStep DEF Decodes
<1>2. CASE CloseDecoding
  BY <1>2, CloseDecodingStep
<1>3. CASE AbandonDecoding
  BY <1>3, AbandonDecodingStep
<1>4. CASE seams.record # None /\ WriteDecoded(seams.record, TRUE)
  <2>1. PICK b \in Producer.records : b = seams.record
    BY <1>4, StageFacts DEF DecodeKnown
  <2> QED BY <1>4, <2>1, WriteDecodedStep
<1>5. CASE DeclareExtents
  BY <1>5, DeclareExtentsStep
<1>6. ASSUME Autofill \/ SessionEnds \/ FlushRaises \/ Flushes \/ CloseOutput \/ OutputClosed,
             UNCHANGED <<seams, unended>>
      PROVE  SoundDecode'
  BY <1>6, AutofillStep, SessionEndsStep, FlushRaisesStep, DecodeFlushes, CloseOutputStep, OutputClosedStep
<1>7. CASE UNCHANGED stageVars
  <2>1. /\ UNCHANGED vars /\ UNCHANGED <<stage, seams, unended>>
        /\ UNCHANGED <<file, accepted, lost, call>>
    BY <1>7 DEF stageVars, vars, history
  <2>2. WriterInv'
    BY <2>1, StageFacts, WriterRests
  <2>3. StageInv'
    <3>1. (stage.step = "fill" => call' = Idle) /\ (call'.op = "close" => stage.step = "end")
      BY <2>1, StageFacts
    <3> QED BY <2>1, <3>1, StageFacts, MarksStay, StageAlone
  <2>4. DecodeKnown'
    BY <2>1, RestStays
  <2> QED BY <2>2, <2>3, <2>4 DEF SoundDecode
<1> QED BY <1>1, <1>2, <1>3, <1>4, <1>5, <1>6, <1>7 DEF DecodeNext, DecodeInside

-------------------------------------------------------------------------------
(* The reader of the output *)

\* The extents of a session are those of input streams.
LEMMA ExtentsDeclare ==
    ASSUME stage.inputs \in InputFiles, NEW s
    PROVE  DeclareInputs(ExtentsOf(s))
<1> DEFINE T == ToSet(stage.inputs)
           mine == Kept(stage.inputs, { x \in T : x.sid = s })
<1>1. mine \in Seq(T)
  BY InputsFit, KeptType
<1>2. \A i \in DOMAIN mine : mine[i] \in T
  BY <1>1
<1>3. ExtentsOf(s) = [i \in DOMAIN mine |-> ExtentOf(mine[i])]
  BY DEF ExtentsOf
<1> HIDE DEF mine
<1> QED BY <1>2, <1>3 DEF DeclareInputs

\* Every step of a decoder keeps what the reader has read in step with the ledger.
LEMMA DecodeReads == SoundDecode /\ ReadKnown /\ [DecodeNext]_stageVars => ReadKnown'
<1> SUFFICES ASSUME SoundDecode, ReadKnown, [DecodeNext]_stageVars PROVE ReadKnown'
  OBVIOUS
<1>0. WriterInv /\ StageTyped
  BY StageIsTyped DEF SoundDecode
<1>1. ASSUME NEW b \in Producer.records, NEW seam, WriteDecoded(b, seam)
      PROVE  ReadKnown'
  BY <1>0, <1>1, ReadCounts DEF WriteDecoded
<1>2. ASSUME NEW r \in Producer.records, BreakFirst(r)
      PROVE  ReadKnown'
  <2>1. PICK b \in Blocks : b = BreakIn(r) /\ b.kind = "discontinuity"
    <3>1. r.sid \in Sids /\ r.pid \in Pids
      BY WriterAssumption DEF SessionRecord
    <3>2. BreakIn(r) \in Blocks
      BY <3>1 DEF BreakIn, Blocks, Scaffolds
    <3>3. BreakIn(r).kind = "discontinuity"
      BY DEF BreakIn
    <3> QED BY <3>2, <3>3
  <2>2. Discontinuity(b) /\ UNCHANGED stage
    BY <1>2, <2>1 DEF BreakFirst
  <2> QED BY <1>0, <2>1, <2>2, ReadCalls
<1>3. ASSUME NEW b \in Producer.declarations, Undecoded(b)
      PROVE  ReadKnown'
  BY <1>0, <1>3, ReadMarks DEF Undecoded
<1>4. ASSUME NEW b \in Producer.breaks, BreakOutput(b)
      PROVE  ReadKnown'
  <2>1. b \in Blocks /\ b.kind = "discontinuity"
    BY WriterAssumption DEF Blocks
  <2>2. Discontinuity(b) /\ UNCHANGED stage
    BY <1>4 DEF BreakOutput
  <2> QED BY <1>0, <2>1, <2>2, ReadCalls
<1>5. CASE Decodes(Producer)
  BY <1>1, <1>2, <1>3, <1>4, <1>5 DEF Decodes
<1>6. CASE CloseDecoding \/ AbandonDecoding \/ UNCHANGED stageVars
  BY <1>0, <1>6, ReadCloses DEF CloseDecoding, AbandonDecoding, AbandonStage, stageVars
<1>7. CASE seams.record # None /\ WriteDecoded(seams.record, TRUE)
  <2>1. PICK b \in Producer.records : b = seams.record
    BY <1>7, StageFacts DEF DecodeKnown
  <2> QED BY <1>1, <1>7, <2>1
<1>8. CASE DeclareExtents
  <2>1. PICK s : End(s, ExtentsOf(s)) /\ UNCHANGED stage
    BY <1>8 DEF DeclareExtents
  <2>2. DeclareInputs(ExtentsOf(s))
    BY <1>0, ExtentsDeclare DEF StageTyped
  <2> QED BY <1>0, <2>1, <2>2, ReadEnds
<1>9. CASE SessionEnds
  <2>1. PICK step : stage' = [stage EXCEPT !.step = step]
    <3>1. stage = [stage EXCEPT !.step = stage.step]
      BY <1>0 DEF StageTyped
    <3> QED BY <1>9, <3>1 DEF SessionEnds
  <2> QED BY <1>0, <1>9, <2>1, ReadEndsSession DEF SessionEnds
<1>10. CASE Autofill \/ FlushRaises \/ CloseOutput
  BY <1>0, <1>10, ReadCloses DEF FlushRaises, CloseOutput
<1>11. CASE Flushes \/ OutputClosed
  BY <1>0, <1>11, ReadFlushes, ReadEndsFile DEF OutputClosed
<1> QED BY <1>5, <1>6, <1>7, <1>8, <1>9, <1>10, <1>11 DEF DecodeNext, DecodeInside

LEMMA DecodeOpensReading ==
    ASSUME NEW inputs \in InputFiles, NEW sequenced \in BOOLEAN, NEW fill \in BOOLEAN,
           DecodeInit(inputs, sequenced, fill)
    PROVE  ReadKnown
<1>1. PICK modes : InitAfter(Scaffold(inputs), modes)
  BY DEF DecodeInit
<1>2. stage = Opened(inputs, fill)
  BY DEF DecodeInit
<1>3. PICK opening \in Seq(Openers) :
        opening = Scaffold(inputs) /\ \E i \in DOMAIN opening : opening[i].kind = "source"
  BY DecodeScaffold
<1> QED BY <1>1, <1>2, <1>3, OpenedReads

-------------------------------------------------------------------------------
(* Seams and breaks *)

\* The records of a stream among the first n blocks of a list.
RecordsIn(list, n, s, p) ==
    { j \in 1 .. n : list[j].kind = "record" /\ list[j].sid = s /\ list[j].pid = p }

Emitting(s) == sessions[s] # None /\ ~ sessions[s].linearize

\* A stream that has not emitted was asked for no seam; one that writes its records at
\* once was asked for one answer by record, in file order; one that buffers took a seam
\* for its first record only.
AskedKnown ==
    /\ asked \in [Sids \X Pids -> Seq(BOOLEAN)]
    /\ \A s \in Sids, p \in Pids :
          /\ p \notin seams.emitted => asked[<<s, p>>] = << >>
          /\ Emitting(s) => Len(asked[<<s, p>>]) = Cardinality(RecordsIn(file, Len(file), s, p))
          /\ sessions[s] # None /\ sessions[s].linearize =>
                \A n \in 2 .. Len(asked[<<s, p>>]) : ~ asked[<<s, p>>][n]

\* A break waits at the end of the file for its record, and nothing else goes on.
BreakKnown ==
    seams.record # None =>
        call = Idle /\ Emitting(seams.record.sid) /\ file[Len(file)] = BreakIn(seams.record)

\* What merges is a session that buffers.
MergesKnown == call.step = "merge" => sessions[Head(call.left)].linearize

\* A record behind a seam stands behind its break.
BehindBreak(i) ==
    LET seam == asked[<<file[i].sid, file[i].pid>>]
        n    == Cardinality(RecordsIn(file, i, file[i].sid, file[i].pid))
    IN  /\ n \in DOMAIN seam
        /\ n > 1 /\ seam[n] => file[i - 1] = BreakIn(file[i])

SeamsKnown ==
    \A i \in DOMAIN file : file[i].kind = "record" /\ Emitting(file[i].sid) => BehindBreak(i)

SeamInv == AskedKnown /\ BreakKnown /\ MergesKnown /\ SeamsKnown

\* One block more, of a stream or not.
LEMMA RecordsInMore ==
    ASSUME NEW list \in Seq(Blocks), NEW b \in Blocks, NEW s, NEW p
    PROVE  /\ \A n \in 0 .. Len(list) :
                 /\ RecordsIn(Append(list, b), n, s, p) = RecordsIn(list, n, s, p)
                 /\ Cardinality(RecordsIn(list, n, s, p)) \in Nat
           /\ Cardinality(RecordsIn(Append(list, b), Len(list) + 1, s, p)) =
                 Cardinality(RecordsIn(list, Len(list), s, p))
                 + (IF b.kind = "record" /\ b.sid = s /\ b.pid = p THEN 1 ELSE 0)
<1> DEFINE more == Append(list, b)
           m == Len(list)
<1>1. m \in Nat /\ (\A i \in 1 .. m : more[i] = list[i]) /\ more[m + 1] = b
  OBVIOUS
<1> HIDE DEF more, m
<1>2. \A n \in 0 .. m : RecordsIn(more, n, s, p) = RecordsIn(list, n, s, p)
  BY <1>1 DEF RecordsIn
<1>3. \A n \in 0 .. m : IsFiniteSet(RecordsIn(list, n, s, p)) /\ Cardinality(RecordsIn(list, n, s, p)) \in Nat
  <2> TAKE n \in 0 .. m
  <2>1. IsFiniteSet(1 .. n)
    BY <1>1, FS_Interval
  <2>2. RecordsIn(list, n, s, p) \in SUBSET (1 .. n)
    BY DEF RecordsIn
  <2>3. IsFiniteSet(RecordsIn(list, n, s, p))
    BY <2>1, <2>2, FS_Subset
  <2> QED BY <2>3, FS_CardinalityType
<1> DEFINE old == RecordsIn(list, m, s, p)
           new == RecordsIn(more, m + 1, s, p)
<1>4. m + 1 \notin old /\ m \in 0 .. m
  BY <1>1 DEF RecordsIn
<1>5. new = IF b.kind = "record" /\ b.sid = s /\ b.pid = p THEN old \cup {m + 1} ELSE old
  <2>1. \A j : j \in 1 .. m + 1 <=> j \in 1 .. m \/ j = m + 1
    BY <1>1
  <2> QED BY <1>1, <2>1 DEF RecordsIn
<1> HIDE DEF old, new
<1>6. IsFiniteSet(old)
  BY <1>3, <1>4 DEF old
<1>7. Cardinality(old \cup {m + 1}) = Cardinality(old) + 1
  BY <1>4, <1>6, FS_AddElement
<1>8. Cardinality(old) \in Nat
  BY <1>3, <1>4 DEF old
<1>9. Cardinality(new) = Cardinality(old) + (IF b.kind = "record" /\ b.sid = s /\ b.pid = p THEN 1 ELSE 0)
  BY <1>5, <1>7, <1>8
<1> QED BY <1>2, <1>3, <1>9 DEF more, m, old, new

\* Where a stream has a second record, a block stands before it.
LEMMA SecondHasFirst ==
    ASSUME NEW list \in Seq(Blocks), NEW i \in DOMAIN list, NEW s, NEW p,
           Cardinality(RecordsIn(list, i, s, p)) > 1
    PROVE  i - 1 \in DOMAIN list
<1>1. DOMAIN list = 1 .. Len(list) /\ Len(list) \in Nat
  OBVIOUS
<1>2. CASE i = 1
  <2>1. PICK some : some = RecordsIn(list, i, s, p)
    OBVIOUS
  <2>2. some \subseteq {1}
    BY <1>2, <2>1 DEF RecordsIn
  <2>3. some = {} \/ some = {1}
    BY <2>2
  <2>4. Cardinality(some) = 0 \/ Cardinality(some) = 1
    BY <2>3, FS_EmptySet, FS_Singleton
  <2> QED BY <2>1, <2>4
<1>3. CASE i # 1
  BY <1>1, <1>3
<1> QED BY <1>2, <1>3

\* One block more, and one answer more for each stream: what stood behind its break
\* still does.
LEMMA BehindStays ==
    ASSUME file \in Seq(Blocks), NEW i, i \in DOMAIN file, BehindBreak(i),
           NEW b \in Blocks, file' = Append(file, b),
           NEW old, NEW new,
           old = asked[<<file[i].sid, file[i].pid>>], new = asked'[<<file[i].sid, file[i].pid>>],
           \A n \in DOMAIN old : n \in DOMAIN new /\ new[n] = old[n]
    PROVE  BehindBreak(i)'
<1>1. PICK list \in Seq(Blocks) : list = file
  OBVIOUS
<1>2. PICK more : more = Append(list, b) /\ more = file'
  BY <1>1
<1>3. i \in DOMAIN list /\ i \in 0 .. Len(list)
  <2>1. i \in DOMAIN list
    BY <1>1
  <2>2. DOMAIN list = 1 .. Len(list) /\ Len(list) \in Nat
    BY <1>1
  <2> QED BY <2>1, <2>2
<1>4. PICK x : x = list[i]
  OBVIOUS
<1>5. PICK many : many = RecordsIn(list, i, x.sid, x.pid)
  OBVIOUS
<1>6. RecordsIn(more, i, x.sid, x.pid) = many
  <2>1. PICK s, p : s = x.sid /\ p = x.pid
    OBVIOUS
  <2>2. \A n \in 0 .. Len(list) : RecordsIn(Append(list, b), n, s, p) = RecordsIn(list, n, s, p)
    BY ONLY list \in Seq(Blocks), b \in Blocks, RecordsInMore
  <2> QED BY <1>2, <1>3, <1>5, <2>1, <2>2
<1>7. PICK n : n = Cardinality(many)
  OBVIOUS
<1>8. n > 1 => i - 1 \in DOMAIN list
  BY <1>1, <1>3, <1>5, <1>7, SecondHasFirst
<1>9. more[i] = x /\ (n > 1 => more[i - 1] = list[i - 1])
  BY <1>1, <1>2, <1>3, <1>4, <1>8
<1>10. old = asked[<<x.sid, x.pid>>] /\ new = asked'[<<x.sid, x.pid>>]
  BY <1>1, <1>4
<1>11. /\ n \in DOMAIN old
       /\ n > 1 /\ old[n] => list[i - 1] = BreakIn(x)
  BY <1>1, <1>4, <1>5, <1>7, <1>10 DEF BehindBreak
<1>12. n \in DOMAIN new /\ new[n] = old[n]
  BY <1>11
<1>13. file'[i] = x /\ (n > 1 => file'[i - 1] = list[i - 1])
  BY <1>2, <1>9
<1>14. Cardinality(RecordsIn(file', i, file'[i].sid, file'[i].pid)) = n
  BY <1>2, <1>6, <1>7, <1>13
<1>15. asked'[<<file'[i].sid, file'[i].pid>>] = new
  BY <1>10, <1>13
<1> QED BY <1>11, <1>12, <1>13, <1>14, <1>15 DEF BehindBreak

\* The sessions of the output, and which of them buffer, stay.
ModesAlike ==
    \A s \in Sids :
        /\ sessions'[s] = None <=> sessions[s] = None
        /\ sessions[s] # None => sessions'[s].linearize = sessions[s].linearize

\* What the writer knows of its file and sessions.
LEMMA SeamFacts ==
    ASSUME WriterInv
    PROVE  /\ file \in Seq(Blocks) /\ file # << >> /\ sessions \in [Sids -> WriterType \cup {None}]
           /\ \A i \in DOMAIN file :
                 file[i].kind = "record" => file[i].sid \in Sids /\ file[i].pid \in Pids
<1>1. file \in Seq(Blocks) /\ file # << >>
  BY DEF WriterInv, HistoryKnown
<1>2. \A i \in DOMAIN file : file[i].kind = "record" => file[i] \in Producer.records
  BY FileHolds DEF WriterInv, ToSet
<1> QED BY <1>1, <1>2, SentType DEF WriterInv, WritersKnown

\* A step that takes no record of a session that writes at once.
LEMMA SeamsStay ==
    ASSUME WriterInv, SeamInv, UNCHANGED asked, ModesAlike,
           seams.emitted \subseteq seams'.emitted,
           \/ UNCHANGED file
           \/ \E b \in Blocks : file' = Append(file, b) /\ (b.kind = "record" => ~ Emitting(b.sid)),
           BreakKnown', MergesKnown'
    PROVE  SeamInv'
<1>1. /\ file \in Seq(Blocks) /\ sessions \in [Sids -> WriterType \cup {None}]
      /\ \A i \in DOMAIN file : file[i].kind = "record" => file[i].sid \in Sids /\ file[i].pid \in Pids
  BY SeamFacts
<1>2. \A s \in Sids : Emitting(s)' <=> Emitting(s)
  BY DEF ModesAlike, Emitting
<1>3. \A s \in Sids : sessions'[s] # None /\ sessions'[s].linearize <=> sessions[s] # None /\ sessions[s].linearize
  BY DEF ModesAlike
<1>4. AskedKnown /\ SeamsKnown
  BY DEF SeamInv
<1>5. CASE UNCHANGED file
  <2>1. AskedKnown'
    BY <1>2, <1>3, <1>4, <1>5 DEF AskedKnown
  <2>2. SeamsKnown'
    BY <1>1, <1>2, <1>4, <1>5 DEF SeamsKnown, BehindBreak
  <2> QED BY <2>1, <2>2 DEF SeamInv
<1>6. ASSUME NEW b \in Blocks, file' = Append(file, b), b.kind = "record" => ~ Emitting(b.sid)
      PROVE  SeamInv'
  <2>1. /\ DOMAIN file' = DOMAIN file \cup {Len(file) + 1} /\ Len(file') = Len(file) + 1
        /\ file'[Len(file) + 1] = b /\ Len(file) \in Nat /\ DOMAIN file = 1 .. Len(file)
        /\ \A i \in DOMAIN file : file'[i] = file[i]
    BY <1>1, <1>6
  <2> DEFINE New(s, p) == IF b.kind = "record" /\ b.sid = s /\ b.pid = p THEN 1 ELSE 0
  <2>0. \A s, p :
          /\ \A n \in 0 .. Len(file) :
                /\ RecordsIn(file', n, s, p) = RecordsIn(file, n, s, p)
                /\ Cardinality(RecordsIn(file, n, s, p)) \in Nat
          /\ Cardinality(RecordsIn(file', Len(file) + 1, s, p)) =
                Cardinality(RecordsIn(file, Len(file), s, p)) + New(s, p)
    <3>1. PICK list \in Seq(Blocks) : list = file
      BY <1>1
    <3>2. PICK more : more = Append(list, b) /\ more = file'
      BY <1>6, <3>1
    <3> TAKE s, p
    <3>3. /\ \A n \in 0 .. Len(list) :
                /\ RecordsIn(more, n, s, p) = RecordsIn(list, n, s, p)
                /\ Cardinality(RecordsIn(list, n, s, p)) \in Nat
          /\ Cardinality(RecordsIn(more, Len(list) + 1, s, p)) =
                Cardinality(RecordsIn(list, Len(list), s, p)) + New(s, p)
      BY <1>6, <3>1, <3>2, RecordsInMore
    <3> QED BY <3>1, <3>2, <3>3
  <2>2. \A s \in Sids, p \in Pids : Emitting(s) =>
          Cardinality(RecordsIn(file', Len(file'), s, p)) = Cardinality(RecordsIn(file, Len(file), s, p))
    <3> SUFFICES ASSUME NEW s \in Sids, NEW p \in Pids, Emitting(s)
                 PROVE  Cardinality(RecordsIn(file', Len(file'), s, p)) = Cardinality(RecordsIn(file, Len(file), s, p))
      OBVIOUS
    <3>1. New(s, p) = 0
      BY <1>6
    <3>2. Len(file) \in 0 .. Len(file)
      BY <2>1
    <3> HIDE DEF New
    <3>3. Cardinality(RecordsIn(file, Len(file), s, p)) \in Nat
      BY <2>0, <3>2
    <3>4. Cardinality(RecordsIn(file', Len(file) + 1, s, p)) =
            Cardinality(RecordsIn(file, Len(file), s, p)) + New(s, p)
      BY <2>0
    <3> QED BY <2>1, <3>1, <3>3, <3>4
  <2>4. AskedKnown'
    BY <1>2, <1>3, <1>4, <2>2 DEF AskedKnown
  <2>5. ASSUME NEW i \in DOMAIN file', file'[i].kind = "record", Emitting(file[i].sid)'
        PROVE  BehindBreak(i)'
    <3>1. CASE i = Len(file) + 1
      <4>1. b.kind = "record" /\ b.sid \in Sids
        BY <2>1, <2>5, <3>1, FileHolds, SentType, BlockKinds
      <4>2. Emitting(b.sid)
        BY <1>2, <2>1, <2>5, <3>1, <4>1 DEF Emitting
      <4> QED BY <1>6, <4>1, <4>2
    <3>2. CASE i \in DOMAIN file
      <4>1. file'[i] = file[i] /\ Emitting(file[i].sid)
        BY <1>1, <1>2, <2>1, <2>5, <3>2 DEF Emitting
      <4>2. BehindBreak(i)
        BY <1>4, <2>5, <3>2, <4>1 DEF SeamsKnown
      <4>3. PICK old : old = asked[<<file[i].sid, file[i].pid>>] /\ old = asked'[<<file[i].sid, file[i].pid>>]
        OBVIOUS
      <4> QED BY <1>1, <1>6, <3>2, <4>2, <4>3, BehindStays
    <3> QED BY <2>1, <3>1, <3>2
  <2>6. SeamsKnown'
    BY <2>5 DEF SeamsKnown
  <2> QED BY <2>4, <2>6 DEF SeamInv
<1> QED BY <1>5, <1>6

\* No record waits, and the step writes none of a session that writes at once.
LEMMA SeamQuiet ==
    ASSUME WriterInv, SeamInv, seams.record = None, UNCHANGED <<asked, seams>>, ModesAlike,
           \/ UNCHANGED file
           \/ \E b \in Blocks : file' = Append(file, b) /\ (b.kind = "record" => ~ Emitting(b.sid)),
           call'.step = "merge" =>
              /\ Head(call'.left) \in Sids /\ sessions[Head(call'.left)] # None
              /\ sessions[Head(call'.left)].linearize
    PROVE  SeamInv'
<1>1. BreakKnown'
  BY DEF BreakKnown
<1>2. MergesKnown'
  BY DEF MergesKnown, ModesAlike
<1> QED BY <1>1, <1>2, SeamsStay

\* The call goes on as it was, or is none.
LEMMA SameCall ==
    ASSUME WriterInv, SeamInv, call' = call \/ call' = Idle \/ call'.step # "merge"
    PROVE  call'.step = "merge" =>
              /\ Head(call'.left) \in Sids /\ sessions[Head(call'.left)] # None
              /\ sessions[Head(call'.left)].linearize
<1>1. CASE call' = call
  <2> SUFFICES ASSUME call.step = "merge"
               PROVE  /\ Head(call.left) \in Sids /\ sessions[Head(call.left)] # None
                      /\ sessions[Head(call.left)].linearize
    BY <1>1
  <2>1. call.left \in Seq(Sids) /\ call.left # << >>
    BY DEF WriterInv, CallKnown
  <2>2. Head(call.left) \in Sids /\ Head(call.left) = call.left[1] /\ 1 \in DOMAIN call.left
    BY <2>1
  <2>3. sessions[Head(call.left)] # None
    BY <2>2 DEF WriterInv, CallKnown
  <2> QED BY <2>2, <2>3 DEF SeamInv, MergesKnown
<1>2. CASE call' = Idle \/ call'.step # "merge"
  BY <1>2 DEF Idle
<1> QED BY <1>1, <1>2

\* A block of no record.
LEMMA SeamBlock ==
    ASSUME WriterInv, SeamInv, seams.record = None, UNCHANGED <<asked, seams, sessions>>,
           call' = call \/ call' = Idle \/ call'.step # "merge",
           UNCHANGED file \/ \E b \in Blocks : Emit(b) /\ b.kind # "record"
    PROVE  SeamInv'
<1>1. ModesAlike
  BY DEF ModesAlike
<1>2. UNCHANGED file \/ \E b \in Blocks : file' = Append(file, b) /\ (b.kind = "record" => ~ Emitting(b.sid))
  BY DEF Emit
<1> QED BY <1>1, <1>2, SameCall, SeamQuiet

\* record() of a session that writes at once: the break of its seam is the last block.
LEMMA SeamRecord ==
    ASSUME WriterInv, SeamInv, NEW b \in Producer.records, NEW seam \in BOOLEAN,
           WriteDecoded(b, seam), Record(b)
    PROVE  SeamInv'
<1> DEFINE s == b.sid
           p == b.pid
           key == <<s, p>>
<1>1. /\ s \in Sids /\ p \in Pids /\ b \in Blocks /\ b.kind = "record" /\ key \in Sids \X Pids
  BY SentType DEF Blocks
<1>2. /\ sessions[s] # None /\ ~ sessions[s].linearize /\ call = Idle /\ call' = call
      /\ EmitRecord(s, b)
      /\ seams' = Emitted(b)
      /\ asked' = IF Takes(b) THEN [asked EXCEPT ![key] = Append(@, seam)] ELSE asked
      /\ Takes(b) <=> RecordEmits(s, b)
      /\ (seam => p \notin seams.emitted) \/ (seams.record = b /\ seam)
  BY DEF WriteDecoded, Record, MayCall, HasHandle, Takes
<1>3. Emitting(s)
  BY <1>2 DEF Emitting
<1>4. /\ ModesAlike
      /\ RecordEmits(s, b) => file' = Append(file, b)
      /\ ~ RecordEmits(s, b) => UNCHANGED file
  BY <1>2, EmitRecordEffect DEF ModesAlike, SessionsAlike
<1>5. seams'.record = None /\ seams'.emitted = IF Takes(b) THEN seams.emitted \cup {p} ELSE seams.emitted
  BY <1>2 DEF Emitted
<1>6. BreakKnown' /\ MergesKnown'
  BY <1>2, <1>5 DEF BreakKnown, MergesKnown, Idle
<1>7. CASE ~ Takes(b)
  BY <1>2, <1>4, <1>5, <1>6, <1>7, SeamsStay
<1>8. CASE Takes(b)
  <2>1. file' = Append(file, b) /\ seams'.emitted = seams.emitted \cup {p}
    BY <1>2, <1>4, <1>5, <1>8
  <2>2. AskedKnown /\ SeamsKnown /\ BreakKnown
    BY DEF SeamInv
  <2>3. PICK old \in Seq(BOOLEAN) : old = asked[key]
    BY <1>1, <2>2 DEF AskedKnown
  <2>4. PICK new : new = Append(old, seam)
    OBVIOUS
  <2>5. PICK list \in Seq(Blocks) : list = file
    BY SeamFacts
  <2>6. PICK more : more = Append(list, b) /\ more = file'
    BY <2>1, <2>5
  <2> DEFINE New(r, q) == IF b.kind = "record" /\ b.sid = r /\ b.pid = q THEN 1 ELSE 0
             Many(r, q) == Cardinality(RecordsIn(list, Len(list), r, q))
  <2>7. \A r, q : /\ Many(r, q) \in Nat
                  /\ Cardinality(RecordsIn(more, Len(list) + 1, r, q)) = Many(r, q) + New(r, q)
    <3> TAKE r, q
    <3>1. /\ \A n \in 0 .. Len(list) :
                /\ RecordsIn(more, n, r, q) = RecordsIn(list, n, r, q)
                /\ Cardinality(RecordsIn(list, n, r, q)) \in Nat
          /\ Cardinality(RecordsIn(more, Len(list) + 1, r, q)) = Many(r, q) + New(r, q)
      <4>1. list \in Seq(Blocks) /\ b \in Blocks
        BY <1>1
      <4>2. /\ \A n \in 0 .. Len(list) :
                  /\ RecordsIn(Append(list, b), n, r, q) = RecordsIn(list, n, r, q)
                  /\ Cardinality(RecordsIn(list, n, r, q)) \in Nat
            /\ Cardinality(RecordsIn(Append(list, b), Len(list) + 1, r, q)) = Many(r, q) + New(r, q)
        BY ONLY <4>1, RecordsInMore
      <4> QED BY <2>6, <4>2
    <3>2. Len(list) \in 0 .. Len(list)
      BY <2>5
    <3> QED BY <3>1, <3>2
  <2>8. /\ Len(more) = Len(list) + 1 /\ Len(list) \in Nat /\ more[Len(list) + 1] = b
        /\ DOMAIN more = DOMAIN list \cup {Len(list) + 1} /\ DOMAIN list = 1 .. Len(list)
        /\ \A i \in DOMAIN list : more[i] = list[i]
    <3>1. list \in Seq(Blocks) /\ b \in Blocks /\ more = Append(list, b)
      BY <1>1, <2>6
    <3> QED BY ONLY <3>1
  <2>9. /\ new \in Seq(BOOLEAN) /\ Len(new) = Len(old) + 1 /\ Len(old) \in Nat
        /\ new[Len(old) + 1] = seam /\ Len(old) + 1 \in DOMAIN new
        /\ \A n \in DOMAIN old : n \in DOMAIN new /\ new[n] = old[n]
    <3>1. old \in Seq(BOOLEAN) /\ seam \in BOOLEAN /\ new = Append(old, seam)
      BY <2>4
    <3>2. Len(old) \in Nat /\ DOMAIN old = 1 .. Len(old)
      BY ONLY <3>1
    <3>3. new \in Seq(BOOLEAN) /\ Len(new) = Len(old) + 1 /\ new[Len(old) + 1] = seam
      BY ONLY <3>1
    <3>4. \A n \in DOMAIN old : new[n] = old[n]
      BY ONLY <3>1
    <3>5. DOMAIN new = 1 .. Len(old) + 1
      BY ONLY <3>1, <3>2
    <3> QED BY <3>2, <3>3, <3>4, <3>5
  <2>10. /\ asked' \in [Sids \X Pids -> Seq(BOOLEAN)] /\ asked'[key] = new
         /\ \A other \in Sids \X Pids : other # key => asked'[other] = asked[other]
    BY <1>1, <1>2, <1>8, <2>2, <2>3, <2>4, <2>9 DEF AskedKnown
  <2>11. Len(old) = Many(s, p)
    BY <1>1, <1>3, <2>2, <2>3, <2>5 DEF AskedKnown
  <2>12. /\ \A r \in Sids : Emitting(r)' <=> Emitting(r)
         /\ \A r \in Sids : sessions'[r] # None /\ sessions'[r].linearize => sessions[r] # None /\ sessions[r].linearize
    BY <1>4 DEF ModesAlike, Emitting
  <2>13. AskedKnown'
    <3> SUFFICES ASSUME NEW r \in Sids, NEW q \in Pids
                 PROVE  /\ q \notin seams'.emitted => asked'[<<r, q>>] = << >>
                        /\ Emitting(r)' => Len(asked'[<<r, q>>]) = Cardinality(RecordsIn(file', Len(file'), r, q))
                        /\ sessions'[r] # None /\ sessions'[r].linearize =>
                              \A n \in 2 .. Len(asked'[<<r, q>>]) : ~ asked'[<<r, q>>][n]
      BY <2>10 DEF AskedKnown
    <3>1. CASE <<r, q>> = key
      <4>1. r = s /\ q = p
        BY <3>1
      <4>2. New(r, q) = 1
        BY <1>1, <4>1
      <4>3. Len(new) = Cardinality(RecordsIn(more, Len(more), r, q))
        <5> HIDE DEF New
        <5>1. Cardinality(RecordsIn(more, Len(list) + 1, r, q)) = Many(r, q) + New(r, q)
          BY <2>7
        <5> QED BY <2>8, <2>9, <2>11, <4>1, <4>2, <5>1
      <4>4. ~ (sessions'[r] # None /\ sessions'[r].linearize)
        BY <1>1, <1>2, <2>12, <4>1
      <4>5. q \in seams'.emitted
        BY <2>1, <4>1
      <4> QED BY <2>6, <2>10, <3>1, <4>3, <4>4, <4>5
    <3>2. CASE <<r, q>> # key
      <4>1. New(r, q) = 0
        BY <3>2
      <4>2. asked'[<<r, q>>] = asked[<<r, q>>]
        BY <2>10, <3>2
      <4>3. Cardinality(RecordsIn(more, Len(more), r, q)) = Many(r, q)
        <5> HIDE DEF New
        <5>1. /\ Cardinality(RecordsIn(more, Len(list) + 1, r, q)) = Many(r, q) + New(r, q)
              /\ Many(r, q) \in Nat
          BY <2>7
        <5> QED BY <2>8, <4>1, <5>1
      <4>4. /\ q \notin seams.emitted => asked[<<r, q>>] = << >>
            /\ Emitting(r) => Len(asked[<<r, q>>]) = Many(r, q)
            /\ sessions[r] # None /\ sessions[r].linearize =>
                  \A n \in 2 .. Len(asked[<<r, q>>]) : ~ asked[<<r, q>>][n]
        BY <2>2, <2>5 DEF AskedKnown
      <4>5. q \notin seams'.emitted => q \notin seams.emitted
        BY <2>1
      <4> HIDE DEF Many
      <4> QED BY <2>6, <2>12, <4>2, <4>3, <4>4, <4>5
    <3> QED BY <3>1, <3>2
  <2>14. SeamsKnown'
    <3> SUFFICES ASSUME NEW i, i \in DOMAIN file', file'[i].kind = "record", Emitting(file[i].sid)'
                 PROVE  BehindBreak(i)'
      BY DEF SeamsKnown
    <3>1. CASE i = Len(list) + 1
      <4>1. file'[i] = b
        BY <2>6, <2>8, <3>1
      <4>2. New(s, p) = 1
        BY <1>1
      <4>3. Cardinality(RecordsIn(more, i, s, p)) = Len(old) + 1
        <5> HIDE DEF New, Many
        <5>1. Cardinality(RecordsIn(more, Len(list) + 1, s, p)) = Many(s, p) + New(s, p)
          BY <2>7 DEF Many
        <5> QED BY <2>11, <3>1, <4>2, <5>1
      <4>4. Len(old) + 1 > 1 /\ seam => file'[i - 1] = BreakIn(b)
        <5> SUFFICES ASSUME Len(old) + 1 > 1, seam
                     PROVE  file'[i - 1] = BreakIn(b)
          OBVIOUS
        <5>1. old # << >>
          BY <2>9
        <5>2. p \in seams.emitted
          BY <1>1, <2>2, <2>3, <5>1 DEF AskedKnown
        <5>3. seams.record = b /\ b # None
          BY <1>2, <5>2, SentType
        <5>4. file[Len(file)] = BreakIn(b)
          BY <2>2, <5>3 DEF BreakKnown
        <5>5. list # << >>
          BY <2>5, SeamFacts
        <5>6. i - 1 = Len(list) /\ Len(list) \in DOMAIN list
          BY <2>8, <3>1, <5>5
        <5>7. more[Len(list)] = list[Len(list)]
          BY <2>8, <5>6
        <5> QED BY <2>5, <2>6, <5>4, <5>6, <5>7
      <4> QED BY <2>6, <2>9, <2>10, <4>1, <4>3, <4>4 DEF BehindBreak
    <3>2. CASE i \in DOMAIN list
      <4>1. PICK x : x = list[i] /\ x = file[i] /\ x = file'[i]
        BY <2>5, <2>6, <2>8, <3>2
      <4>2. x.sid \in Sids /\ x.pid \in Pids
        BY <2>5, <2>14, <3>2, <4>1, SeamFacts
      <4>3. Emitting(x.sid)
        BY <2>12, <4>1, <4>2 DEF Emitting
      <4>4. BehindBreak(i)
        BY <2>2, <2>5, <3>2, <4>1, <4>3 DEF SeamsKnown
      <4>5. PICK before, after : before = asked[<<x.sid, x.pid>>] /\ after = asked'[<<x.sid, x.pid>>]
        OBVIOUS
      <4>6. \A n \in DOMAIN before : n \in DOMAIN after /\ after[n] = before[n]
        <5>1. CASE <<x.sid, x.pid>> = key
          BY <2>3, <2>9, <2>10, <4>5, <5>1
        <5>2. CASE <<x.sid, x.pid>> # key
          <6>1. <<x.sid, x.pid>> \in Sids \X Pids
            BY <4>2
          <6>2. after = before
            BY <2>10, <4>5, <5>2, <6>1
          <6> QED BY <6>2
        <5> QED BY <5>1, <5>2
      <4>7. /\ before = asked[<<file[i].sid, file[i].pid>>]
            /\ after = asked'[<<file[i].sid, file[i].pid>>]
            /\ file \in Seq(Blocks) /\ i \in DOMAIN file
        BY <2>5, <3>2, <4>1, <4>5
      <4>8. b \in Blocks /\ file' = Append(file, b)
        BY <1>1, <2>1
      <4> QED BY ONLY <4>4, <4>6, <4>7, <4>8, BehindStays
    <3> QED BY <2>6, <2>8, <3>1, <3>2
  <2> QED BY <1>6, <2>13, <2>14 DEF SeamInv
<1> QED BY <1>7, <1>8

\* record() of a session that buffers: a seam is passed for a first record only.
LEMMA SeamBuffered ==
    ASSUME WriterInv, SeamInv, NEW b \in Producer.records, NEW seam \in BOOLEAN,
           WriteDecoded(b, seam), Buffer(b)
    PROVE  SeamInv'
<1> DEFINE s == b.sid
           p == b.pid
           key == <<s, p>>
<1>1. /\ s \in Sids /\ p \in Pids /\ key \in Sids \X Pids
      /\ sessions[s] # None /\ sessions[s].linearize /\ call = Idle /\ call' = call /\ UNCHANGED file
      /\ b.pid \in Pair
      /\ sessions' = [sessions EXCEPT ![s].pending[p] = Append(@, b)]
      /\ seams' = Emitted(b) /\ Takes(b)
      /\ asked' = [asked EXCEPT ![key] = Append(@, seam)]
      /\ (seam => p \notin seams.emitted) \/ (seams.record = b /\ seam)
  BY SentType DEF WriteDecoded, Buffer, MayCall, HasHandle, Takes
<1>2. AskedKnown /\ SeamsKnown /\ BreakKnown
  BY DEF SeamInv
<1>3. seam => p \notin seams.emitted
  BY <1>1, <1>2, SentType DEF BreakKnown, Emitting
<1>4. ModesAlike
  <2>1. sessions \in [Sids -> WriterType \cup {None}] /\ sessions[s] \in WriterType
    BY <1>1, SeamFacts
  <2>2. PICK pending : pending = [sessions[s].pending EXCEPT ![p] = Append(@, b)]
    OBVIOUS
  <2>3. PICK writer : writer = [sessions[s] EXCEPT !.pending = pending]
    OBVIOUS
  <2>4. sessions' = [sessions EXCEPT ![s] = writer]
    BY <1>1, <2>2, <2>3
  <2>5. writer.linearize = sessions[s].linearize /\ writer # None
    <3>1. pending \in [Pair -> Seq(Producer.records)]
      <4>1. sessions[s].pending \in [Pair -> Seq(Producer.records)] /\ p \in Pair
        BY <1>1, <2>1 DEF WriterType
      <4>2. PICK queue \in Seq(Producer.records) : queue = sessions[s].pending[p]
        BY <4>1
      <4>3. Append(queue, b) \in Seq(Producer.records)
        OBVIOUS
      <4> QED BY <2>2, <4>1, <4>2, <4>3
    <3>2. writer \in WriterType /\ writer.linearize = sessions[s].linearize
      BY <2>1, <2>3, <3>1 DEF WriterType
    <3> QED BY <3>2, WriterAssumption
  <2> QED BY <1>1, <2>1, <2>4, <2>5 DEF ModesAlike
<1>5. seams'.record = None /\ seams'.emitted = seams.emitted \cup {p}
  BY <1>1 DEF Emitted
<1>6. BreakKnown' /\ MergesKnown'
  BY <1>1, <1>5 DEF BreakKnown, MergesKnown, Idle
<1>7. PICK old \in Seq(BOOLEAN) : old = asked[key]
  BY <1>1, <1>2 DEF AskedKnown
<1>8. PICK new : new = Append(old, seam)
  OBVIOUS
<1>9. /\ new \in Seq(BOOLEAN) /\ Len(new) = Len(old) + 1 /\ Len(old) \in Nat
      /\ new[Len(old) + 1] = seam
      /\ \A n \in 1 .. Len(old) : new[n] = old[n]
  <2>1. old \in Seq(BOOLEAN) /\ seam \in BOOLEAN /\ new = Append(old, seam)
    BY <1>8
  <2>2. Len(old) \in Nat /\ DOMAIN old = 1 .. Len(old)
    BY ONLY <2>1
  <2>3. new \in Seq(BOOLEAN) /\ Len(new) = Len(old) + 1 /\ new[Len(old) + 1] = seam
    BY ONLY <2>1
  <2>4. \A n \in DOMAIN old : new[n] = old[n]
    BY ONLY <2>1
  <2> QED BY <2>2, <2>3, <2>4
<1>10. /\ asked' \in [Sids \X Pids -> Seq(BOOLEAN)] /\ asked'[key] = new
       /\ \A other \in Sids \X Pids : other # key => asked'[other] = asked[other]
  BY <1>1, <1>2, <1>7, <1>8, <1>9 DEF AskedKnown
<1>11. /\ \A r \in Sids : Emitting(r)' <=> Emitting(r)
       /\ \A r \in Sids : sessions'[r] # None /\ sessions'[r].linearize => sessions[r] # None /\ sessions[r].linearize
  BY <1>4 DEF ModesAlike, Emitting
<1>12. \A n \in 2 .. Len(new) : ~ new[n]
  <2> SUFFICES ASSUME NEW n \in 2 .. Len(new)
               PROVE  ~ new[n]
    OBVIOUS
  <2>1. CASE n \in 1 .. Len(old)
    <3>1. n \in 2 .. Len(old)
      BY <2>1
    <3>2. ~ old[n]
      BY <1>1, <1>2, <1>7, <3>1 DEF AskedKnown
    <3> QED BY <1>9, <2>1, <3>2
  <2>2. CASE n = Len(old) + 1
    <3>1. old # << >>
      BY <1>9, <2>2
    <3>2. p \in seams.emitted
      BY <1>1, <1>2, <1>7, <3>1 DEF AskedKnown
    <3> QED BY <1>3, <1>9, <2>2, <3>2
  <2> QED BY <1>9, <2>1, <2>2
<1>13. AskedKnown'
  <2> SUFFICES ASSUME NEW r \in Sids, NEW q \in Pids
               PROVE  /\ q \notin seams'.emitted => asked'[<<r, q>>] = << >>
                      /\ Emitting(r)' => Len(asked'[<<r, q>>]) = Cardinality(RecordsIn(file', Len(file'), r, q))
                      /\ sessions'[r] # None /\ sessions'[r].linearize =>
                            \A n \in 2 .. Len(asked'[<<r, q>>]) : ~ asked'[<<r, q>>][n]
    BY <1>10 DEF AskedKnown
  <2>1. CASE <<r, q>> = key
    <3>1. r = s /\ q = p
      BY <2>1
    <3>2. ~ Emitting(r)' /\ q \in seams'.emitted
      BY <1>1, <1>5, <1>11, <3>1 DEF Emitting
    <3> QED BY <1>10, <1>12, <2>1, <3>2
  <2>2. CASE <<r, q>> # key
    <3>1. asked'[<<r, q>>] = asked[<<r, q>>]
      BY <1>10, <2>2
    <3>2. /\ q \notin seams.emitted => asked[<<r, q>>] = << >>
          /\ Emitting(r) => Len(asked[<<r, q>>]) = Cardinality(RecordsIn(file, Len(file), r, q))
          /\ sessions[r] # None /\ sessions[r].linearize =>
                \A n \in 2 .. Len(asked[<<r, q>>]) : ~ asked[<<r, q>>][n]
      BY <1>2 DEF AskedKnown
    <3>3. q \notin seams'.emitted => q \notin seams.emitted
      BY <1>5
    <3> QED BY <1>1, <1>11, <3>1, <3>2, <3>3
  <2> QED BY <2>1, <2>2
<1>14. SeamsKnown'
  <2> SUFFICES ASSUME NEW i, i \in DOMAIN file, file[i].kind = "record", Emitting(file[i].sid)'
               PROVE  BehindBreak(i)'
    BY <1>1 DEF SeamsKnown
  <2>1. PICK x : x = file[i]
    OBVIOUS
  <2>2. x.sid \in Sids /\ x.pid \in Pids
    BY <2>1, SeamFacts
  <2>3. Emitting(x.sid)
    BY <1>1, <1>11, <2>1, <2>2 DEF Emitting
  <2>4. BehindBreak(i)
    BY <1>2, <2>1, <2>3 DEF SeamsKnown
  <2>5. x.sid # s
    BY <1>1, <2>3 DEF Emitting
  <2>6. asked'[<<x.sid, x.pid>>] = asked[<<x.sid, x.pid>>]
    BY <1>10, <2>2, <2>5
  <2> QED BY <1>1, <2>1, <2>4, <2>6 DEF BehindBreak
<1> QED BY <1>6, <1>13, <1>14 DEF SeamInv

\* The break of a seam waits for its record, unless it was refused.
LEMMA SeamBreak ==
    ASSUME WriterInv, SeamInv, NEW r \in Producer.records, BreakFirst(r)
    PROVE  SeamInv'
<1>1. /\ seams.record = None /\ UNCHANGED <<asked, sessions, call>> /\ call = Idle
      /\ sessions[r.sid] # None /\ ~ sessions[r.sid].linearize
      /\ Emit(BreakIn(r))
      /\ seams' = IF Emits(BreakIn(r)) THEN [seams EXCEPT !.record = r] ELSE seams
  BY DEF BreakFirst, MayDecode, Discontinuity, MayCall, HasHandle, BreakIn
<1>2. PICK b \in Blocks : b = BreakIn(r) /\ b.kind = "discontinuity"
  <2>1. r.sid \in Sids /\ r.pid \in Pids
    BY SentType
  <2>2. BreakIn(r) \in Blocks
    BY <2>1 DEF BreakIn, Blocks, Scaffolds
  <2>3. BreakIn(r).kind = "discontinuity"
    BY DEF BreakIn
  <2> QED BY <2>2, <2>3
<1>3. CASE ~ Emits(BreakIn(r))
  BY <1>1, <1>2, <1>3, SeamBlock DEF Emit
<1>4. CASE Emits(BreakIn(r))
  <2>1. file' = Append(file, b)
    BY <1>1, <1>2, <1>4 DEF Emit
  <2>2. seams' = [seams EXCEPT !.record = r]
    BY <1>1, <1>4
  <2>3. seams.emitted \subseteq seams'.emitted /\ seams'.record \in {None, r}
    BY <1>1, <2>2
  <2>4. file'[Len(file')] = BreakIn(r)
    <3>1. file \in Seq(Blocks)
      BY SeamFacts
    <3> QED BY <1>2, <2>1, <3>1
  <2>5. BreakKnown'
    BY <1>1, <2>3, <2>4 DEF BreakKnown, Emitting
  <2>6. MergesKnown' /\ ModesAlike
    BY <1>1 DEF MergesKnown, Idle, ModesAlike
  <2> QED BY <1>1, <1>2, <2>1, <2>3, <2>5, <2>6, SeamsStay
<1> QED BY <1>3, <1>4

\* A merge yields records of a session that buffers.
LEMMA SeamYield ==
    ASSUME WriterInv, SeamInv, seams.record = None, UNCHANGED <<asked, seams>>,
           NEW p \in Pair, MergeYields(p)
    PROVE  SeamInv'
<1>1. PICK b \in Producer.records : b = frontier[p].head
  BY HeadYielded
<1>2. /\ call.step = "merge" /\ b.sid = Head(call.left) /\ EmitRecord(b.sid, b)
      /\ call' = call \/ call' = [call EXCEPT !.step = "raise"]
  BY <1>1, HeadYielded DEF MergeYields
<1>3. b.sid \in Sids /\ sessions[b.sid] # None /\ sessions[b.sid].linearize
  <2>1. call' = call => Head(call.left) \in Sids /\ sessions[Head(call.left)] # None
    BY <1>2, SameCall
  <2>2. call.left \in Seq(Sids) /\ call.left # << >>
    BY <1>2 DEF WriterInv, CallKnown
  <2>3. Head(call.left) = call.left[1] /\ 1 \in DOMAIN call.left
    BY <2>2
  <2>4. sessions[Head(call.left)] # None
    BY <2>3 DEF WriterInv, CallKnown
  <2> QED BY <1>2, <2>4, SentType DEF SeamInv, MergesKnown
<1>4. /\ SessionsAlike
      /\ RecordEmits(b.sid, b) => file' = Append(file, b)
      /\ ~ RecordEmits(b.sid, b) => UNCHANGED file
  BY <1>2, <1>3, EmitRecordEffect
<1>5. ModesAlike
  BY <1>4 DEF SessionsAlike, ModesAlike
<1>6. b \in Blocks /\ ~ Emitting(b.sid)
  BY <1>3 DEF Blocks, Emitting
<1>7. UNCHANGED file \/ \E x \in Blocks : file' = Append(file, x) /\ (x.kind = "record" => ~ Emitting(x.sid))
  BY <1>4, <1>6
<1>8. call' = call \/ call'.step # "merge"
  <2>1. CASE call' = [call EXCEPT !.step = "raise"]
    <3>1. "step" \in DOMAIN call
      BY DEF WriterInv, CallKnown
    <3> QED BY <2>1, <3>1
  <2> QED BY <1>2, <2>1
<1>9. call'.step = "merge" =>
         /\ Head(call'.left) \in Sids /\ sessions[Head(call'.left)] # None
         /\ sessions[Head(call'.left)].linearize
  BY <1>8, SameCall
<1> QED BY <1>5, <1>7, <1>9, SeamQuiet

\* What is flushed is what a session that buffers holds.
LEMMA SeamFlushes ==
    ASSUME WriterInv, SeamInv, seams.record = None, UNCHANGED <<asked, seams>>, Flushes
    PROVE  SeamInv'
<1>0. CallKnown /\ "step" \in DOMAIN call /\ "left" \in DOMAIN call
  BY DEF WriterInv, CallKnown
<1>1. CASE SkipFlush
  <2>1. call'.step = "flush" /\ UNCHANGED <<file, sessions>>
    BY <1>0, <1>1 DEF SkipFlush, Flushing
  <2> QED BY <2>1, SeamBlock
<1>2. CASE StartFlush
  <2> DEFINE s == Head(call.left)
  <2>1. /\ call.left # << >> /\ sessions[s].pending # NoStreams
        /\ sessions' = [sessions EXCEPT ![s].pending = NoStreams] /\ UNCHANGED file
        /\ call' = [call EXCEPT !.step = "merge"]
    BY <1>2 DEF StartFlush, Flushing, PendingOf
  <2>2. s = call.left[1] /\ 1 \in DOMAIN call.left /\ s \in Sids
    BY <1>0, <2>1 DEF CallKnown
  <2>3. sessions[s] # None /\ sessions[s] \in WriterType
    BY <1>0, <2>2, SeamFacts DEF CallKnown
  <2>4. sessions[s].linearize
    BY <2>1, <2>2, <2>3 DEF WriterInv, WritersKnown
  <2>5. ModesAlike
    <3>1. PICK writer : writer = [sessions[s] EXCEPT !.pending = NoStreams]
      OBVIOUS
    <3>2. sessions' = [sessions EXCEPT ![s] = writer]
      BY <2>1, <3>1
    <3>3. NoStreams \in [Pair -> Seq(Producer.records)]
      BY DEF NoStreams
    <3>4. writer \in WriterType /\ writer.linearize = sessions[s].linearize
      BY <2>3, <3>1, <3>3 DEF WriterType
    <3>5. writer # None
      BY <3>4, WriterAssumption
    <3> QED BY <2>2, <2>3, <3>2, <3>4, <3>5, SeamFacts DEF ModesAlike
  <2>6. call'.left = call.left
    BY <1>0, <2>1
  <2> QED BY <2>1, <2>2, <2>3, <2>4, <2>5, <2>6, SeamQuiet
<1>3. CASE MergeRuns
  BY <1>3, SeamBlock DEF MergeRuns
<1>4. ASSUME NEW p \in Pair, MergeYields(p)
      PROVE  SeamInv'
  BY <1>4, SeamYield
<1>5. CASE FlushDone
  <2>1. call'.step = "flush" /\ UNCHANGED <<file, sessions>>
    BY <1>0, <1>5 DEF FlushDone
  <2> QED BY <2>1, SeamBlock
<1> QED BY <1>1, <1>2, <1>3, <1>4, <1>5 DEF Flushes

\* No record waits while a call is under way, nor once close() is.
LEMMA NoneWaiting ==
    ASSUME SoundDecode, SeamInv, call # Idle \/ stage.step \notin {"open", "done"}
    PROVE  seams.record = None
BY NoneWaits DEF SeamInv, BreakKnown

\* The steps of close() that write.
LEMMA SeamCloses ==
    ASSUME SoundDecode, SeamInv, UNCHANGED <<asked, seams>>,
           Autofill \/ SessionEnds \/ FlushRaises \/ CloseOutput \/ OutputClosed
    PROVE  SeamInv'
<1>0. WriterInv
  BY DEF SoundDecode
<1>1. CASE Autofill
  <2>1. seams.record = None
    BY <1>1, NoneWaiting DEF Autofill, FillStream, FillClashes, WriteFill, FillDone, Filling
  <2>2. CASE FillStream \/ FillDone
    BY <1>0, <2>1, <2>2, SeamBlock DEF FillStream, FillDone, vars
  <2>3. CASE FillClashes
    BY <1>0, <2>1, <2>3, SeamBlock DEF FillClashes, Abandon
  <2>4. CASE WriteFill
    <3>1. stage.fills \in Seq(Fills) /\ stage.fills # << >>
      BY <2>4, StageFacts DEF WriteFill
    <3>2. Head(stage.fills) \in Fills
      BY <3>1
    <3>3. Head(stage.fills) \in Blocks /\ Head(stage.fills).kind # "record"
      BY <3>2 DEF Fills, Blocks
    <3> QED BY <1>0, <2>1, <2>4, <3>3, SeamBlock DEF WriteFill
  <2> QED BY <1>1, <2>2, <2>3, <2>4 DEF Autofill
<1>2. CASE SessionEnds
  <2>1. Flushed("end") /\ Emit(SessionEndOf(call.sid, call.extents)) /\ call' = Idle /\ UNCHANGED sessions
    BY <1>2 DEF SessionEnds, EndSession
  <2>2. seams.record = None
    BY <2>1, NoneWaiting DEF Flushed, Idle
  <2>3. SessionEndOf(call.sid, call.extents) \in Blocks /\ SessionEndOf(call.sid, call.extents).kind # "record"
    BY <1>0 DEF SessionEndOf, Blocks, WriterInv, CallKnown
  <2> QED BY <1>0, <2>1, <2>2, <2>3, SeamBlock
<1>3. CASE FlushRaises
  <2>1. call # Idle /\ call' = Idle /\ UNCHANGED <<file, sessions>>
    BY <1>3 DEF FlushRaises, Unwind, Idle
  <2> QED BY <1>0, <2>1, NoneWaiting, SeamBlock
<1>4. CASE CloseOutput
  <2>1. stage.step = "end" /\ call'.step = "flush" /\ UNCHANGED <<file, sessions>>
    BY <1>4 DEF CloseOutput, Ending, Close
  <2> QED BY <1>0, <2>1, NoneWaiting, SeamBlock
<1>5. CASE OutputClosed
  <2>1. /\ call # Idle /\ call' = Idle /\ UNCHANGED sessions
        /\ UNCHANGED file \/ Emit([kind |-> "end"])
    BY <1>5 DEF OutputClosed, EndFile, Flushed, Idle
  <2>2. [kind |-> "end"] \in Blocks /\ [kind |-> "end"].kind # "record"
    BY DEF Blocks
  <2> QED BY <1>0, <2>1, <2>2, NoneWaiting, SeamBlock
<1> QED BY <1>1, <1>2, <1>3, <1>4, <1>5

\* Every step of a decoder keeps its seams behind breaks.
LEMMA DecodeSeams == SoundDecode /\ SeamInv /\ [DecodeNext]_stageVars => SeamInv'
<1> SUFFICES ASSUME SoundDecode, SeamInv, [DecodeNext]_stageVars PROVE SeamInv'
  OBVIOUS
<1>0. WriterInv
  BY DEF SoundDecode
<1>1. ASSUME NEW b \in Producer.records, NEW seam \in BOOLEAN, WriteDecoded(b, seam)
      PROVE  SeamInv'
  <2>1. Record(b) \/ Buffer(b)
    BY <1>1 DEF WriteDecoded
  <2> QED BY <1>0, <1>1, <2>1, SeamRecord, SeamBuffered
<1>2. ASSUME NEW r \in Producer.records, BreakFirst(r)
      PROVE  SeamInv'
  BY <1>0, <1>2, SeamBreak
<1>3. ASSUME NEW b \in Producer.declarations, Undecoded(b)
      PROVE  SeamInv'
  <2>1. /\ Emit(b) /\ seams.record = None /\ UNCHANGED <<seams, asked, sessions, call>>
    BY <1>3 DEF Undecoded, MarkUndecoded, Declare
  <2>2. b \in Blocks /\ b.kind # "record"
    BY WriterAssumption DEF Blocks, Stateless
  <2> QED BY <1>0, <2>1, <2>2, SeamBlock
<1>4. ASSUME NEW b \in Producer.breaks, BreakOutput(b)
      PROVE  SeamInv'
  <2>1. /\ Emit(b) /\ seams.record = None /\ UNCHANGED <<seams, asked, sessions, call>>
    BY <1>4 DEF BreakOutput, MayDecode, Discontinuity
  <2>2. b \in Blocks /\ b.kind # "record"
    BY WriterAssumption DEF Blocks
  <2> QED BY <1>0, <2>1, <2>2, SeamBlock
<1>5. CASE Decodes(Producer)
  BY <1>1, <1>2, <1>3, <1>4, <1>5 DEF Decodes
<1>6. CASE CloseDecoding \/ AbandonDecoding
  <2>1. seams.record = None /\ UNCHANGED <<seams, asked, file, sessions, call>>
    BY <1>6 DEF CloseDecoding, CloseStage, vars, AbandonDecoding, AbandonStage, Abandon
  <2> QED BY <1>0, <2>1, SeamBlock
<1>7. CASE seams.record # None /\ WriteDecoded(seams.record, TRUE)
  <2>1. PICK b \in Producer.records : b = seams.record
    BY <1>7, StageFacts DEF DecodeKnown
  <2> QED BY <1>1, <1>7, <2>1
<1>8. CASE DeclareExtents
  <2>1. stage.step = "end" /\ call'.step = "flush" /\ UNCHANGED <<file, sessions, seams, asked>>
    BY <1>8 DEF DeclareExtents, Ending, End
  <2> QED BY <1>0, <2>1, NoneWaiting, SeamBlock
<1>9. CASE Flushes /\ UNCHANGED <<seams, asked>>
  <2>1. call.step \in {"flush", "merge"}
    BY <1>9 DEF Flushes, SkipFlush, StartFlush, Flushing, MergeRuns, MergeYields, FlushDone
  <2>2. seams.record = None
    BY <2>1, NoneWaiting DEF Idle
  <2> QED BY <1>0, <1>9, <2>2, SeamFlushes
<1>10. ASSUME Autofill \/ SessionEnds \/ FlushRaises \/ CloseOutput \/ OutputClosed, UNCHANGED <<seams, asked>>
       PROVE  SeamInv'
  BY <1>10, SeamCloses
<1>11. CASE UNCHANGED stageVars
  <2>1. UNCHANGED <<file, sessions, call, seams, asked>>
    BY <1>11 DEF stageVars, vars
  <2>2. AskedKnown' /\ BreakKnown' /\ MergesKnown' /\ SeamsKnown'
    BY <2>1 DEF SeamInv, AskedKnown, BreakKnown, MergesKnown, SeamsKnown, Emitting, BehindBreak
  <2> QED BY <2>2 DEF SeamInv
<1> QED BY <1>5, <1>6, <1>7, <1>8, <1>9, <1>10, <1>11 DEF DecodeNext, DecodeInside

\* No record is in the file before the first call.
LEMMA DecodeOpensSeams ==
    ASSUME NEW inputs \in InputFiles, NEW sequenced \in BOOLEAN, NEW fill \in BOOLEAN,
           DecodeInit(inputs, sequenced, fill)
    PROVE  SeamInv
<1>1. /\ file = Scaffold(inputs) /\ call = Idle /\ seams = [emitted |-> {}, record |-> None]
      /\ asked = [key \in Sids \X Pids |-> << >>]
  BY DEF DecodeInit, InitAfter
<1>2. \A i \in DOMAIN file : file[i].kind # "record"
  <2>1. \A i \in DOMAIN file : file[i] \in ToSet(file)
    BY DEF ToSet
  <2> QED BY <1>1, <2>1, DecodeScaffold
<1>3. \A s, p : Cardinality(RecordsIn(file, Len(file), s, p)) = 0
  <2> TAKE s, p
  <2>1. \A j \in 1 .. Len(file) : j \in DOMAIN file
    BY <1>1, DecodeScaffold
  <2>2. RecordsIn(file, Len(file), s, p) = {}
    BY <1>2, <2>1 DEF RecordsIn
  <2> QED BY <2>2, FS_EmptySet
<1>4. AskedKnown
  BY <1>1, <1>3 DEF AskedKnown
<1>5. BreakKnown /\ MergesKnown /\ SeamsKnown
  BY <1>1, <1>2 DEF BreakKnown, MergesKnown, SeamsKnown, Idle
<1> QED BY <1>4, <1>5 DEF SeamInv

\* The records of a file are of sessions it begins.
LEMMA SeamsRight ==
    ASSUME WriterInv, SeamInv
    PROVE  SeamsAreBreaks
<1>1. ASSUME NEW i \in DOMAIN file, file[i].kind = "record", ~ sessions[file[i].sid].linearize
      PROVE  LET seam == asked[<<file[i].sid, file[i].pid>>]
                 n    == Cardinality(RecordsUpTo(i))
             IN  /\ n \in DOMAIN seam
                 /\ n > 1 /\ seam[n] => file[i - 1] = BreakIn(file[i])
  <2>1. PICK b : b = file[i] /\ b \in Producer.records /\ b.sid \in Sids /\ b \in SentIn[b.sid]
    <3>1. file[i] \in Producer.records
      BY <1>1, FileHolds DEF WriterInv, ToSet
    <3> QED BY <3>1, SentType
  <2>2. sessions[b.sid] # None
    <3> SUFFICES ASSUME sessions[b.sid] = None
                 PROVE  FALSE
      OBVIOUS
    <3>1. Kept(file, SentIn[b.sid]) = << >>
      BY <2>1 DEF WriterInv, WritersKnown
    <3>2. PICK list \in Seq(Blocks) : list = file
      BY SeamFacts
    <3>3. ToSet(Kept(list, SentIn[b.sid])) = ToSet(list) \cap SentIn[b.sid]
      BY KeptMembers
    <3>4. b \in ToSet(list)
      BY <2>1, <3>2 DEF ToSet
    <3>5. b \in ToSet(<< >>)
      BY <2>1, <3>1, <3>2, <3>3, <3>4
    <3> QED BY <3>5 DEF ToSet
  <2>3. BehindBreak(i)
    BY <1>1, <2>1, <2>2 DEF SeamInv, SeamsKnown, Emitting
  <2>4. RecordsUpTo(i) = RecordsIn(file, i, file[i].sid, file[i].pid)
    BY DEF RecordsUpTo, RecordsIn
  <2> QED BY <2>3, <2>4 DEF BehindBreak
<1>2. \A s \in Sids, p \in Pids :
         sessions[s] # None /\ sessions[s].linearize =>
             \A n \in 2 .. Len(asked[<<s, p>>]) : ~ asked[<<s, p>>][n]
  BY DEF SeamInv, AskedKnown
<1> QED BY <1>1, <1>2 DEF SeamsAreBreaks

-------------------------------------------------------------------------------
(* The theorems *)

\* Every reachable state of a decode stage satisfies the invariant.
THEOREM DecodeAlwaysSound == DecodeSpec => []SoundDecode
<1> DEFINE Start == \E inputs \in InputFiles, sequenced, fill \in BOOLEAN : DecodeInit(inputs, sequenced, fill)
<1>1. Start => SoundDecode
  BY DecodeOpens
<1>2. DecodeSpec => Start /\ [][DecodeNext]_stageVars
  BY DEF DecodeSpec
<1> HIDE DEF Start
<1> QED BY <1>1, <1>2, DecodeNextStep, PTL

\* A stage that closed with an End block, and lost nothing to a flush that raised,
\* has each offset of its input cited by a record or named by an Undecoded block,
\* and none by both: for every input file, and whatever was cited twice, marked
\* twice, refused or buffered before close() (decode.py close, autofill).
THEOREM DecodeCovers == DecodeSpec => []ClosedStageCovers
<1>1. SoundDecode => ClosedStageCovers
  BY DEF SoundDecode, StageInv
<1> QED BY <1>1, DecodeAlwaysSound, PTL

\* What close() fills in names each offset once, as a gap where the input had a hole
\* and as skipped where it had a byte (decode.py _label_fills).
THEOREM DecodeFillsAreHonest == DecodeSpec => []FillsAreHonest
<1>1. SoundDecode => FillsAreHonest
  BY DEF SoundDecode, StageInv
<1> QED BY <1>1, DecodeAlwaysSound, PTL

\* The ledger of a decoder counts what the file has and what a sequenced session still
\* holds; of a session whose flush raised, also what that dropped; and nothing that a
\* call refused (decode.py _Ledger).
THEOREM DecodeLedgerIsFile == DecodeSpec => []LedgerIsFile
<1>1. SoundDecode => LedgerIsFile
  BY LedgerIsRead DEF SoundDecode
<1> QED BY <1>1, DecodeAlwaysSound, PTL

\* A reader of a clean output, who has not the input, finds no fault in its coverage:
\* what the file reaches is the extent its Session Ends declare, whatever was buffered,
\* refused or cited twice.  It takes a caller who cites and marks inside the streams it
\* read, and an input whose FINs are the last offsets of theirs (decode.py close,
\* _declare_extents).
THEOREM DecodeReaderAgrees == DecodeSpec => [](StaysInside => ReaderAgrees)
<1> DEFINE Start == \E inputs \in InputFiles, sequenced, fill \in BOOLEAN : DecodeInit(inputs, sequenced, fill)
<1>1. Start => SoundDecode /\ ReadKnown
  BY DecodeOpens, DecodeOpensReading
<1>2. DecodeSpec => Start /\ [][DecodeNext]_stageVars
  BY DEF DecodeSpec
<1>3. SoundDecode /\ ReadKnown => (StaysInside => ReaderAgrees)
  BY ReaderIsRight DEF SoundDecode, WriterInv
<1> HIDE DEF Start
<1> QED BY <1>1, <1>2, <1>3, DecodeNextStep, DecodeReads, PTL

\* Each seam a decoder passed with a record that was taken is a break in the file,
\* right before that record, however many attempts at either were refused, and a
\* session that buffers took a seam for the first record of a stream only (decode.py
\* record: "emits the Discontinuity in the right place for you").
THEOREM DecodeSeamsAreBreaks == DecodeSpec => []SeamsAreBreaks
<1> DEFINE Start == \E inputs \in InputFiles, sequenced, fill \in BOOLEAN : DecodeInit(inputs, sequenced, fill)
<1>1. Start => SoundDecode /\ SeamInv
  BY DecodeOpens, DecodeOpensSeams
<1>2. DecodeSpec => Start /\ [][DecodeNext]_stageVars
  BY DEF DecodeSpec
<1>3. SoundDecode /\ SeamInv => SeamsAreBreaks
  BY SeamsRight DEF SoundDecode
<1> HIDE DEF Start
<1> QED BY <1>1, <1>2, <1>3, DecodeNextStep, DecodeSeams, PTL

\* At every instant of a stage, inside its close() too, what it took of a stream is
\* what it wrote, then what a merge still holds, then what it still buffers (decode.py
\* record, close; writer.py _flush_pending).
THEOREM DecodeConservesRecords == DecodeSpec => []RecordsConserved
<1>1. SoundDecode => RecordsConserved
  BY SoundConserves DEF SoundDecode
<1> QED BY <1>1, DecodeAlwaysSound, PTL

===============================================================================
