---------------------------- MODULE VerdictProofs -----------------------------
(***************************************************************************)
(* What a lenient reader makes of any file: its index holds only blocks    *)
(* that depend on nothing it dropped, and what the checker remembers block *)
(* by block of the streams, their seams, the lost regions and the declared *)
(* lengths is what the index says of them as a whole, so its verdict is    *)
(* what a look at the whole file finds.                                    *)
(***************************************************************************)
EXTENDS LenientReader, OperatorProofs

\* What the checker knows was declared by a block in the index, and ended by one.
CheckerTied ==
    /\ \A s \in checker.live : \E j \in Of("session") : Filed(j).sid = s
    /\ \A j \in Of("sessionEnd") : Filed(j).sid \in checker.ended /\ Filed(j).sid \notin checker.live
    /\ \A s \in Sids, p \in Pids :
          checker.streams[s, p] # None => OfStream("participant", s, p) # {}
    /\ \A id \in SourceIds :
          checker.sources[id] # None => \E j \in Of("source") : Filed(j).id = id
    /\ \A id \in DecoderIds :
          checker.decoders[id] # None => \E j \in Of("decoder") : Filed(j).id = id

\* An Undecoded block in the index names a source that was declared before it.
MarksTied ==
    \A j \in Of("undecoded") : checker.sources[Filed(j).source] # None

\* Of a record i of the index: each thing it names was filed before it, and its
\* session had not ended.
OfParticipant(i) == \E j \in OfStream("participant", Filed(i).sid, Filed(i).pid) : j < i
OfSession(i) == \E j \in Of("session") : j < i /\ Filed(j).sid = Filed(i).sid
OfOpenSession(i) == ~ \E j \in Of("sessionEnd") : j < i /\ Filed(j).sid = Filed(i).sid
OfSource(i, source) == \E j \in Of("source") : j < i /\ Filed(j).id = source
OfDecoder(i) == Filed(i).decoder # None => \E j \in Of("decoder") : j < i /\ Filed(j).id = Filed(i).decoder

Dependent(i) ==
    /\ OfParticipant(i) /\ OfSession(i) /\ OfOpenSession(i) /\ OfDecoder(i)
    /\ \A source \in {Filed(i).source} \cup { x.source : x \in Filed(i).spans } : OfSource(i, source)

ReaderInv ==
    /\ TypeOK
    /\ status # "raised" => CheckerTied /\ MarksTied
    /\ DependentsIsolated
    /\ CoverageFromIndex

-------------------------------------------------------------------------------

LEMMA RecordByRecord ==
    /\ DependentsIsolated <=> (\A i \in Of("record") : Dependent(i))
    /\ DependentsIsolated' <=> (\A i \in Of("record")' : Dependent(i)')
  BY Zenon DEF DependentsIsolated, Dependent, OfParticipant, OfSession, OfOpenSession, OfSource, OfDecoder

\* The File Header declares nothing.
LEMMA ReaderInit == Init => ReaderInv
<1> SUFFICES ASSUME Init PROVE ReaderInv
  OBVIOUS
<1>1. PICK b \in Headers : checker = Absorbed(NewChecker, b)
  BY DEF Init
<1>2. b \in BlockType /\ b.kind = "header"
  BY BlocksAssumption
<1>3. ~ Refuses(NewChecker, b)
  BY <1>2 DEF Refuses, OutOfPlace, NewChecker
<1>4. /\ checker \in CheckerType
      /\ Declares(NewChecker, b, checker) /\ Counts(NewChecker, b, checker)
  BY <1>1, <1>2, <1>3, NewCheckerType, Absorption
<1>5. TypeOK
  <2>1. index \in Seq([block : BlockType, noted : BOOLEAN]) /\ isolated \in Seq(BlockType)
    BY DEF Init
  <2>2. strict \in BOOLEAN /\ fault \in BOOLEAN /\ status \in {"indexing", "indexed", "raised"}
    BY DEF Init
  <2> QED BY <1>4, <2>1, <2>2 DEF TypeOK
<1>6. Positions = {} /\ (\A kind : Of(kind) = {})
  BY DEF Init, Positions, Of
<1>7. /\ \A k \in Keys : checker.coverage[k].spans = {} /\ checker.coverage[k].undecoded = {}
      /\ checker.live = {}
      /\ \A id \in SourceIds : checker.sources[id] = None
      /\ \A id \in DecoderIds : checker.decoders[id] = None
      /\ \A s \in Sids, p \in Pids : checker.streams[s, p] = None
  <2>1. /\ checker.live = NewChecker.live /\ checker.sources = NewChecker.sources
        /\ checker.decoders = NewChecker.decoders
    BY <1>2, <1>4 DEF Declares
  <2>2. \A s \in Sids, p \in Pids : checker.streams[s, p] # None => NewChecker.streams[s, p] # None
    BY <1>2, <1>4, Zenon DEF Declares
  <2>3. \A k \in Keys : /\ checker.coverage[k].spans = NewChecker.coverage[k].spans
                        /\ checker.coverage[k].undecoded = NewChecker.coverage[k].undecoded
    BY <1>2, <1>4 DEF Counts, Marks
  <2>4. /\ NewChecker.live = {} /\ \A s \in Sids, p \in Pids : NewChecker.streams[s, p] = None
        /\ \A id \in SourceIds : NewChecker.sources[id] = None
        /\ \A id \in DecoderIds : NewChecker.decoders[id] = None
    BY DEF NewChecker
  <2>5. \A k \in Keys : NewChecker.coverage[k].spans = {} /\ NewChecker.coverage[k].undecoded = {}
    BY DEF NewChecker, NewLedger
  <2> QED BY <2>1, <2>2, <2>3, <2>4, <2>5
<1>8. CheckerTied /\ MarksTied /\ DependentsIsolated
  BY <1>6, <1>7 DEF CheckerTied, MarksTied, DependentsIsolated
<1>9. CoverageFromIndex
  <2>1. \A k \in Keys : CitedOf(k) = {} /\ MarkedOf(k) = {}
    BY <1>6 DEF CitedOf, MarkedOf
  <2> QED BY <1>7, <2>1 DEF CoverageFromIndex
<1> QED BY <1>5, <1>8, <1>9 DEF ReaderInv

-------------------------------------------------------------------------------

\* A block that is filed stands behind the others, and they where they stood.
LEMMA Filing ==
    ASSUME TypeOK, NEW b \in BlockType, Admit(b)
    PROVE  \E n \in Nat :
              /\ n \notin Positions /\ Positions' = Positions \cup {n}
              /\ \A i \in Positions : i \in Nat /\ i < n /\ index'[i].block = index[i].block
              /\ index'[n].block = b
<1>1. PICK entry \in [block : BlockType, noted : BOOLEAN] :
         entry.block = b /\ index' = Append(index, entry)
  <2>1. PICK noted \in BOOLEAN : noted = Unplaceable(checker, b)
    BY DEF Unplaceable
  <2>2. index' = Append(index, [block |-> b, noted |-> noted])
    BY <2>1 DEF Admit
  <2> QED BY <2>2
<1>2. index \in Seq([block : BlockType, noted : BOOLEAN])
  BY DEF TypeOK
<1>3. PICK n \in Nat : n = Len(index) + 1
  BY <1>2
<1>4. /\ Positions = 1 .. n - 1 /\ Positions' = 1 .. n
      /\ index'[n] = entry /\ \A i \in 1 .. n - 1 : index'[i] = index[i]
  BY <1>1, <1>2, <1>3 DEF Positions
<1>5. n \notin Positions /\ Positions' = Positions \cup {n}
  BY <1>3, <1>4
<1>6. \A i \in Positions : i \in Nat /\ i < n
  BY <1>3, <1>4
<1>7. \A i \in Positions : index'[i].block = index[i].block
  <2> TAKE i \in Positions
  <2>1. index'[i] = index[i]
    BY <1>4
  <2> QED BY <2>1
<1>8. index'[n].block = b
  BY <1>1, <1>4
<1> QED BY <1>5, <1>6, <1>7, <1>8

\* What a filed block is of is looked up by its kind.
LEMMA FiledIsBlock ==
    ASSUME TypeOK, NEW i \in Positions
    PROVE  Filed(i) \in BlockType
<1> DEFINE EntryType == [block : BlockType, noted : BOOLEAN]
<1>1. index \in Seq(EntryType) /\ i \in 1 .. Len(index)
  BY DEF TypeOK, Positions
<1>2. \A entry \in EntryType : entry.block \in BlockType
  OBVIOUS
<1> HIDE DEF EntryType
<1>3. index[i] \in EntryType
  BY <1>1
<1> QED BY <1>2, <1>3 DEF Filed

\* A step that files nothing and keeps the checker's ties and ledgers keeps the rest.
LEMMA ReaderStill ==
    ASSUME ReaderInv, TypeOK', UNCHANGED index,
           status' # "raised" =>
              /\ status # "raised"
              /\ checker'.sources = checker.sources /\ checker'.decoders = checker.decoders
              /\ checker'.coverage = checker.coverage
              /\ checker'.live \subseteq checker.live /\ checker.ended \subseteq checker'.ended
              /\ \A s \in Sids, p \in Pids :
                    checker'.streams[s, p] # None => checker.streams[s, p] # None
    PROVE  ReaderInv'
<1>1. Positions' = Positions /\ (\A i : Filed(i)' = Filed(i))
  BY DEF Positions, Filed
<1>2. /\ \A kind : Of(kind)' = Of(kind)
      /\ \A kind, s, p : OfStream(kind, s, p)' = OfStream(kind, s, p)
  BY <1>1 DEF Of, OfStream
<1>3. DependentsIsolated'
  <2> SUFFICES ASSUME NEW i \in Of("record") PROVE Dependent(i)'
    BY <1>2, RecordByRecord
  <2>1. Dependent(i)
    BY RecordByRecord DEF ReaderInv
  <2>2. OfParticipant(i)' /\ OfSession(i)' /\ OfOpenSession(i)' /\ OfDecoder(i)'
    BY <1>1, <1>2, <2>1 DEF Dependent, OfParticipant, OfSession, OfOpenSession, OfDecoder
  <2>3. ASSUME NEW source \in ({Filed(i).source} \cup { x.source : x \in Filed(i).spans })'
        PROVE  OfSource(i, source)'
    BY <1>1, <1>2, <2>1, <2>3 DEF Dependent, OfSource
  <2> QED BY <2>2, <2>3 DEF Dependent
<1>4. ASSUME status' # "raised" PROVE CheckerTied' /\ MarksTied'
  <2>1. CheckerTied /\ MarksTied
    BY <1>4 DEF ReaderInv
  <2>2. CheckerTied'
    BY <1>1, <1>2, <1>4, <2>1 DEF CheckerTied
  <2>3. MarksTied'
    BY <1>1, <1>2, <1>4, <2>1 DEF MarksTied
  <2> QED BY <2>2, <2>3
<1>5. CoverageFromIndex'
  <2> SUFFICES ASSUME status' # "raised", NEW k \in Keys
               PROVE  /\ checker'.coverage[k].spans = CitedOf(k)'
                      /\ checker'.coverage[k].undecoded = MarkedOf(k)'
    BY DEF CoverageFromIndex
  <2>1. CitedOf(k)' = CitedOf(k)
    BY <1>1, <1>2 DEF CitedOf
  <2>2. MarkedOf(k)' = MarkedOf(k)
    BY <1>1, <1>2 DEF MarkedOf
  <2>3. checker.coverage[k].spans = CitedOf(k) /\ checker.coverage[k].undecoded = MarkedOf(k)
    BY DEF ReaderInv, CoverageFromIndex
  <2> QED BY <2>1, <2>2, <2>3
<1> QED BY <1>3, <1>4, <1>5 DEF ReaderInv

\* A block the checker accepts is filed behind everything it names, and counts.
LEMMA ReaderFiles ==
    ASSUME ReaderInv, NEW b \in BlockType, Admit(b)
    PROVE  ReaderInv'
<1>1. /\ checker \in CheckerType /\ ~ Refuses(checker, b) /\ status = "indexing"
      /\ checker' = Absorbed(checker, b) /\ status' = status
  BY DEF ReaderInv, TypeOK, Admit, MoreBlocks
<1>2. /\ checker' \in CheckerType
      /\ Declares(checker, b, checker') /\ Counts(checker, b, checker')
  BY <1>1, Absorption
<1>3. CheckerTied /\ MarksTied /\ DependentsIsolated /\ TypeOK
  BY <1>1 DEF ReaderInv
<1>4. PICK n \in Nat :
         /\ n \notin Positions /\ Positions' = Positions \cup {n}
         /\ \A i \in Positions : i \in Nat /\ i < n /\ index'[i].block = index[i].block
         /\ index'[n].block = b
  BY <1>3, Filing
<1>5. /\ Filed(n)' = b
      /\ \A i \in Positions : Filed(i)' = Filed(i)
  BY <1>4 DEF Filed
<1>6. /\ \A kind : Of(kind)' = Of(kind) \cup (IF b.kind = kind THEN {n} ELSE {})
      /\ \A kind : Of(kind) \subseteq Positions
      /\ \A kind, s, p : OfStream(kind, s, p) \subseteq OfStream(kind, s, p)'
  <2>1. ASSUME NEW kind
        PROVE  /\ Of(kind)' = Of(kind) \cup (IF b.kind = kind THEN {n} ELSE {})
               /\ Of(kind) \subseteq Positions
    BY <1>4, <1>5 DEF Of
  <2>2. ASSUME NEW kind, NEW s, NEW p
        PROVE  OfStream(kind, s, p) \subseteq OfStream(kind, s, p)'
    BY <1>5, <2>1 DEF OfStream
  <2> QED BY <2>1, <2>2
<1>7. TypeOK'
  <2>1. index' \in Seq([block : BlockType, noted : BOOLEAN])
    <3>1. Unplaceable(checker, b) \in BOOLEAN
      BY DEF Unplaceable
    <3> QED BY <1>3, <3>1 DEF TypeOK, Admit
  <2>2. /\ strict' = strict /\ isolated' = isolated /\ status' = status /\ fault' = fault
    BY DEF Admit
  <2> QED BY <1>2, <1>3, <2>1, <2>2 DEF TypeOK
<1>8. CheckerTied'
  <2>1. \A s \in checker'.live : \E j \in Of("session")' : Filed(j)'.sid = s
    <3> SUFFICES ASSUME NEW s \in checker'.live PROVE \E j \in Of("session")' : Filed(j)'.sid = s
      OBVIOUS
    <3>1. s \in checker.live \/ (b.kind = "session" /\ s = b.sid)
      BY <1>2 DEF Declares
    <3>2. CASE s \in checker.live
      <4>1. PICK j \in Of("session") : Filed(j).sid = s
        BY <1>3, <3>2 DEF CheckerTied
      <4> QED BY <1>5, <1>6, <4>1
    <3>3. CASE b.kind = "session" /\ s = b.sid
      BY <1>5, <1>6, <3>3
    <3> QED BY <3>1, <3>2, <3>3
  <2>2. \A j \in Of("sessionEnd")' : Filed(j)'.sid \in checker'.ended /\ Filed(j)'.sid \notin checker'.live
    <3> SUFFICES ASSUME NEW j \in Of("sessionEnd")'
                 PROVE  Filed(j)'.sid \in checker'.ended /\ Filed(j)'.sid \notin checker'.live
      OBVIOUS
    <3>1. CASE j \in Of("sessionEnd")
      <4>1. Filed(j)' = Filed(j) /\ Filed(j).sid \in checker.ended /\ Filed(j).sid \notin checker.live
        BY <1>3, <1>5, <1>6, <3>1 DEF CheckerTied
      <4>2. b.kind = "session" => b.sid \notin checker.ended
        BY <1>1 DEF Refuses
      <4> QED BY <1>2, <4>1, <4>2 DEF Declares
    <3>2. CASE j = n /\ b.kind = "sessionEnd"
      BY <1>2, <1>5, <3>2 DEF Declares
    <3> QED BY <1>6, <3>1, <3>2
  <2>3. \A s \in Sids, p \in Pids :
           checker'.streams[s, p] # None => OfStream("participant", s, p)' # {}
    <3> SUFFICES ASSUME NEW s \in Sids, NEW p \in Pids, checker'.streams[s, p] # None
                 PROVE  OfStream("participant", s, p)' # {}
      OBVIOUS
    <3>1. checker.streams[s, p] # None \/ (b.kind = "participant" /\ b.sid = s /\ b.pid = p)
      BY <1>2, Zenon DEF Declares
    <3>2. CASE checker.streams[s, p] # None
      BY <1>3, <1>6, <3>2 DEF CheckerTied
    <3>3. CASE b.kind = "participant" /\ b.sid = s /\ b.pid = p
      <4>1. n \in Of("participant")'
        BY <1>6, <3>3
      <4> QED BY <1>5, <3>3, <4>1 DEF OfStream
    <3> QED BY <3>1, <3>2, <3>3
  <2>4. \A id \in SourceIds :
           checker'.sources[id] # None => \E j \in Of("source")' : Filed(j)'.id = id
    <3> SUFFICES ASSUME NEW id \in SourceIds, checker'.sources[id] # None
                 PROVE  \E j \in Of("source")' : Filed(j)'.id = id
      OBVIOUS
    <3>1. checker.sources[id] # None \/ (b.kind = "source" /\ b.id = id)
      BY <1>1, <1>2 DEF Declares, CheckerType
    <3>2. CASE checker.sources[id] # None
      <4>1. PICK j \in Of("source") : Filed(j).id = id
        BY <1>3, <3>2 DEF CheckerTied
      <4> QED BY <1>5, <1>6, <4>1
    <3>3. CASE b.kind = "source" /\ b.id = id
      BY <1>5, <1>6, <3>3
    <3> QED BY <3>1, <3>2, <3>3
  <2>5. \A id \in DecoderIds :
           checker'.decoders[id] # None => \E j \in Of("decoder")' : Filed(j)'.id = id
    <3> SUFFICES ASSUME NEW id \in DecoderIds, checker'.decoders[id] # None
                 PROVE  \E j \in Of("decoder")' : Filed(j)'.id = id
      OBVIOUS
    <3>1. checker.decoders[id] # None \/ (b.kind = "decoder" /\ b.id = id)
      BY <1>1, <1>2 DEF Declares, CheckerType
    <3>2. CASE checker.decoders[id] # None
      <4>1. PICK j \in Of("decoder") : Filed(j).id = id
        BY <1>3, <3>2 DEF CheckerTied
      <4> QED BY <1>5, <1>6, <4>1
    <3>3. CASE b.kind = "decoder" /\ b.id = id
      BY <1>5, <1>6, <3>3
    <3> QED BY <3>1, <3>2, <3>3
  <2> QED BY <2>1, <2>2, <2>3, <2>4, <2>5 DEF CheckerTied
<1>9. MarksTied'
  <2> SUFFICES ASSUME NEW j \in Of("undecoded")' PROVE checker'.sources[Filed(j)'.source] # None
    BY DEF MarksTied
  <2>1. ASSUME NEW id \in SourceIds, checker.sources[id] # None PROVE checker'.sources[id] # None
    <3>1. CASE b.kind = "source"
      <4>1. b.id \in SourceIds /\ b.id # id
        BY <1>1, <2>1, <3>1, DescriptorBlock DEF Refuses
      <4>2. checker'.sources = [checker.sources EXCEPT ![b.id] = b.source]
        BY <1>2, <3>1 DEF Declares
      <4> QED BY <1>1, <2>1, <4>1, <4>2 DEF CheckerType
    <3>2. CASE b.kind # "source"
      BY <1>2, <2>1, <3>2 DEF Declares
    <3> QED BY <3>1, <3>2
  <2>2. CASE j \in Of("undecoded")
    <3>1. checker.sources[Filed(j).source] # None /\ Filed(j)' = Filed(j)
      BY <1>3, <1>5, <1>6, <2>2 DEF MarksTied
    <3>2. Filed(j).source \in SourceIds
      BY <1>3, <1>6, <2>2, FiledIsBlock, OtherBlock DEF Of
    <3> QED BY <2>1, <3>1, <3>2
  <2>3. CASE j = n /\ b.kind = "undecoded"
    <3>1. checker.sources[b.source] \in {"capture", "zpf"} /\ b.source \in SourceIds
      BY <1>1, <2>3, OtherBlock DEF Refuses, BadUndecoded, UnknownSource
    <3>2. checker.sources[b.source] # None
      BY <3>1, IdsAssumption
    <3> QED BY <1>5, <2>1, <2>3, <3>1, <3>2
  <2> QED BY <1>6, <2>2, <2>3
<1>10. DependentsIsolated'
  <2> SUFFICES ASSUME NEW i \in Of("record")' PROVE Dependent(i)'
    BY RecordByRecord
  <2>1. CASE i \in Of("record")
    <3>1. Dependent(i) /\ Filed(i)' = Filed(i) /\ i \in Nat /\ i < n
      BY <1>3, <1>4, <1>5, <1>6, <2>1, RecordByRecord
    <3>2. OfParticipant(i)' /\ OfSession(i)'
      <4>1. PICK j \in OfStream("participant", Filed(i).sid, Filed(i).pid) : j < i
        BY <3>1 DEF Dependent, OfParticipant
      <4>2. j \in OfStream("participant", Filed(i).sid, Filed(i).pid)'
        <5>1. /\ j \in Of("participant") /\ Filed(j).sid = Filed(i).sid /\ Filed(j).pid = Filed(i).pid
          BY <4>1 DEF OfStream
        <5>2. j \in Of("participant")' /\ Filed(j)' = Filed(j)
          BY <1>5, <1>6, <5>1
        <5> QED BY <3>1, <5>1, <5>2 DEF OfStream
      <4>3. OfParticipant(i)'
        BY <3>1, <4>1, <4>2 DEF OfParticipant, OfStream
      <4>4. PICK m \in Of("session") : m < i /\ Filed(m).sid = Filed(i).sid
        BY <3>1 DEF Dependent, OfSession
      <4>5. OfSession(i)'
        BY <1>5, <1>6, <3>1, <4>4 DEF OfSession
      <4> QED BY <4>3, <4>5
    <3>3. OfOpenSession(i)'
      BY <1>4, <1>5, <1>6, <3>1 DEF Dependent, OfOpenSession
    <3>4. OfDecoder(i)'
      BY <1>5, <1>6, <3>1 DEF Dependent, OfDecoder
    <3>5. ASSUME NEW source \in ({Filed(i).source} \cup { x.source : x \in Filed(i).spans })
          PROVE  OfSource(i, source)'
      BY <1>5, <1>6, <3>1, <3>5 DEF Dependent, OfSource
    <3> QED BY <3>1, <3>2, <3>3, <3>4, <3>5 DEF Dependent
  <2>2. CASE i = n /\ b.kind = "record"
    <3>1. /\ b.sid \in Sids /\ b.pid \in Pids /\ b.source \in SourceIds
          /\ b.decoder \in DecoderIds \cup {None} /\ b.spans \in SUBSET SpanType
      BY <2>2, RecordBlock
    <3>2. Declared(checker, b) /\ ~ BadRecordEarly(checker, b) /\ ~ BadRecordLate(checker, b)
      BY <1>1, <2>2 DEF Refuses
    <3>3. \A kind : \A j \in Of(kind) : j < n /\ j \in Of(kind)' /\ Filed(j)' = Filed(j)
      BY <1>4, <1>5, <1>6
    <3>4. OfParticipant(i)'
      <4>1. PICK j \in OfStream("participant", b.sid, b.pid) : TRUE
        BY <1>3, <3>1, <3>2 DEF CheckerTied, Declared
      <4>2. j \in Of("participant") /\ j \in OfStream("participant", b.sid, b.pid)'
        BY <1>6, <4>1 DEF OfStream
      <4>3. j < n
        BY <3>3, <4>2
      <4> QED BY <1>5, <2>2, <4>2, <4>3 DEF OfParticipant
    <3>5. OfSession(i)' /\ OfOpenSession(i)'
      <4>1. b.sid \in checker.live
        BY <3>2 DEF Declared, Live
      <4>2. PICK j \in Of("session") : Filed(j).sid = b.sid
        BY <1>3, <4>1 DEF CheckerTied
      <4>3. OfSession(i)'
        BY <1>5, <2>2, <3>3, <4>2 DEF OfSession
      <4>4. \A m \in Of("sessionEnd") : Filed(m)'.sid # b.sid
        BY <1>3, <3>3, <4>1 DEF CheckerTied
      <4>5. Of("sessionEnd")' = Of("sessionEnd")
        BY <1>6, <2>2
      <4>6. OfOpenSession(i)'
        BY <1>5, <2>2, <4>4, <4>5 DEF OfOpenSession
      <4> QED BY <4>3, <4>6
    <3>6. OfDecoder(i)'
      <4> SUFFICES ASSUME b.decoder # None
                   PROVE  \E j \in Of("decoder")' : j < n /\ Filed(j)'.id = b.decoder
        BY <1>5, <2>2 DEF OfDecoder
      <4>1. checker.decoders[b.decoder] # None
        BY <3>2 DEF BadRecordEarly, UnknownDecoder
      <4>2. PICK j \in Of("decoder") : Filed(j).id = b.decoder
        BY <1>3, <3>1, <4>1 DEF CheckerTied
      <4> QED BY <3>3, <4>2
    <3>7. ASSUME NEW source \in ({b.source} \cup { x.source : x \in b.spans })
          PROVE  OfSource(i, source)'
      <4>1. source \in SourceIds /\ checker.sources[source] \in {"capture", "zpf"}
        BY <3>1, <3>2, <3>7 DEF BadRecordEarly, BadRecordLate, UnknownSource, SpanType
      <4>2. checker.sources[source] # None
        BY <4>1, IdsAssumption
      <4>3. PICK j \in Of("source") : Filed(j).id = source
        BY <1>3, <4>1, <4>2 DEF CheckerTied
      <4> QED BY <2>2, <3>3, <4>3 DEF OfSource
    <3> QED BY <1>5, <2>2, <3>4, <3>5, <3>6, <3>7 DEF Dependent
  <2> QED BY <1>6, <2>1, <2>2
<1>11. CoverageFromIndex'
  <2> SUFFICES ASSUME NEW k \in Keys
               PROVE  /\ checker'.coverage[k].spans = CitedOf(k)'
                      /\ checker'.coverage[k].undecoded = MarkedOf(k)'
    BY DEF CoverageFromIndex
  <2>1. checker.coverage[k].spans = CitedOf(k) /\ checker.coverage[k].undecoded = MarkedOf(k)
    BY <1>1 DEF ReaderInv, CoverageFromIndex
  <2>2. CitedOf(k)' = CitedOf(k) \cup (IF b.kind = "record" THEN CitedBy(b, k) ELSE {})
    <3>1. /\ CitedOf(k) = UNION { CitedBy(Filed(i), k) : i \in Of("record") }
          /\ CitedOf(k)' = UNION { CitedBy(Filed(i)', k) : i \in Of("record")' }
      BY Zenon DEF CitedOf, CitedBy
    <3>2. \A i \in Of("record") : Filed(i)' = Filed(i)
      BY <1>5, <1>6
    <3>3. Of("record")' = Of("record") \cup (IF b.kind = "record" THEN {n} ELSE {})
      BY <1>6
    <3> QED BY <1>5, <3>1, <3>2, <3>3
  <2>3. MarkedOf(k)' = MarkedOf(k) \cup (IF Marks(checker, b, k) THEN Span(b.start, b.end) ELSE {})
    <3> DEFINE Marking  == { j \in Of("undecoded") : /\ <<Filed(j).source, Filed(j).input>> = k
                                                     /\ checker.sources[Filed(j).source] = "zpf" }
               MarkingN == { j \in Of("undecoded")' : /\ <<Filed(j)'.source, Filed(j)'.input>> = k
                                                      /\ checker'.sources[Filed(j)'.source] = "zpf" }
    <3>1. /\ MarkedOf(k) = UNION { Span(Filed(i).start, Filed(i).end) : i \in Marking }
          /\ MarkedOf(k)' = UNION { Span(Filed(i)'.start, Filed(i)'.end) : i \in MarkingN }
      BY Zenon DEF MarkedOf
    <3>2. ASSUME NEW j \in Of("undecoded")
          PROVE  /\ j \in Of("undecoded")' /\ Filed(j)' = Filed(j)
                 /\ checker'.sources[Filed(j).source] = checker.sources[Filed(j).source]
      <4>1. j \in Of("undecoded")' /\ Filed(j)' = Filed(j)
        BY <1>5, <1>6
      <4>2. Filed(j).source \in SourceIds /\ checker.sources[Filed(j).source] # None
        BY <1>3, <1>6, FiledIsBlock, OtherBlock DEF Of, MarksTied
      <4>3. b.kind = "source" => b.id # Filed(j).source
        BY <1>1, <4>2 DEF Refuses
      <4> QED BY <1>1, <1>2, <4>1, <4>2, <4>3 DEF Declares, CheckerType
    <3>3. b.kind = "undecoded" => (checker.sources[b.source] # "capture" <=> checker'.sources[b.source] = "zpf")
      <4> SUFFICES ASSUME b.kind = "undecoded"
                   PROVE  checker.sources[b.source] # "capture" <=> checker'.sources[b.source] = "zpf"
        OBVIOUS
      <4>1. checker.sources[b.source] \in {"capture", "zpf"}
        BY <1>1 DEF Refuses, BadUndecoded, UnknownSource
      <4>2. checker'.sources = checker.sources
        BY <1>2 DEF Declares
      <4> QED BY <4>1, <4>2
    <3>4. MarkingN = Marking \cup (IF Marks(checker, b, k) THEN {n} ELSE {})
      <4>1. \A j \in Of("undecoded") : j \in MarkingN <=> j \in Marking
        BY <3>2
      <4>2. n \in MarkingN <=> Marks(checker, b, k)
        <5>1. n \in Of("undecoded")' <=> b.kind = "undecoded"
          BY <1>4, <1>6
        <5> QED BY <1>5, <3>3, <5>1 DEF Marks
      <4>3. MarkingN \subseteq Of("undecoded") \cup {n} /\ Marking \subseteq Of("undecoded")
        BY <1>6
      <4>4. n \notin Of("undecoded")
        BY <1>4, <1>6
      <4> HIDE DEF Marking, MarkingN
      <4> QED BY <4>1, <4>2, <4>3, <4>4
    <3>5. \A i \in Marking : Filed(i)' = Filed(i)
      BY <3>2
    <3> HIDE DEF Marking, MarkingN
    <3> QED BY <1>5, <3>1, <3>4, <3>5
  <2> QED BY <1>2, <2>1, <2>2, <2>3 DEF Counts
<1> QED BY <1>7, <1>8, <1>9, <1>10, <1>11 DEF ReaderInv

-------------------------------------------------------------------------------

\* Nothing a reader does undoes what ties its checker to its index.
LEMMA ReaderKept == ReaderInv /\ [Next]_vars => ReaderInv'
<1> SUFFICES ASSUME ReaderInv, [Next]_vars PROVE ReaderInv'
  OBVIOUS
<1>1. TypeOK
  BY DEF ReaderInv
<1>2. ASSUME NEW b \in Blocks, Read(b) PROVE ReaderInv'
  <2>1. b \in BlockType /\ checker \in CheckerType
    BY <1>1, BlocksAssumption DEF TypeOK
  <2>2. CASE Admit(b)
    BY <2>1, <2>2, ReaderFiles
  <2>3. CASE Isolate(b)
    <3>1. /\ checker' = Left(checker, b) /\ isolated' = Append(isolated, b)
          /\ status = "indexing" /\ status' = status
          /\ index' = index /\ strict' = strict /\ fault' = fault
      BY <2>3 DEF Isolate, MoreBlocks
    <3>2. /\ checker' \in CheckerType
          /\ checker'.sources = checker.sources /\ checker'.decoders = checker.decoders
          /\ checker'.coverage = checker.coverage
          /\ checker'.live \subseteq checker.live /\ checker.ended \subseteq checker'.ended
          /\ \A s \in Sids, p \in Pids :
                checker'.streams[s, p] # None => checker.streams[s, p] # None
      BY <2>1, <3>1, Refusal, Zenon
    <3>3. TypeOK'
      <4>1. isolated' \in Seq(BlockType)
        BY <1>1, <2>1, <3>1 DEF TypeOK
      <4> QED BY <1>1, <3>1, <3>2, <4>1 DEF TypeOK
    <3> QED BY <3>1, <3>2, <3>3, ReaderStill
  <2>4. CASE Raise(b)
    <3>1. /\ status' = "raised" /\ index' = index /\ isolated' = isolated
          /\ strict' = strict /\ fault' = fault
          /\ checker' = IF Refuses(checker, b) THEN Left(checker, b) ELSE Absorbed(checker, b)
      BY <2>4 DEF Raise
    <3>2. checker' \in CheckerType
      BY <2>1, <3>1, Refusal, Absorption
    <3>3. TypeOK'
      <4>1. status' \in {"indexing", "indexed", "raised"}
        BY <3>1
      <4>2. index' = index /\ isolated' = isolated /\ strict' = strict /\ fault' = fault
        BY <3>1
      <4> QED BY <1>1, <3>2, <4>1, <4>2 DEF TypeOK
    <3> QED BY <3>1, <3>3, ReaderStill
  <2> QED BY <1>2, <2>2, <2>3, <2>4 DEF Read
<1>3. CASE FinishChecks
  <2>1. /\ status = "indexing" /\ status' \in {"raised", "indexed"} /\ fault' \in BOOLEAN
        /\ index' = index /\ isolated' = isolated /\ strict' = strict /\ checker' = checker
    BY <1>3 DEF FinishChecks, FinishRefuses
  <2>2. TypeOK'
    BY <1>1, <2>1 DEF TypeOK
  <2> QED BY <2>1, <2>2, ReaderStill
<1>4. CASE UNCHANGED vars
  <2>1. /\ status' = status /\ fault' = fault
        /\ index' = index /\ isolated' = isolated /\ strict' = strict /\ checker' = checker
    BY <1>4 DEF vars
  <2>2. TypeOK'
    BY <1>1, <2>1 DEF TypeOK
  <2> QED BY <2>1, <2>2, ReaderStill
<1> QED BY <1>2, <1>3, <1>4 DEF Next

LEMMA ReaderAlways == Spec => []ReaderInv
  BY ReaderInit, ReaderKept, PTL DEF Spec

\* The reader, its checker, its index and its diagnostics keep their types
\* whatever blocks the file holds (reader.py FileReader._index).
THEOREM ReaderTyped == Spec => []TypeOK
<1>1. ReaderInv => TypeOK
  BY DEF ReaderInv
<1> QED BY <1>1, ReaderAlways, PTL

\* A record the reader shows names nothing that was dropped: its participant, its
\* session, then still open, its source, its decoder and its spans' sources were
\* all filed before it (conformance.py _on_record, _on_participant; reader.py
\* _admit).
THEOREM DependentsAlwaysIsolated == Spec => []DependentsIsolated
<1>1. ReaderInv => DependentsIsolated
  BY DEF ReaderInv
<1> QED BY <1>1, ReaderAlways, PTL

\* The coverage the end-of-stream pass judges is of the filed blocks and of no
\* dropped one (conformance.py observe, "A dropped block's claims must not count
\* towards the guarantee").
THEOREM CoverageAlwaysFromIndex == Spec => []CoverageFromIndex
<1>1. ReaderInv => CoverageFromIndex
  BY DEF ReaderInv
<1> QED BY <1>1, ReaderAlways, PTL

-------------------------------------------------------------------------------
(* The verdict *)

\* What a block cites of input stream k.
SpansAt(b, k) == { x \in b.spans : <<x.source, x.input>> = k }

\* Record i is the last of records R.
LastIn(R, i) == i \in R /\ \A j \in R : j <= i

\* Records i and j are neighbours in their stream, cite input stream k and are
\* not told apart.
Joined(s, p, i, j, k) ==
    /\ i \in OfStream("record", s, p) /\ j \in OfStream("record", s, p) /\ k \in Keys
    /\ Neighbours(OfStream("record", s, p), i, j)
    /\ ~ BreakBetween(s, p, i, j)
    /\ SpansOn(i, k) # {} /\ SpansOn(j, k) # {}

\* What lies of it between them.
SeamOf(i, j, k) ==
    [key |-> k, start |-> Max({ x.end : x \in SpansOn(i, k) }),
     end |-> Min({ x.start : x \in SpansOn(j, k) })]

\* The seams of a stream that leave something of their input out.
SeamsOf(s, p) ==
    LET R == OfStream("record", s, p)
    IN  { r \in { SeamOf(e[1], e[2], e[3]) : e \in { x \in R \X R \X Keys : Joined(s, p, x[1], x[2], x[3]) } } :
             r.start < r.end }

\* Those that are breaks unless marked: a transport stream, or one of units, has none.
HeldSeams(s, p) ==
    { r \in SeamsOf(s, p) : "decoded" \in LayersOf(s, p) /\ ~ Units(s, p) }

\* The layer of record i, and whether it is a copy.
Layer(i) == LayerOf(checker, Filed(i))

Copied(i) == IsCopy(checker, Filed(i))

\* A stream whose records do not go together.
BadIn(s, p) ==
    \/ Cardinality(LayersOf(s, p)) > 1 \/ "undefined" \in LayersOf(s, p)
    \/ LayersOf(s, p) \in {{}, {"transport"}} /\ OfStream("discontinuity", s, p) # {}
    \/ \E i, j \in OfStream("record", s, p) : Copied(i) /\ Filed(j).seq # None

\* What the checker holds of a stream is so of its records and breaks in the index.
StreamTold(s, p, stream) ==
    /\ stream.layers = LayersOf(s, p)
    /\ stream.broken <=> OfStream("discontinuity", s, p) # {}
    /\ stream.anchored <=> \E i \in OfStream("record", s, p) : Filed(i).seq # None
    /\ stream.copied <=> \E i \in OfStream("record", s, p) : Copied(i)
    /\ stream.adjacency = "units" <=> Units(s, p)
    /\ stream.candidates = SeamsOf(s, p)

\* And of the last record: how far it reached, and whether a break followed.
LastTold(s, p, stream) ==
    /\ OfStream("record", s, p) = {} => \A k \in Keys : stream.reach[k] = None
    /\ \A i \in OfStream("record", s, p) : LastIn(OfStream("record", s, p), i) =>
          /\ \A k \in Keys : stream.reach[k] = Reach(Filed(i), k)
          /\ stream.brokeSince <=> \E m \in OfStream("discontinuity", s, p) : i < m

\* The stream as checker c holds it.
At(c, s, p) == c.streams[s, p]

\* Every stream of a live session is told of; one not held has nothing in the index,
\* unless its session ended.
StreamsTold ==
    /\ checker.live \cap checker.ended = {}
    /\ \A s \in Sids, p \in Pids :
          /\ At(checker, s, p) # None =>
                /\ s \in checker.live
                /\ StreamTold(s, p, At(checker, s, p)) /\ LastTold(s, p, At(checker, s, p))
          /\ At(checker, s, p) = None /\ s \notin checker.ended =>
                \A kind \in {"participant", "record", "discontinuity"} : OfStream(kind, s, p) = {}

\* A session that ended had no bad stream, and handed its seams over.
EndsTold ==
    /\ \A s \in checker.ended, p \in Pids : ~ BadIn(s, p)
    /\ checker.breaks = UNION { UNION { HeldSeams(s, p) : p \in Pids } : s \in checker.ended }

\* What the records of the index name is declared, their inputs as files.
NamesKnown ==
    \A i \in Of("record") :
        /\ \A x \in Filed(i).spans : checker.sources[x.source] = "zpf"
        /\ Filed(i).decoder # None => checker.decoders[Filed(i).decoder] # None

\* The regions that seams are judged by are those the index says are lost.
RegionsTold ==
    checker.holes \cup checker.removed =
        { RegionOf(Filed(i)) : i \in { j \in Of("undecoded") : Loses(checker, Filed(j)) } }

\* The lengths held of the inputs are those the Session Ends of the index declare.
LengthsTold ==
    /\ \A s \in checker.ended : \E i \in Of("sessionEnd") : Filed(i).sid = s
    /\ \A i \in Of("sessionEnd"), k \in Keys :
          checker.coverage[k].declared[Filed(i).sid] = DeclaredBy(Filed(i), k, None)
    /\ \A s \in Sids \ checker.ended, k \in Keys : checker.coverage[k].declared[s] = None

-------------------------------------------------------------------------------

LEMMA SeamMember ==
    /\ \A s, p, r : r \in SeamsOf(s, p) <=>
          \E i, j, k : Joined(s, p, i, j, k) /\ r = SeamOf(i, j, k) /\ r.start < r.end
    /\ \A s, p, r : r \in SeamsOf(s, p)' <=>
          \E i, j, k : Joined(s, p, i, j, k)' /\ r = SeamOf(i, j, k)' /\ r.start < r.end
<1>1. ASSUME NEW s, NEW p, NEW r
      PROVE  r \in SeamsOf(s, p) <=>
                \E i, j, k : Joined(s, p, i, j, k) /\ r = SeamOf(i, j, k) /\ r.start < r.end
  <2> DEFINE R == OfStream("record", s, p)
             All == { SeamOf(e[1], e[2], e[3]) : e \in { x \in R \X R \X Keys : Joined(s, p, x[1], x[2], x[3]) } }
  <2>1. \A i, j, k : Joined(s, p, i, j, k) => <<i, j, k>> \in { x \in R \X R \X Keys : Joined(s, p, x[1], x[2], x[3]) }
    BY DEF Joined
  <2>2. ASSUME NEW i, NEW j, NEW k, Joined(s, p, i, j, k) PROVE SeamOf(i, j, k) \in All
    <3>1. PICK e : e = <<i, j, k>>
      OBVIOUS
    <3>2. e \in { x \in R \X R \X Keys : Joined(s, p, x[1], x[2], x[3]) }
      BY <2>1, <2>2, <3>1
    <3>3. SeamOf(e[1], e[2], e[3]) \in All
      BY <3>2, Zenon
    <3>4. e[1] = i /\ e[2] = j /\ e[3] = k
      BY <3>1
    <3> HIDE DEF All
    <3> QED BY <3>3, <3>4
  <2>3. ASSUME r \in All PROVE \E i, j, k : Joined(s, p, i, j, k) /\ r = SeamOf(i, j, k)
    BY <2>3
  <2>4. SeamsOf(s, p) = { x \in All : x.start < x.end }
    BY DEF SeamsOf
  <2> HIDE DEF All
  <2> QED BY <2>2, <2>3, <2>4
<1>2. ASSUME NEW s, NEW p, NEW r
      PROVE  r \in SeamsOf(s, p)' <=>
                \E i, j, k : Joined(s, p, i, j, k)' /\ r = SeamOf(i, j, k)' /\ r.start < r.end
  <2> DEFINE R == OfStream("record", s, p)'
             All == { SeamOf(e[1], e[2], e[3])' : e \in { x \in R \X R \X Keys : Joined(s, p, x[1], x[2], x[3])' } }
  <2>1. \A i, j, k : Joined(s, p, i, j, k)' => <<i, j, k>> \in { x \in R \X R \X Keys : Joined(s, p, x[1], x[2], x[3])' }
    BY DEF Joined
  <2>2. ASSUME NEW i, NEW j, NEW k, Joined(s, p, i, j, k)' PROVE SeamOf(i, j, k)' \in All
    <3>1. PICK e : e = <<i, j, k>>
      OBVIOUS
    <3>2. e \in { x \in R \X R \X Keys : Joined(s, p, x[1], x[2], x[3])' }
      BY <2>1, <2>2, <3>1
    <3>3. SeamOf(e[1], e[2], e[3])' \in All
      BY <3>2, Zenon
    <3>4. e[1] = i /\ e[2] = j /\ e[3] = k
      BY <3>1
    <3> HIDE DEF All
    <3> QED BY <3>3, <3>4
  <2>3. ASSUME r \in All PROVE \E i, j, k : Joined(s, p, i, j, k)' /\ r = SeamOf(i, j, k)'
    BY <2>3
  <2>4. SeamsOf(s, p)' = { x \in All : x.start < x.end }
    BY DEF SeamsOf
  <2> HIDE DEF All
  <2> QED BY <2>2, <2>3, <2>4
<1> QED BY <1>1, <1>2

\* What a record cites of an input stream lies between two offsets.
LEMMA SpanBounds ==
    ASSUME NEW b \in BlockType, b.kind = "record", NEW k
    PROVE  /\ SpansAt(b, k) # {} =>
                 /\ Max({ x.end : x \in SpansAt(b, k) }) \in Nat
                 /\ Min({ x.start : x \in SpansAt(b, k) }) \in Nat
                 /\ Reach(b, k) = Max({ x.end : x \in SpansAt(b, k) })
           /\ SpansAt(b, k) = {} => Reach(b, k) = None
<1>1. \A x \in SpansAt(b, k) : x.start \in 0 .. MaxOffset /\ x.end \in 0 .. MaxOffset
  BY RecordBlock DEF SpansAt, SpanType
<1>2. MaxOffset \in Nat
  BY IdsAssumption
<1>3. PICK ends, starts : ends = { x.end : x \in SpansAt(b, k) } /\ starts = { x.start : x \in SpansAt(b, k) }
  OBVIOUS
<1>4. ends \subseteq 0 .. MaxOffset /\ starts \subseteq 0 .. MaxOffset
  BY <1>1, <1>3
<1>5. Reach(b, k) = IF ends = {} THEN None ELSE Max(ends)
  BY <1>3 DEF Reach, SpansAt
<1>6. CASE SpansAt(b, k) = {}
  BY <1>3, <1>5, <1>6
<1>7. CASE SpansAt(b, k) # {}
  <2>1. ends # {} /\ starts # {}
    BY <1>3, <1>7
  <2>2. Max(ends) \in Nat /\ Min(starts) \in Nat
    <3>1. Max(ends) \in ends
      BY <1>2, <1>4, <2>1, OffsetBounds
    <3>2. Min(starts) \in starts
      BY <1>2, <1>4, <2>1, OffsetBounds
    <3>3. ends \subseteq Nat /\ starts \subseteq Nat
      BY <1>2, <1>4
    <3> QED BY <3>1, <3>2, <3>3, Zenon
  <2> QED BY <1>3, <1>5, <1>7, <2>1, <2>2
<1> QED BY <1>6, <1>7

\* Block b is filed at n, behind every other.
FiledAt(n, b) ==
    /\ n \in Nat /\ n \notin Positions /\ Filed(n)' = b
    /\ \A i \in Positions : i \in Nat /\ i < n /\ Filed(i)' = Filed(i)
    /\ \A kind : /\ Of(kind) \subseteq Positions
                 /\ Of(kind)' = Of(kind) \cup (IF b.kind = kind THEN {n} ELSE {})

LEMMA FilingAt ==
    ASSUME TypeOK, NEW b \in BlockType, Admit(b)
    PROVE  \E n : FiledAt(n, b)
<1>1. PICK n \in Nat :
         /\ n \notin Positions /\ Positions' = Positions \cup {n}
         /\ \A i \in Positions : i \in Nat /\ i < n /\ index'[i].block = index[i].block
         /\ index'[n].block = b
  BY Filing
<1>2. Filed(n)' = b /\ \A i \in Positions : Filed(i)' = Filed(i)
  BY <1>1 DEF Filed
<1>3. ASSUME NEW kind
      PROVE  /\ Of(kind) \subseteq Positions
             /\ Of(kind)' = Of(kind) \cup (IF b.kind = kind THEN {n} ELSE {})
  BY <1>1, <1>2 DEF Of
<1> QED BY <1>1, <1>2, <1>3 DEF FiledAt

\* A block is of a stream, as one of kind.
IsOf(b, kind, s, p) == b.kind = kind /\ b.sid = s /\ b.pid = p

LEMMA StreamGrows ==
    ASSUME NEW n, NEW b, FiledAt(n, b), NEW kind, NEW s, NEW p
    PROVE  /\ OfStream(kind, s, p)' = OfStream(kind, s, p) \cup (IF IsOf(b, kind, s, p) THEN {n} ELSE {})
           /\ OfStream(kind, s, p) \subseteq Of(kind)
           /\ \A i \in OfStream(kind, s, p) : i \in Nat /\ i < n /\ Filed(i)' = Filed(i)
<1>1. \A i \in Of(kind) : i \in Nat /\ i < n /\ Filed(i)' = Filed(i)
  BY DEF FiledAt
<1>2. Of(kind)' = Of(kind) \cup (IF b.kind = kind THEN {n} ELSE {}) /\ Filed(n)' = b
  BY DEF FiledAt
<1>3. n \notin Of(kind)
  BY DEF FiledAt
<1> QED BY <1>1, <1>2, <1>3 DEF OfStream, IsOf

\* Block b's layer is what it was.
LayerStays(b) == LayerOf(checker', b) = LayerOf(checker, b)

\* The decoder of a record was known when it was filed, and is the same since.
LayersStay ==
    \A i \in Of("record") : /\ LayerOf(checker', Filed(i)) = Layer(i)
                            /\ IsCopy(checker', Filed(i)) <=> Copied(i)

LEMMA LayersStayed ==
    ASSUME TypeOK, NamesKnown, NEW b \in BlockType, Admit(b)
    PROVE  LayersStay
<1>1. /\ checker \in CheckerType /\ ~ Refuses(checker, b) /\ checker' = Absorbed(checker, b)
  BY DEF TypeOK, Admit
<1>2. Declares(checker, b, checker')
  BY <1>1, Absorption
<1>3. ASSUME NEW i \in Of("record")
      PROVE  LayerOf(checker', Filed(i)) = Layer(i)
  <2>1. Filed(i) \in BlockType /\ Filed(i).kind = "record"
    BY FiledIsBlock DEF Of
  <2>2. Filed(i).decoder \in DecoderIds \cup {None}
    BY <2>1, RecordBlock
  <2>3. Filed(i).decoder # None => checker'.decoders[Filed(i).decoder] = checker.decoders[Filed(i).decoder]
    <3> SUFFICES ASSUME Filed(i).decoder # None
                 PROVE  checker'.decoders[Filed(i).decoder] = checker.decoders[Filed(i).decoder]
      OBVIOUS
    <3>1. checker.decoders[Filed(i).decoder] # None
      BY DEF NamesKnown
    <3>2. b.kind = "decoder" => b.id # Filed(i).decoder
      BY <1>1, <3>1 DEF Refuses
    <3> QED BY <1>1, <1>2, <2>2, <3>2 DEF Declares, CheckerType
  <2> QED BY <2>3 DEF LayerOf, Layer
<1> QED BY <1>3 DEF LayersStay, Layer, Copied, IsCopy

-------------------------------------------------------------------------------
(* A block of another stream *)

LEMMA StreamUnmoved ==
    ASSUME NEW n, NEW b, FiledAt(n, b), LayersStay, NEW s, NEW p,
           \A kind \in {"participant", "record", "discontinuity"} : ~ IsOf(b, kind, s, p)
    PROVE  /\ \A kind \in {"participant", "record", "discontinuity"} :
                 OfStream(kind, s, p)' = OfStream(kind, s, p)
           /\ LayersOf(s, p)' = LayersOf(s, p)
           /\ Units(s, p)' <=> Units(s, p)
           /\ SeamsOf(s, p)' = SeamsOf(s, p)
           /\ HeldSeams(s, p)' = HeldSeams(s, p)
           /\ BadIn(s, p)' <=> BadIn(s, p)
           /\ \A stream : StreamTold(s, p, stream) => StreamTold(s, p, stream)'
           /\ \A stream : LastTold(s, p, stream) => LastTold(s, p, stream)'
<1>1. \A kind \in {"participant", "record", "discontinuity"} :
         OfStream(kind, s, p)' = OfStream(kind, s, p)
  <2> TAKE kind \in {"participant", "record", "discontinuity"}
  <2>1. OfStream(kind, s, p)' = OfStream(kind, s, p) \cup (IF IsOf(b, kind, s, p) THEN {n} ELSE {})
    BY StreamGrows
  <2> QED BY <2>1
<1>2. PICK R, D, P : /\ R = OfStream("record", s, p) /\ R = OfStream("record", s, p)'
                     /\ D = OfStream("discontinuity", s, p) /\ D = OfStream("discontinuity", s, p)'
                     /\ P = OfStream("participant", s, p) /\ P = OfStream("participant", s, p)'
  BY <1>1
<1>3. /\ \A i \in R : Filed(i)' = Filed(i) /\ i \in Of("record")
      /\ \A i \in P : Filed(i)' = Filed(i)
  BY <1>2, StreamGrows
<1>4. \A i \in R : /\ Layer(i)' = Layer(i)
                   /\ Copied(i)' <=> Copied(i)
  <2> TAKE i \in R
  <2>1. /\ LayerOf(checker', Filed(i)) = Layer(i)
        /\ IsCopy(checker', Filed(i)) <=> Copied(i)
    BY <1>3 DEF LayersStay
  <2>2. Filed(i)' = Filed(i)
    BY <1>3
  <2> QED BY <2>1, <2>2 DEF Layer, Copied
<1>5. LayersOf(s, p)' = LayersOf(s, p)
  <2>1. /\ LayersOf(s, p) = { Layer(i) : i \in R }
        /\ LayersOf(s, p)' = { Layer(i)' : i \in R }
    BY <1>2 DEF LayersOf, Layer
  <2> QED BY <1>4, <2>1
<1>6. Units(s, p)' <=> Units(s, p)
  BY <1>2, <1>3 DEF Units
<1>7. \A i, k : i \in R => SpansOn(i, k)' = SpansOn(i, k)
  BY <1>3 DEF SpansOn
<1>8. ASSUME NEW i, NEW j, NEW k
      PROVE  /\ Joined(s, p, i, j, k)' <=> Joined(s, p, i, j, k)
             /\ Joined(s, p, i, j, k) => SeamOf(i, j, k)' = SeamOf(i, j, k)
  <2>1. BreakBetween(s, p, i, j)' <=> BreakBetween(s, p, i, j)
    BY <1>2 DEF BreakBetween
  <2>2. Neighbours(OfStream("record", s, p), i, j)' <=> Neighbours(OfStream("record", s, p), i, j)
    BY <1>2 DEF Neighbours
  <2>3. Joined(s, p, i, j, k)' <=> Joined(s, p, i, j, k)
    BY <1>2, <1>7, <2>1, <2>2 DEF Joined
  <2>4. Joined(s, p, i, j, k) => SeamOf(i, j, k)' = SeamOf(i, j, k)
    BY <1>2, <1>7 DEF Joined, SeamOf
  <2> QED BY <2>3, <2>4
<1>9. SeamsOf(s, p)' = SeamsOf(s, p)
  <2>1. ASSUME NEW r PROVE r \in SeamsOf(s, p)' <=> r \in SeamsOf(s, p)
    BY <1>8, SeamMember
  <2> QED BY <2>1
<1>10. HeldSeams(s, p)' = HeldSeams(s, p)
  BY <1>5, <1>6, <1>9 DEF HeldSeams
<1>11. (\E i, j \in R : Copied(i)' /\ Filed(j)'.seq # None)
          <=> (\E i, j \in R : Copied(i) /\ Filed(j).seq # None)
  BY <1>3, <1>4
<1>12. BadIn(s, p)' <=> BadIn(s, p)
  BY <1>2, <1>5, <1>11 DEF BadIn
<1>13. ASSUME NEW stream, StreamTold(s, p, stream) PROVE StreamTold(s, p, stream)'
  <2>1. stream.anchored <=> \E i \in R : Filed(i)'.seq # None
    BY <1>2, <1>3, <1>13 DEF StreamTold
  <2>2. stream.copied <=> \E i \in R : Copied(i)'
    BY <1>2, <1>4, <1>13 DEF StreamTold
  <2> QED BY <1>2, <1>5, <1>6, <1>9, <1>13, <2>1, <2>2 DEF StreamTold
<1>14. ASSUME NEW stream, LastTold(s, p, stream) PROVE LastTold(s, p, stream)'
  BY <1>2, <1>3, <1>14 DEF LastTold, LastIn
<1> QED BY <1>1, <1>5, <1>6, <1>9, <1>10, <1>12, <1>13, <1>14

-------------------------------------------------------------------------------
(* A record of the stream *)

\* The seam between record i, the last of its stream, and record b behind it.
Opens(R, D, i, k, b) ==
    /\ k \in Keys /\ LastIn(R, i) /\ ~ (\E m \in D : i < m)
    /\ SpansOn(i, k) # {} /\ SpansAt(b, k) # {}

SeamTo(i, k, b) ==
    [key |-> k, start |-> Max({ x.end : x \in SpansOn(i, k) }),
     end |-> Min({ x.start : x \in SpansAt(b, k) })]

\* It is what the checker opens, by what it remembers of the last record.
LEMMA OpenedIsSeam ==
    ASSUME TypeOK, NEW s, NEW p, NEW b \in BlockType, b.kind = "record",
           NEW stream, LastTold(s, p, stream), NEW R, NEW D,
           R = OfStream("record", s, p), D = OfStream("discontinuity", s, p),
           NEW n \in Nat, \A i \in R : i \in Nat /\ i < n, NEW r
    PROVE  r \in OpenedBy(stream, b) <=>
              \E i, k : Opens(R, D, i, k, b) /\ r = SeamTo(i, k, b) /\ r.start < r.end
<1>1. \A i \in R : Filed(i) \in BlockType /\ Filed(i).kind = "record"
  BY FiledIsBlock DEF OfStream, Of
<1>2. \A i, k : SpansOn(i, k) = SpansAt(Filed(i), k)
  BY DEF SpansOn, SpansAt
<1>3. \A k : k \in { <<x.source, x.input>> : x \in b.spans } <=> k \in Keys /\ SpansAt(b, k) # {}
  <2>1. \A x \in b.spans : <<x.source, x.input>> \in Keys
    BY RecordBlock DEF SpanType, Keys
  <2> QED BY <2>1 DEF SpansAt
<1>4. r \in Candidates(stream, b) <=>
         \E k \in Keys : /\ SpansAt(b, k) # {}
                         /\ r = [key |-> k, start |-> stream.reach[k],
                                 end |-> Min({ x.start : x \in SpansAt(b, k) })]
  <2>1. r \in Candidates(stream, b) <=>
           \E k \in { <<x.source, x.input>> : x \in b.spans } :
              r = [key |-> k, start |-> stream.reach[k], end |-> Min({ x.start : x \in SpansAt(b, k) })]
    BY DEF Candidates, SpansAt
  <2> QED BY <1>3, <2>1
<1>5. ASSUME r \in OpenedBy(stream, b)
      PROVE  \E i, k : Opens(R, D, i, k, b) /\ r = SeamTo(i, k, b) /\ r.start < r.end
  <2>1. r \in Candidates(stream, b) /\ ~ stream.brokeSince /\ r.start # None /\ r.start < r.end
    BY <1>5 DEF OpenedBy
  <2>2. PICK k \in Keys : /\ SpansAt(b, k) # {}
                          /\ r = [key |-> k, start |-> stream.reach[k],
                                  end |-> Min({ x.start : x \in SpansAt(b, k) })]
    BY <1>4, <2>1
  <2>3. stream.reach[k] # None
    BY <2>1, <2>2
  <2>4. R # {}
    BY <2>2, <2>3 DEF LastTold
  <2>5. PICK i \in R : \A j \in R : j <= i
    <3>1. R \subseteq 0 .. n
      OBVIOUS
    <3>2. \E i \in R : \A j \in R : i >= j
      BY <2>4, <3>1, OffsetEnds
    <3> QED BY <3>2
  <2>6. LastIn(R, i)
    BY <2>5 DEF LastIn
  <2>7. stream.reach[k] = Reach(Filed(i), k) /\ ~ (\E m \in D : i < m)
    BY <2>1, <2>2, <2>6 DEF LastTold
  <2>8. SpansOn(i, k) # {} /\ stream.reach[k] = Max({ x.end : x \in SpansOn(i, k) })
    <3>1. SpansAt(Filed(i), k) # {}
      BY <1>1, <2>3, <2>7, SpanBounds
    <3>2. Reach(Filed(i), k) = Max({ x.end : x \in SpansAt(Filed(i), k) })
      BY <1>1, <3>1, SpanBounds
    <3> QED BY <1>2, <2>7, <3>1, <3>2
  <2>9. Opens(R, D, i, k, b)
    BY <2>2, <2>6, <2>7, <2>8 DEF Opens
  <2>10. r = SeamTo(i, k, b)
    BY <2>2, <2>8 DEF SeamTo
  <2> QED BY <2>1, <2>9, <2>10
<1>6. ASSUME NEW i, NEW k, Opens(R, D, i, k, b), r = SeamTo(i, k, b), r.start < r.end
      PROVE  r \in OpenedBy(stream, b)
  <2>1. i \in R /\ k \in Keys /\ SpansOn(i, k) # {} /\ SpansAt(b, k) # {}
    BY <1>6 DEF Opens, LastIn
  <2>2. stream.reach[k] = Reach(Filed(i), k) /\ ~ stream.brokeSince
    <3>1. stream.brokeSince <=> \E m \in D : i < m
      BY <1>6, <2>1 DEF LastTold, Opens
    <3> QED BY <1>6, <2>1, <3>1 DEF LastTold, Opens
  <2>3. /\ Reach(Filed(i), k) = Max({ x.end : x \in SpansOn(i, k) })
        /\ Max({ x.end : x \in SpansOn(i, k) }) \in Nat
    <3>1. SpansAt(Filed(i), k) # {}
      BY <1>2, <2>1
    <3>2. /\ Reach(Filed(i), k) = Max({ x.end : x \in SpansAt(Filed(i), k) })
          /\ Max({ x.end : x \in SpansAt(Filed(i), k) }) \in Nat
      BY <1>1, <2>1, <3>1, SpanBounds
    <3> QED BY <1>2, <3>2
  <2>4. r = [key |-> k, start |-> stream.reach[k], end |-> Min({ x.start : x \in SpansAt(b, k) })]
    BY <1>6, <2>2, <2>3 DEF SeamTo
  <2>5. r.start # None
    BY <2>2, <2>3, <2>4, NoneAssumption
  <2> QED BY <1>4, <1>6, <2>1, <2>2, <2>4, <2>5 DEF OpenedBy
<1> QED BY <1>5, <1>6

LEMMA RecordMoves ==
    ASSUME TypeOK, NEW n, NEW b \in BlockType, b.kind = "record", FiledAt(n, b), LayersStay,
           LayerStays(b),
           Declared(checker, b), NEW stream, stream = HeldBy(checker, b),
           StreamTold(b.sid, b.pid, stream), LastTold(b.sid, b.pid, stream),
           NEW after, after = StreamAfter(checker, b)
    PROVE  StreamTold(b.sid, b.pid, after)' /\ LastTold(b.sid, b.pid, after)'
<1>1. PICK s, p : s = b.sid /\ p = b.pid
  OBVIOUS
<1>2. PICK R, D, P : /\ R = OfStream("record", s, p) /\ R \cup {n} = OfStream("record", s, p)'
                     /\ D = OfStream("discontinuity", s, p) /\ D = OfStream("discontinuity", s, p)'
                     /\ P = OfStream("participant", s, p) /\ P = OfStream("participant", s, p)'
  <2>1. OfStream("record", s, p)' = OfStream("record", s, p) \cup {n}
    BY <1>1, StreamGrows DEF IsOf
  <2>2. OfStream("discontinuity", s, p)' = OfStream("discontinuity", s, p)
    <3>1. ~ IsOf(b, "discontinuity", s, p)
      BY DEF IsOf
    <3> QED BY <3>1, StreamGrows
  <2>3. OfStream("participant", s, p)' = OfStream("participant", s, p)
    <3>1. ~ IsOf(b, "participant", s, p)
      BY DEF IsOf
    <3> QED BY <3>1, StreamGrows
  <2> QED BY <2>1, <2>2, <2>3
<1>3. n \in Nat /\ Filed(n)' = b
  BY DEF FiledAt
<1>4. \A i \in R : i \in Nat /\ i < n /\ Filed(i)' = Filed(i) /\ i \in Of("record")
  BY <1>2, StreamGrows
<1>5. /\ \A m \in D : m \in Nat /\ m < n
      /\ \A i \in P : Filed(i)' = Filed(i)
  BY <1>2, StreamGrows
<1>6. /\ \A i \in R : /\ Layer(i)' = Layer(i)
                      /\ Copied(i)' <=> Copied(i)
      /\ Layer(n)' = LayerOf(checker, b)
      /\ Copied(n)' <=> IsCopy(checker, b)
  <2>1. ASSUME NEW i \in R
        PROVE  /\ Layer(i)' = Layer(i)
               /\ Copied(i)' <=> Copied(i)
    <3>1. /\ LayerOf(checker', Filed(i)) = Layer(i)
          /\ IsCopy(checker', Filed(i)) <=> Copied(i)
      BY <1>4 DEF LayersStay
    <3>2. Filed(i)' = Filed(i)
      BY <1>4
    <3> QED BY <3>1, <3>2 DEF Layer, Copied
  <2>2. Layer(n)' = LayerOf(checker, b)
    BY <1>3 DEF LayerStays, Layer
  <2>3. Copied(n)' <=> IsCopy(checker, b)
    BY <1>3 DEF Copied, IsCopy, LayerStays
  <2> QED BY <2>1, <2>2, <2>3
<1>7. LayersOf(s, p)' = LayersOf(s, p) \cup {LayerOf(checker, b)}
  <2>1. /\ LayersOf(s, p) = { Layer(i) : i \in R }
        /\ LayersOf(s, p)' = { Layer(i)' : i \in R \cup {n} }
    BY <1>2 DEF LayersOf, Layer
  <2> SUFFICES ASSUME NEW l PROVE l \in LayersOf(s, p)' <=> l \in LayersOf(s, p) \/ l = LayerOf(checker, b)
    OBVIOUS
  <2>2. l \in LayersOf(s, p)' <=> \E i \in R \cup {n} : l = Layer(i)'
    BY <2>1, Zenon
  <2>3. l \in LayersOf(s, p) <=> \E i \in R : l = Layer(i)
    BY <2>1, Zenon
  <2>4. (\E i \in R \cup {n} : l = Layer(i)')
           <=> (\E i \in R : l = Layer(i)) \/ l = LayerOf(checker, b)
    <3>1. ASSUME NEW i \in R \cup {n}, l = Layer(i)' PROVE (\E j \in R : l = Layer(j)) \/ l = LayerOf(checker, b)
      <4>1. CASE i \in R
        <5>1. Layer(i)' = Layer(i)
          BY <1>6, <4>1
        <5>2. l = Layer(i)
          BY <3>1, <5>1
        <5> QED BY <4>1, <5>2
      <4>2. CASE i = n
        <5>1. l = Layer(n)'
          BY <3>1, <4>2
        <5> QED BY <1>6, <5>1, Zenon
      <4> QED BY <4>1, <4>2
    <3>2. ASSUME NEW i \in R, l = Layer(i) PROVE \E j \in R \cup {n} : l = Layer(j)'
      <4>1. l = Layer(i)'
        <5>1. Layer(i)' = Layer(i)
          BY <1>6
        <5> QED BY <3>2, <5>1
      <4>2. i \in R \cup {n}
        OBVIOUS
      <4> QED BY <4>1, <4>2, Zenon
    <3>3. ASSUME l = LayerOf(checker, b) PROVE \E j \in R \cup {n} : l = Layer(j)'
      <4>1. l = Layer(n)'
        BY <1>6, <3>3, Zenon
      <4>2. n \in R \cup {n}
        OBVIOUS
      <4> QED BY <4>1, <4>2, Zenon
    <3> QED BY <3>1, <3>2, <3>3, Zenon
  <2> QED BY <2>2, <2>3, <2>4, Zenon
<1>8. Units(s, p)' <=> Units(s, p)
  BY <1>2, <1>5 DEF Units
<1>9. /\ \A i, k : i \in R => SpansOn(i, k)' = SpansOn(i, k)
      /\ \A k : SpansOn(n, k)' = SpansAt(b, k)
  BY <1>3, <1>4 DEF SpansOn, SpansAt
<1>10. ASSUME NEW i \in R, NEW j \in R, NEW k
       PROVE  /\ Joined(s, p, i, j, k)' <=> Joined(s, p, i, j, k)
              /\ SeamOf(i, j, k)' = SeamOf(i, j, k)
  <2>1. BreakBetween(s, p, i, j)' <=> BreakBetween(s, p, i, j)
    BY <1>2 DEF BreakBetween
  <2>2. Neighbours(OfStream("record", s, p), i, j)' <=> Neighbours(OfStream("record", s, p), i, j)
    <3>1. ~ n < j
      BY <1>3, <1>4
    <3> QED BY <1>2, <3>1 DEF Neighbours
  <2>3. Joined(s, p, i, j, k)' <=> Joined(s, p, i, j, k)
    BY <1>2, <1>9, <2>1, <2>2 DEF Joined
  <2> QED BY <1>9, <2>3 DEF SeamOf
<1>11. ASSUME NEW i \in R, NEW k
       PROVE  /\ Joined(s, p, i, n, k)' <=> Opens(R, D, i, k, b)
              /\ SeamOf(i, n, k)' = SeamTo(i, k, b)
  <2>1. BreakBetween(s, p, i, n)' <=> \E m \in D : i < m
    BY <1>2, <1>5 DEF BreakBetween
  <2>2. Neighbours(OfStream("record", s, p), i, n)' <=> LastIn(R, i)
    <3>1. Neighbours(OfStream("record", s, p), i, n)' <=> i < n /\ ~ \E m \in R \cup {n} : i < m /\ m < n
      BY <1>2 DEF Neighbours
    <3>2. i < n /\ ~ n < n /\ \A m \in R : m < n
      BY <1>3, <1>4
    <3>3. \A m \in R : i < m <=> ~ m <= i
      BY <1>4
    <3> QED BY <3>1, <3>2, <3>3 DEF LastIn
  <2>3. Joined(s, p, i, n, k)' <=> Opens(R, D, i, k, b)
    BY <1>2, <1>9, <2>1, <2>2 DEF Joined, Opens
  <2> QED BY <1>9, <2>3 DEF SeamOf, SeamTo
<1>12. ASSUME NEW i, NEW j, NEW k, Joined(s, p, i, j, k)'
       PROVE  i \in R /\ j \in R \cup {n}
  <2>1. i \in R \cup {n} /\ j \in R \cup {n} /\ i < j
    BY <1>2, <1>12 DEF Joined, Neighbours
  <2>2. ~ n < j
    BY <1>3, <1>4, <2>1
  <2> QED BY <2>1, <2>2
<1>13. SeamsOf(s, p)' = SeamsOf(s, p) \cup OpenedBy(stream, b)
  <2> SUFFICES ASSUME NEW r
               PROVE  r \in SeamsOf(s, p)' <=> r \in SeamsOf(s, p) \/ r \in OpenedBy(stream, b)
    OBVIOUS
  <2>1. r \in OpenedBy(stream, b) <=>
           \E i, k : Opens(R, D, i, k, b) /\ r = SeamTo(i, k, b) /\ r.start < r.end
    BY <1>1, <1>2, <1>3, <1>4, OpenedIsSeam
  <2>2. /\ r \in SeamsOf(s, p) <=>
              \E i, j, k : Joined(s, p, i, j, k) /\ r = SeamOf(i, j, k) /\ r.start < r.end
        /\ r \in SeamsOf(s, p)' <=>
              \E i, j, k : Joined(s, p, i, j, k)' /\ r = SeamOf(i, j, k)' /\ r.start < r.end
    BY SeamMember
  <2>3. ASSUME r \in SeamsOf(s, p)' PROVE r \in SeamsOf(s, p) \/ r \in OpenedBy(stream, b)
    <3>1. PICK i, j, k : Joined(s, p, i, j, k)' /\ r = SeamOf(i, j, k)' /\ r.start < r.end
      BY <2>2, <2>3
    <3>2. i \in R /\ j \in R \cup {n}
      BY <1>12, <3>1
    <3>3. CASE j \in R
      BY <1>10, <2>2, <3>1, <3>2, <3>3
    <3>4. CASE j = n
      BY <1>11, <2>1, <3>1, <3>2, <3>4
    <3> QED BY <3>2, <3>3, <3>4
  <2>4. ASSUME r \in SeamsOf(s, p) PROVE r \in SeamsOf(s, p)'
    <3>1. PICK i, j, k : Joined(s, p, i, j, k) /\ r = SeamOf(i, j, k) /\ r.start < r.end
      BY <2>2, <2>4
    <3>2. i \in R /\ j \in R
      BY <1>2, <3>1 DEF Joined
    <3> QED BY <1>10, <2>2, <3>1, <3>2
  <2>5. ASSUME r \in OpenedBy(stream, b) PROVE r \in SeamsOf(s, p)'
    <3>1. PICK i, k : Opens(R, D, i, k, b) /\ r = SeamTo(i, k, b) /\ r.start < r.end
      BY <2>1, <2>5
    <3>2. i \in R
      BY <3>1 DEF Opens, LastIn
    <3> QED BY <1>11, <2>2, <3>1, <3>2
  <2> QED BY <2>3, <2>4, <2>5
<1>14. /\ after.layers = stream.layers \cup {LayerOf(checker, b)}
       /\ after.adjacency = stream.adjacency /\ after.broken = stream.broken
       /\ after.anchored <=> (stream.anchored \/ b.seq # None)
       /\ after.copied <=> (stream.copied \/ IsCopy(checker, b))
       /\ after.candidates = stream.candidates \cup OpenedBy(stream, b)
       /\ after.reach = [k \in Keys |-> Reach(b, k)]
       /\ after.brokeSince = FALSE
  <2>1. PICK c \in CheckerType : c = checker
    BY DEF TypeOK
  <2>2. b.kind = "record" /\ Declared(c, b)
    BY <2>1
  <2>3. Moves(c, b, HeldBy(c, b), StreamAfter(c, b))
    BY <2>2, StreamMoves
  <2>4. Moves(checker, b, stream, after)
    BY <2>1, <2>3
  <2> QED BY <2>4, Zenon DEF Moves
<1>15. StreamTold(s, p, after)'
  <2>1. after.anchored <=> \E i \in R \cup {n} : Filed(i)'.seq # None
    BY <1>1, <1>2, <1>3, <1>4, <1>14 DEF StreamTold
  <2>2. after.copied <=> \E i \in R \cup {n} : Copied(i)'
    <3>1. stream.copied <=> \E i \in R : Copied(i)
      BY <1>1, <1>2, Zenon DEF StreamTold
    <3>2. (\E i \in R \cup {n} : Copied(i)')
             <=> (\E i \in R : Copied(i)) \/ IsCopy(checker, b)
      <4>1. ASSUME NEW i \in R \cup {n}, Copied(i)' PROVE (\E j \in R : Copied(j)) \/ IsCopy(checker, b)
        <5>1. CASE i \in R
          <6>1. Copied(i)' <=> Copied(i)
            BY <1>6, <5>1
          <6>2. Copied(i)
            BY <4>1, <6>1
          <6> QED BY <5>1, <6>2
        <5>2. CASE i = n
          <6>1. Copied(n)'
            BY <4>1, <5>2
          <6> QED BY <1>6, <6>1, Zenon
        <5> QED BY <5>1, <5>2
      <4>2. ASSUME NEW i \in R, Copied(i) PROVE \E j \in R \cup {n} : Copied(j)'
        <5>1. Copied(i)'
          BY <1>6, <4>2, Zenon
        <5>2. i \in R \cup {n}
          OBVIOUS
        <5> QED BY <5>1, <5>2, Zenon
      <4>3. ASSUME IsCopy(checker, b) PROVE \E j \in R \cup {n} : Copied(j)'
        <5>1. Copied(n)'
          BY <1>6, <4>3, Zenon
        <5>2. n \in R \cup {n}
          OBVIOUS
        <5> QED BY <5>1, <5>2, Zenon
      <4> QED BY <4>1, <4>2, <4>3, Zenon
    <3> QED BY <1>14, <3>1, <3>2, Zenon
  <2>3. after.layers = LayersOf(s, p)' /\ after.candidates = SeamsOf(s, p)'
    BY <1>1, <1>7, <1>13, <1>14 DEF StreamTold
  <2>4. (after.adjacency = "units" <=> Units(s, p)') /\ (after.broken <=> D # {})
    BY <1>1, <1>2, <1>8, <1>14 DEF StreamTold
  <2> QED BY <1>2, <2>1, <2>2, <2>3, <2>4 DEF StreamTold
<1>16. LastTold(s, p, after)'
  <2>1. \A i \in R \cup {n} : LastIn(R \cup {n}, i) => i = n
    BY <1>3, <1>4 DEF LastIn
  <2>2. ~ \E m \in D : n < m
    BY <1>3, <1>5
  <2>3. \A k \in Keys : after.reach[k] = Reach(Filed(n)', k)
    BY <1>3, <1>14
  <2> QED BY <1>2, <1>14, <2>1, <2>2, <2>3 DEF LastTold
<1> QED BY <1>1, <1>15, <1>16

-------------------------------------------------------------------------------
(* A break, and the block that begins a stream *)

LEMMA BreakMoves ==
    ASSUME NEW n, NEW b, b.kind = "discontinuity", FiledAt(n, b), LayersStay,
           NEW stream \in StreamType, StreamTold(b.sid, b.pid, stream), LastTold(b.sid, b.pid, stream),
           NEW after, after = [stream EXCEPT !.broken = TRUE, !.brokeSince = TRUE]
    PROVE  StreamTold(b.sid, b.pid, after)' /\ LastTold(b.sid, b.pid, after)'
<1>1. PICK s, p : s = b.sid /\ p = b.pid
  OBVIOUS
<1>2. PICK R, D, P : /\ R = OfStream("record", s, p) /\ R = OfStream("record", s, p)'
                     /\ D = OfStream("discontinuity", s, p) /\ D \cup {n} = OfStream("discontinuity", s, p)'
                     /\ P = OfStream("participant", s, p) /\ P = OfStream("participant", s, p)'
  <2>1. OfStream("record", s, p)' = OfStream("record", s, p)
    <3>1. ~ IsOf(b, "record", s, p)
      BY DEF IsOf
    <3> QED BY <3>1, StreamGrows
  <2>2. OfStream("discontinuity", s, p)' = OfStream("discontinuity", s, p) \cup {n}
    BY <1>1, StreamGrows DEF IsOf
  <2>3. OfStream("participant", s, p)' = OfStream("participant", s, p)
    <3>1. ~ IsOf(b, "participant", s, p)
      BY DEF IsOf
    <3> QED BY <3>1, StreamGrows
  <2> QED BY <2>1, <2>2, <2>3
<1>3. n \in Nat
  BY DEF FiledAt
<1>4. \A i \in R : i \in Nat /\ i < n /\ Filed(i)' = Filed(i) /\ i \in Of("record")
  BY <1>2, StreamGrows
<1>5. \A i \in P : Filed(i)' = Filed(i)
  BY <1>2, StreamGrows
<1>6. \A i \in R : Layer(i)' = Layer(i) /\ (Copied(i)' <=> Copied(i))
  <2> TAKE i \in R
  <2>1. /\ LayerOf(checker', Filed(i)) = Layer(i)
        /\ IsCopy(checker', Filed(i)) <=> Copied(i)
    BY <1>4 DEF LayersStay
  <2>2. Filed(i)' = Filed(i)
    BY <1>4
  <2> QED BY <2>1, <2>2 DEF Layer, Copied
<1>7. LayersOf(s, p)' = LayersOf(s, p)
  <2>1. /\ LayersOf(s, p) = { Layer(i) : i \in R }
        /\ LayersOf(s, p)' = { Layer(i)' : i \in R }
    BY <1>2 DEF LayersOf, Layer
  <2> QED BY <1>6, <2>1
<1>8. Units(s, p)' <=> Units(s, p)
  BY <1>2, <1>5 DEF Units
<1>9. \A i, k : i \in R => SpansOn(i, k)' = SpansOn(i, k)
  BY <1>4 DEF SpansOn
<1>10. ASSUME NEW i, NEW j, NEW k
       PROVE  /\ Joined(s, p, i, j, k)' <=> Joined(s, p, i, j, k)
              /\ Joined(s, p, i, j, k) => SeamOf(i, j, k)' = SeamOf(i, j, k)
  <2>1. j \in R => (BreakBetween(s, p, i, j)' <=> BreakBetween(s, p, i, j))
    <3>1. j \in R => ~ n < j
      BY <1>3, <1>4
    <3> QED BY <1>2, <3>1 DEF BreakBetween
  <2>2. Neighbours(OfStream("record", s, p), i, j)' <=> Neighbours(OfStream("record", s, p), i, j)
    BY <1>2 DEF Neighbours
  <2>3. Joined(s, p, i, j, k)' <=> Joined(s, p, i, j, k)
    BY <1>2, <1>9, <2>1, <2>2 DEF Joined
  <2>4. Joined(s, p, i, j, k) => SeamOf(i, j, k)' = SeamOf(i, j, k)
    BY <1>2, <1>9 DEF Joined, SeamOf
  <2> QED BY <2>3, <2>4
<1>11. SeamsOf(s, p)' = SeamsOf(s, p)
  <2>1. ASSUME NEW r PROVE r \in SeamsOf(s, p)' <=> r \in SeamsOf(s, p)
    BY <1>10, SeamMember
  <2> QED BY <2>1
<1>12. /\ after.layers = stream.layers /\ after.adjacency = stream.adjacency
       /\ after.anchored = stream.anchored /\ after.copied = stream.copied
       /\ after.candidates = stream.candidates /\ after.reach = stream.reach
       /\ after.broken = TRUE /\ after.brokeSince = TRUE
  BY DEF StreamType
<1>13. StreamTold(s, p, after)'
  <2>1. after.anchored <=> \E i \in R : Filed(i)'.seq # None
    BY <1>1, <1>2, <1>4, <1>12 DEF StreamTold
  <2>2. after.copied <=> \E i \in R : Copied(i)'
    BY <1>1, <1>2, <1>6, <1>12 DEF StreamTold
  <2>3. after.layers = LayersOf(s, p)' /\ after.candidates = SeamsOf(s, p)'
    BY <1>1, <1>7, <1>11, <1>12 DEF StreamTold
  <2>4. (after.adjacency = "units" <=> Units(s, p)') /\ (after.broken <=> D \cup {n} # {})
    BY <1>1, <1>8, <1>12 DEF StreamTold
  <2> QED BY <1>2, <2>1, <2>2, <2>3, <2>4 DEF StreamTold
<1>14. LastTold(s, p, after)'
  <2>1. R = {} => \A k \in Keys : after.reach[k] = None
    BY <1>1, <1>2, <1>12 DEF LastTold
  <2>2. ASSUME NEW i \in R, LastIn(R, i)
        PROVE  /\ \A k \in Keys : after.reach[k] = Reach(Filed(i)', k)
               /\ after.brokeSince <=> \E m \in D \cup {n} : i < m
    <3>1. \A k \in Keys : stream.reach[k] = Reach(Filed(i), k)
      BY <1>1, <1>2, <2>2 DEF LastTold
    <3>2. Filed(i)' = Filed(i) /\ i < n
      BY <1>4
    <3> QED BY <1>12, <3>1, <3>2
  <2> QED BY <1>2, <2>1, <2>2 DEF LastTold
<1> QED BY <1>1, <1>13, <1>14

LEMMA StreamBegins ==
    ASSUME NEW n, NEW b, b.kind = "participant", FiledAt(n, b),
           \A kind \in {"participant", "record", "discontinuity"} : OfStream(kind, b.sid, b.pid) = {}
    PROVE  /\ StreamTold(b.sid, b.pid, NewStream(b.isn, b.adjacency))'
           /\ LastTold(b.sid, b.pid, NewStream(b.isn, b.adjacency))'
<1>1. PICK s, p : s = b.sid /\ p = b.pid
  OBVIOUS
<1>2. /\ OfStream("record", s, p)' = {}
      /\ OfStream("discontinuity", s, p)' = {}
      /\ OfStream("participant", s, p)' = {n}
  <2>1. OfStream("record", s, p)' = {}
    <3>1. ~ IsOf(b, "record", s, p) /\ OfStream("record", s, p) = {}
      BY <1>1 DEF IsOf
    <3> QED BY <3>1, StreamGrows
  <2>2. OfStream("discontinuity", s, p)' = {}
    <3>1. ~ IsOf(b, "discontinuity", s, p) /\ OfStream("discontinuity", s, p) = {}
      BY <1>1 DEF IsOf
    <3> QED BY <3>1, StreamGrows
  <2>3. OfStream("participant", s, p)' = {n}
    <3>1. IsOf(b, "participant", s, p) /\ OfStream("participant", s, p) = {}
      BY <1>1 DEF IsOf
    <3> QED BY <3>1, StreamGrows
  <2> QED BY <2>1, <2>2, <2>3
<1>3. Filed(n)' = b
  BY DEF FiledAt
<1>4. LayersOf(s, p)' = {}
  BY <1>2 DEF LayersOf
<1>5. Units(s, p)' <=> b.adjacency = "units"
  BY <1>2, <1>3 DEF Units
<1>6. SeamsOf(s, p)' = {}
  <2>1. ASSUME NEW i, NEW j, NEW k PROVE ~ Joined(s, p, i, j, k)'
    BY <1>2 DEF Joined
  <2> QED BY <2>1, SeamMember
<1>7. PICK stream : stream = NewStream(b.isn, b.adjacency)
  OBVIOUS
<1>8. /\ stream.layers = {} /\ stream.adjacency = b.adjacency
      /\ stream.anchored = FALSE /\ stream.copied = FALSE
      /\ stream.candidates = {} /\ stream.reach = [k \in Keys |-> None]
      /\ stream.broken = FALSE /\ stream.brokeSince = FALSE
  BY <1>7 DEF NewStream
<1>9. StreamTold(s, p, stream)'
  BY <1>2, <1>4, <1>5, <1>6, <1>8 DEF StreamTold
<1>10. LastTold(s, p, stream)'
  BY <1>2, <1>8 DEF LastTold
<1> QED BY <1>1, <1>7, <1>9, <1>10

-------------------------------------------------------------------------------
(* Every stream *)

\* What a block makes of stream (s, p), and of no other.
Turns(c, b, d, s, p) ==
    /\ IsOf(b, "participant", s, p) => At(d, s, p) = NewStream(b.isn, b.adjacency)
    /\ IsOf(b, "record", s, p) => At(d, s, p) = StreamAfter(c, b)
    /\ IsOf(b, "discontinuity", s, p) =>
          At(d, s, p) = [At(c, s, p) EXCEPT !.broken = TRUE, !.brokeSince = TRUE]
    /\ b.kind = "sessionEnd" /\ b.sid = s => At(d, s, p) = None
    /\ \/ \E kind \in {"participant", "record", "discontinuity"} : IsOf(b, kind, s, p)
       \/ b.kind = "sessionEnd" /\ b.sid = s
       \/ At(d, s, p) = At(c, s, p)

LEMMA StreamFollows ==
    ASSUME NEW c \in CheckerType, NEW b \in BlockType, ~ Refuses(c, b), NEW d, Follows(c, b, d),
           NEW s \in Sids, NEW p \in Pids
    PROVE  Turns(c, b, d, s, p)
<1> USE DEF Turns
<1>1. PICK streams : streams = c.streams /\ DOMAIN streams = Sids \X Pids
  BY DEF CheckerType
<1>2. PICK x \in Sids \X Pids : x = <<s, p>>
  OBVIOUS
<1>3. At(d, s, p) = d.streams[x] /\ At(c, s, p) = streams[x]
  BY <1>1, <1>2 DEF At
<1>4. CASE b.kind \in {"participant", "record", "discontinuity"}
  <2>1. b.sid \in Sids /\ b.pid \in Pids
    BY <1>4, RecordBlock, DescriptorBlock, OtherBlock
  <2>2. PICK y \in Sids \X Pids : y = <<b.sid, b.pid>>
    BY <2>1
  <2>3. x = y <=> b.sid = s /\ b.pid = p
    BY <1>2, <2>2
  <2>4. PICK new : /\ d.streams = [streams EXCEPT ![y] = new]
                   /\ b.kind = "participant" => new = NewStream(b.isn, b.adjacency)
                   /\ b.kind = "record" => new = StreamAfter(c, b)
                   /\ b.kind = "discontinuity" => new = [streams[y] EXCEPT !.broken = TRUE, !.brokeSince = TRUE]
    <3>1. CASE b.kind = "participant"
      BY <1>1, <2>2, <3>1 DEF Follows
    <3>2. CASE b.kind = "record"
      BY <1>1, <2>2, <3>2 DEF Follows
    <3>3. CASE b.kind = "discontinuity"
      BY <1>1, <2>2, <3>3 DEF Follows
    <3> QED BY <1>4, <3>1, <3>2, <3>3
  <2>5. /\ x = y => d.streams[x] = new
        /\ x # y => d.streams[x] = streams[x]
    BY <1>1, <1>2, <2>2, <2>4
  <2> QED BY <1>3, <1>4, <2>3, <2>4, <2>5 DEF IsOf
<1>5. CASE b.kind = "sessionEnd"
  <2>1. d.streams[s, p] = IF s = b.sid THEN None ELSE c.streams[s, p]
    BY <1>5, Zenon DEF Follows
  <2> QED BY <1>5, <2>1 DEF At, IsOf
<1>6. CASE b.kind \notin {"participant", "record", "discontinuity", "sessionEnd"}
  <2>1. d.streams = c.streams
    BY <1>6, Zenon DEF Follows
  <2> QED BY <1>6, <2>1 DEF At, IsOf
<1> QED BY <1>4, <1>5, <1>6

LEMMA StreamsFollow ==
    ASSUME TypeOK, StreamsTold, NamesKnown, NEW b \in BlockType, Admit(b), NEW n, FiledAt(n, b)
    PROVE  StreamsTold'
<1>0. PICK c \in CheckerType : c = checker
  BY DEF TypeOK
<1>1. PICK d : c = checker /\ d = checker' /\ d = Absorbed(c, b) /\ ~ Refuses(c, b)
  BY <1>0 DEF Admit
<1>2. Declares(c, b, d) /\ Follows(c, b, d)
  BY <1>1, Absorption, AbsorbedFollows
<1>3. LayersStay
  BY LayersStayed
<1>4. /\ d.live = IF b.kind = "session" THEN c.live \cup {b.sid}
                  ELSE IF b.kind = "sessionEnd" THEN c.live \ {b.sid} ELSE c.live
      /\ d.ended = IF b.kind = "sessionEnd" THEN c.ended \cup {b.sid} ELSE c.ended
  BY <1>2, Zenon DEF Declares
<1>5. c.live \cap c.ended = {}
  BY <1>1 DEF StreamsTold
<1>6. d.live \cap d.ended = {}
  <2>1. b.kind = "session" => b.sid \notin c.live \cup c.ended
    BY <1>1 DEF Refuses
  <2> QED BY <1>4, <1>5, <2>1
<1>7. ASSUME NEW s \in Sids, NEW p \in Pids
      PROVE  /\ At(d, s, p) # None =>
                   s \in d.live /\ StreamTold(s, p, At(d, s, p))' /\ LastTold(s, p, At(d, s, p))'
             /\ At(d, s, p) = None /\ s \notin d.ended =>
                   \A kind \in {"participant", "record", "discontinuity"} : OfStream(kind, s, p)' = {}
  <2>1. /\ At(c, s, p) # None => /\ s \in c.live
                                 /\ StreamTold(s, p, At(c, s, p)) /\ LastTold(s, p, At(c, s, p))
        /\ At(c, s, p) = None /\ s \notin c.ended =>
              \A kind \in {"participant", "record", "discontinuity"} : OfStream(kind, s, p) = {}
    BY <1>1 DEF StreamsTold
  <2>0. Turns(c, b, d, s, p)
    <3>1. c \in CheckerType /\ ~ Refuses(c, b) /\ Follows(c, b, d)
      BY <1>1, <1>2
    <3> QED BY <3>1, StreamFollows
  <2>2. CASE IsOf(b, "participant", s, p)
    <3>1. s \in c.live /\ At(c, s, p) = None
      BY <1>1, <2>2 DEF Refuses, Declared, Live, IsOf, At
    <3>2. StreamTold(s, p, NewStream(b.isn, b.adjacency))' /\ LastTold(s, p, NewStream(b.isn, b.adjacency))'
      BY <1>5, <2>1, <2>2, <3>1, StreamBegins DEF IsOf
    <3>3. At(d, s, p) = NewStream(b.isn, b.adjacency) /\ At(d, s, p) # None
      <4>1. At(d, s, p) = NewStream(b.isn, b.adjacency)
        BY <2>0, <2>2, Zenon DEF Turns
      <4>2. NewStream(b.isn, b.adjacency) \in StreamType
        BY <1>1, <2>2, DescriptorBlock, NewStreamType DEF IsOf, Refuses
      <4> QED BY <4>1, <4>2, NoStreamAssumption
    <3>4. s \in d.live
      BY <1>4, <2>2, <3>1 DEF IsOf
    <3> QED BY <3>2, <3>3, <3>4
  <2>3. CASE IsOf(b, "record", s, p)
    <3>1. Declared(c, b) /\ ~ UnknownDecoder(c, b)
      BY <1>1, <2>3 DEF Refuses, BadRecordEarly, IsOf
    <3>2. At(c, s, p) # None /\ s \in c.live /\ At(c, s, p) = HeldBy(c, b)
      BY <2>3, <3>1 DEF Declared, Live, IsOf, At, HeldBy
    <3>3. LayerStays(b)
      <4>1. d.decoders = c.decoders
        BY <1>2, <2>3 DEF Declares, IsOf
      <4> QED BY <1>1, <4>1 DEF LayerStays, LayerOf
    <3>4. PICK after \in StreamType : after = StreamAfter(c, b)
      BY <2>3, <3>1, StreamAfterType DEF IsOf
    <3>5. StreamTold(s, p, after)' /\ LastTold(s, p, after)'
      <4>1. b.kind = "record" /\ s = b.sid /\ p = b.pid
        BY <2>3 DEF IsOf
      <4>2. PICK stream : stream = HeldBy(checker, b) /\ StreamTold(b.sid, b.pid, stream) /\ LastTold(b.sid, b.pid, stream)
        BY <1>1, <2>1, <3>2, <4>1
      <4>3. after = StreamAfter(checker, b) /\ Declared(checker, b)
        BY <1>1, <3>1, <3>4
      <4> QED BY <1>3, <3>3, <4>1, <4>2, <4>3, RecordMoves
    <3>6. At(d, s, p) = after /\ At(d, s, p) # None
      <4>1. At(d, s, p) = after
        BY <2>0, <2>3, <3>4, Zenon DEF Turns
      <4> QED BY <4>1, NoStreamAssumption
    <3>7. s \in d.live
      BY <1>4, <2>3, <3>2 DEF IsOf
    <3> QED BY <3>5, <3>6, <3>7
  <2>4. CASE IsOf(b, "discontinuity", s, p)
    <3>1. Declared(c, b)
      BY <1>1, <2>4 DEF Refuses, IsOf
    <3>2. At(c, s, p) # None /\ s \in c.live /\ At(c, s, p) \in StreamType
      BY <2>4, <3>1 DEF Declared, Live, IsOf, At, CheckerType
    <3>3. PICK stream \in StreamType : stream = At(c, s, p)
      BY <3>2
    <3>4. PICK after \in StreamType : after = [stream EXCEPT !.broken = TRUE, !.brokeSince = TRUE]
      BY DEF StreamType
    <3>5. StreamTold(s, p, after)' /\ LastTold(s, p, after)'
      <4>1. b.kind = "discontinuity" /\ s = b.sid /\ p = b.pid
        BY <2>4 DEF IsOf
      <4>2. StreamTold(b.sid, b.pid, stream) /\ LastTold(b.sid, b.pid, stream)
        BY <2>1, <3>2, <3>3, <4>1
      <4> QED BY <1>3, <3>4, <4>1, <4>2, BreakMoves
    <3>6. At(d, s, p) = after /\ At(d, s, p) # None
      <4>1. At(d, s, p) = after
        BY <2>0, <2>4, <3>3, <3>4, Zenon DEF Turns
      <4> QED BY <4>1, NoStreamAssumption
    <3>7. s \in d.live
      BY <1>4, <2>4, <3>2 DEF IsOf
    <3> QED BY <3>5, <3>6, <3>7
  <2>5. CASE b.kind = "sessionEnd" /\ b.sid = s
    <3>1. At(d, s, p) = None
      BY <2>0, <2>5, Zenon DEF Turns
    <3>2. s \in d.ended
      BY <1>4, <2>5
    <3> QED BY <3>1, <3>2
  <2>6. CASE /\ \A kind \in {"participant", "record", "discontinuity"} : ~ IsOf(b, kind, s, p)
             /\ ~ (b.kind = "sessionEnd" /\ b.sid = s)
    <3>1. At(d, s, p) = At(c, s, p)
      BY <2>0, <2>6, Zenon DEF Turns
    <3>2. (s \in c.live => s \in d.live) /\ (s \notin d.ended => s \notin c.ended)
      BY <1>4, <2>6
    <3>3. /\ \A kind \in {"participant", "record", "discontinuity"} :
                 OfStream(kind, s, p)' = OfStream(kind, s, p)
          /\ \A stream : StreamTold(s, p, stream) => StreamTold(s, p, stream)'
          /\ \A stream : LastTold(s, p, stream) => LastTold(s, p, stream)'
      BY <1>3, <2>6, StreamUnmoved
    <3> QED BY <2>1, <3>1, <3>2, <3>3
  <2> QED BY <2>2, <2>3, <2>4, <2>5, <2>6
<1> QED BY <1>1, <1>6, <1>7 DEF StreamsTold

-------------------------------------------------------------------------------
(* The sessions that ended *)

\* A stream the checker holds is bad, and hands its seams over, as the index says.
LEMMA StreamJudged ==
    ASSUME NEW s, NEW p, NEW stream \in StreamType, StreamTold(s, p, stream)
    PROVE  /\ BadStream(stream) <=> BadIn(s, p)
           /\ CandidatesOf(stream) = HeldSeams(s, p)
<1>1. /\ stream.layers \subseteq {"transport", "decoded", "undefined"}
      /\ stream # None
  BY NoStreamAssumption DEF StreamType
<1>2. PICK layers : layers = stream.layers /\ layers = LayersOf(s, p)
  BY DEF StreamTold
<1>3. layers \in {{}, {"transport"}} <=> "decoded" \notin layers /\ "undefined" \notin layers
  BY <1>1, <1>2
<1>4. PICK D : D = OfStream("discontinuity", s, p) /\ (stream.broken <=> D # {})
  BY DEF StreamTold
<1>5. (stream.copied /\ stream.anchored) <=> \E i, j \in OfStream("record", s, p) : Copied(i) /\ Filed(j).seq # None
  BY Zenon DEF StreamTold
<1>6. BadStream(stream) <=>
         \/ Cardinality(layers) > 1 \/ "undefined" \in layers
         \/ D # {} /\ layers \in {{}, {"transport"}}
         \/ stream.copied /\ stream.anchored
  BY <1>2, <1>3, <1>4 DEF BadStream
<1>7. BadIn(s, p) <=>
         \/ Cardinality(layers) > 1 \/ "undefined" \in layers
         \/ layers \in {{}, {"transport"}} /\ D # {}
         \/ stream.copied /\ stream.anchored
  BY <1>2, <1>4, <1>5 DEF BadIn
<1>8. CandidatesOf(stream) = HeldSeams(s, p)
  <2>1. CandidatesOf(stream) = IF "decoded" \in LayersOf(s, p) /\ ~ Units(s, p) THEN SeamsOf(s, p) ELSE {}
    BY <1>1 DEF CandidatesOf, StreamTold
  <2> QED BY <2>1 DEF HeldSeams
<1> QED BY <1>6, <1>7, <1>8

\* A stream of which nothing is filed is neither.
LEMMA NothingJudged ==
    ASSUME NEW s, NEW p, OfStream("record", s, p) = {}, OfStream("discontinuity", s, p) = {}
    PROVE  ~ BadIn(s, p) /\ HeldSeams(s, p) = {}
<1>1. LayersOf(s, p) = {}
  BY DEF LayersOf
<1>2. Cardinality({}) = 0
  BY FS_EmptySet
<1> QED BY <1>1, <1>2 DEF BadIn, HeldSeams

LEMMA EndsFollow ==
    ASSUME TypeOK, StreamsTold, EndsTold, NamesKnown, NEW b \in BlockType, Admit(b), NEW n, FiledAt(n, b)
    PROVE  EndsTold'
<1>0. PICK c \in CheckerType : c = checker
  BY DEF TypeOK
<1>1. PICK d : c = checker /\ d = checker' /\ d = Absorbed(c, b) /\ ~ Refuses(c, b)
  BY <1>0 DEF Admit
<1>2. Declares(c, b, d) /\ Follows(c, b, d)
  BY <1>1, Absorption, AbsorbedFollows
<1>3. LayersStay
  BY LayersStayed
<1>4. /\ d.ended = IF b.kind = "sessionEnd" THEN c.ended \cup {b.sid} ELSE c.ended
      /\ c.live \cap c.ended = {} /\ c.ended \subseteq Sids
  BY <1>1, <1>2, Zenon DEF Declares, StreamsTold, CheckerType
<1>5. ASSUME NEW s, NEW p, s \in c.ended \/ b.kind = "sessionEnd"
      PROVE  HeldSeams(s, p)' = HeldSeams(s, p) /\ (BadIn(s, p)' <=> BadIn(s, p))
  <2>1. b.kind \in {"participant", "record", "discontinuity"} => b.sid \in c.live
    BY <1>1 DEF Refuses, Declared, Live
  <2>2. \A kind \in {"participant", "record", "discontinuity"} : ~ IsOf(b, kind, s, p)
    BY <1>4, <1>5, <2>1 DEF IsOf
  <2> QED BY <1>3, <2>2, StreamUnmoved
<1>6. CASE b.kind # "sessionEnd"
  <2>1. d.ended = c.ended /\ d.breaks = c.breaks
    BY <1>2, <1>4, <1>6, Zenon DEF Follows
  <2>2. UNION { UNION { HeldSeams(s, p)' : p \in Pids } : s \in c.ended }
          = UNION { UNION { HeldSeams(s, p) : p \in Pids } : s \in c.ended }
    BY <1>5
  <2> QED BY <1>1, <1>5, <2>1, <2>2 DEF EndsTold
<1>7. CASE b.kind = "sessionEnd"
  <2>1. b.sid \in Sids /\ b.sid \in c.live /\ BadStreams(c, b.sid) = {}
    BY <1>1, <1>7, OtherBlock DEF Refuses, Live
  <2>2. ASSUME NEW p \in Pids
        PROVE  ~ BadIn(b.sid, p) /\ HeldSeams(b.sid, p) = CandidatesOf(At(c, b.sid, p))
    <3>1. CASE At(c, b.sid, p) = None
      <4>1. b.sid \notin c.ended
        BY <1>4, <2>1
      <4>2. OfStream("record", b.sid, p) = {} /\ OfStream("discontinuity", b.sid, p) = {}
        BY <1>1, <2>1, <3>1, <4>1 DEF StreamsTold
      <4>3. CandidatesOf(At(c, b.sid, p)) = {}
        BY <3>1 DEF CandidatesOf
      <4> QED BY <4>2, <4>3, NothingJudged
    <3>2. CASE At(c, b.sid, p) # None
      <4>1. PICK stream \in StreamType : stream = At(c, b.sid, p)
        BY <2>1, <3>2 DEF At, CheckerType
      <4>2. StreamTold(b.sid, p, stream)
        BY <1>1, <2>1, <3>2, <4>1 DEF StreamsTold
      <4>3. ~ BadStream(stream)
        BY <2>1, <3>2, <4>1 DEF BadStreams, StreamsOf, At
      <4> QED BY <4>1, <4>2, <4>3, StreamJudged
    <3> QED BY <3>1, <3>2
  <2>3. d.ended = c.ended \cup {b.sid}
    BY <1>4, <1>7
  <2>4. d.breaks = c.breaks \cup UNION { CandidatesOf(At(c, b.sid, p)) : p \in Pids }
    BY <1>2, <1>7, Zenon DEF Follows, At
  <2>5. c.breaks = UNION { UNION { HeldSeams(s, p) : p \in Pids } : s \in c.ended }
    BY <1>1 DEF EndsTold
  <2>6. UNION { CandidatesOf(At(c, b.sid, p)) : p \in Pids } = UNION { HeldSeams(b.sid, p) : p \in Pids }
    BY <2>2
  <2>7. UNION { UNION { HeldSeams(s, p)' : p \in Pids } : s \in d.ended }
          = UNION { UNION { HeldSeams(s, p) : p \in Pids } : s \in d.ended }
    <3>1. \A s, p : HeldSeams(s, p)' = HeldSeams(s, p)
      BY <1>5, <1>7
    <3> QED BY <3>1
  <2>8. d.breaks = UNION { UNION { HeldSeams(s, p) : p \in Pids } : s \in d.ended }
    BY <2>3, <2>4, <2>5, <2>6
  <2>9. \A s \in d.ended, p \in Pids : ~ BadIn(s, p)'
    <3>1. \A s \in c.ended, p \in Pids : ~ BadIn(s, p)
      BY <1>1 DEF EndsTold
    <3> QED BY <1>5, <1>7, <2>2, <2>3, <3>1
  <2> QED BY <1>1, <2>7, <2>8, <2>9 DEF EndsTold
<1> QED BY <1>6, <1>7

-------------------------------------------------------------------------------
(* The names, the regions and the lengths *)

\* What was declared is declared once.
LEMMA NamesStay ==
    ASSUME TypeOK, NEW b \in BlockType, Admit(b)
    PROVE  /\ \A id \in SourceIds : checker.sources[id] # None => checker'.sources[id] = checker.sources[id]
           /\ \A id \in DecoderIds : checker.decoders[id] # None => checker'.decoders[id] = checker.decoders[id]
<1>0. PICK c \in CheckerType : c = checker
  BY DEF TypeOK
<1>1. PICK d : c = checker /\ d = checker' /\ d = Absorbed(c, b) /\ ~ Refuses(c, b)
  BY <1>0 DEF Admit
<1>2. Declares(c, b, d)
  BY <1>1, Absorption
<1>3. /\ b.kind = "source" => c.sources[b.id] = None
      /\ b.kind = "decoder" => c.decoders[b.id] = None
  BY <1>1 DEF Refuses
<1>4. ASSUME NEW id \in SourceIds, c.sources[id] # None PROVE d.sources[id] = c.sources[id]
  BY <1>2, <1>3, <1>4 DEF Declares, CheckerType
<1>5. ASSUME NEW id \in DecoderIds, c.decoders[id] # None PROVE d.decoders[id] = c.decoders[id]
  BY <1>2, <1>3, <1>5 DEF Declares, CheckerType
<1> QED BY <1>1, <1>4, <1>5

LEMMA NamesFollow ==
    ASSUME TypeOK, NamesKnown, NEW b \in BlockType, Admit(b), NEW n, FiledAt(n, b)
    PROVE  NamesKnown'
<1>0. PICK c \in CheckerType : c = checker
  BY DEF TypeOK
<1>1. PICK d : c = checker /\ d = checker' /\ d = Absorbed(c, b) /\ ~ Refuses(c, b)
  BY <1>0 DEF Admit
<1>2. /\ \A id \in SourceIds : c.sources[id] # None => d.sources[id] = c.sources[id]
      /\ \A id \in DecoderIds : c.decoders[id] # None => d.decoders[id] = c.decoders[id]
  BY <1>1, NamesStay
<1>3. ASSUME NEW r \in BlockType, r.kind = "record",
             \A x \in r.spans : c.sources[x.source] = "zpf",
             r.decoder # None => c.decoders[r.decoder] # None
      PROVE  /\ \A x \in r.spans : d.sources[x.source] = "zpf"
             /\ r.decoder # None => d.decoders[r.decoder] # None
  <2>1. r.decoder \in DecoderIds \cup {None} /\ \A x \in r.spans : x.source \in SourceIds
    BY <1>3, RecordBlock DEF SpanType
  <2>2. "zpf" # None
    BY IdsAssumption
  <2> QED BY <1>2, <1>3, <2>1, <2>2
<1>4. ASSUME NEW i \in Of("record")
      PROVE  /\ \A x \in Filed(i)'.spans : d.sources[x.source] = "zpf"
             /\ Filed(i)'.decoder # None => d.decoders[Filed(i)'.decoder] # None
  <2>1. Filed(i)' = Filed(i) /\ Filed(i) \in BlockType /\ Filed(i).kind = "record"
    BY FiledIsBlock DEF FiledAt, Of
  <2>2. PICK r \in BlockType : r = Filed(i) /\ r.kind = "record"
    BY <2>1
  <2>3. /\ \A x \in r.spans : c.sources[x.source] = "zpf"
        /\ r.decoder # None => c.decoders[r.decoder] # None
    BY <1>1, <2>2 DEF NamesKnown
  <2> QED BY <1>3, <2>1, <2>2, <2>3
<1>5. ASSUME b.kind = "record"
      PROVE  /\ \A x \in b.spans : d.sources[x.source] = "zpf"
             /\ b.decoder # None => d.decoders[b.decoder] # None
  <2>1. /\ \A x \in b.spans : c.sources[x.source] = "zpf"
        /\ b.decoder # None => c.decoders[b.decoder] # None
    BY <1>1, <1>5 DEF Refuses, BadRecordEarly, BadRecordLate, UnknownDecoder
  <2> QED BY <1>3, <1>5, <2>1
<1>6. Filed(n)' = b /\ Of("record")' = Of("record") \cup (IF b.kind = "record" THEN {n} ELSE {})
  BY DEF FiledAt
<1> QED BY <1>1, <1>4, <1>5, <1>6 DEF NamesKnown

LEMMA RegionsFollow ==
    ASSUME TypeOK, MarksTied, RegionsTold, NEW b \in BlockType, Admit(b), NEW n, FiledAt(n, b)
    PROVE  RegionsTold'
<1>0. PICK c \in CheckerType : c = checker
  BY DEF TypeOK
<1>1. PICK d : c = checker /\ d = checker' /\ d = Absorbed(c, b) /\ ~ Refuses(c, b)
  BY <1>0 DEF Admit
<1>2. Declares(c, b, d) /\ Follows(c, b, d)
  BY <1>1, Absorption, AbsorbedFollows
<1>3. PICK U : U = Of("undecoded") /\ Of("undecoded")' = U \cup (IF b.kind = "undecoded" THEN {n} ELSE {})
  BY DEF FiledAt
<1>4. n \notin U /\ Filed(n)' = b /\ \A i \in U : Filed(i)' = Filed(i)
  BY <1>3 DEF FiledAt
<1>5. ASSUME NEW i \in U PROVE Loses(d, Filed(i)) <=> Loses(c, Filed(i))
  <2>1. Filed(i) \in BlockType /\ Filed(i).kind = "undecoded"
    BY <1>3, FiledIsBlock DEF Of
  <2>2. Filed(i).source \in SourceIds
    BY <2>1, OtherBlock
  <2>3. c.sources[Filed(i).source] # None
    BY <1>1, <1>3 DEF MarksTied
  <2>4. d.sources[Filed(i).source] = c.sources[Filed(i).source]
    BY <1>1, <2>2, <2>3, NamesStay
  <2> QED BY <2>4 DEF Loses
<1>6. b.kind = "undecoded" => (Loses(d, b) <=> Loses(c, b))
  <2>1. b.kind = "undecoded" => d.sources = c.sources
    BY <1>2, Zenon DEF Declares
  <2> QED BY <2>1 DEF Loses
<1>7. d.holes \cup d.removed = (c.holes \cup c.removed) \cup
         (IF b.kind = "undecoded" /\ Loses(c, b) THEN {RegionOf(b)} ELSE {})
  BY <1>2, Zenon DEF Follows
<1>8. c.holes \cup c.removed = { RegionOf(Filed(i)) : i \in { j \in U : Loses(c, Filed(j)) } }
  BY <1>1, <1>3 DEF RegionsTold
<1>9. PICK V : V = U \cup (IF b.kind = "undecoded" THEN {n} ELSE {}) /\ V = Of("undecoded")'
  BY <1>3
<1>10. ASSUME NEW r
       PROVE  r \in { RegionOf(Filed(i)') : i \in { j \in V : Loses(d, Filed(j)') } }
                 <=> r \in d.holes \cup d.removed
  <2>1. r \in d.holes \cup d.removed <=>
           \/ \E i \in U : Loses(c, Filed(i)) /\ r = RegionOf(Filed(i))
           \/ b.kind = "undecoded" /\ Loses(c, b) /\ r = RegionOf(b)
    BY <1>7, <1>8
  <2>2. r \in { RegionOf(Filed(i)') : i \in { j \in V : Loses(d, Filed(j)') } } <=>
           \E i \in V : Loses(d, Filed(i)') /\ r = RegionOf(Filed(i)')
    OBVIOUS
  <2>3. ASSUME NEW i \in V, Loses(d, Filed(i)'), r = RegionOf(Filed(i)')
        PROVE  \/ \E j \in U : Loses(c, Filed(j)) /\ r = RegionOf(Filed(j))
               \/ b.kind = "undecoded" /\ Loses(c, b) /\ r = RegionOf(b)
    <3>1. CASE i \in U
      BY <1>4, <1>5, <2>3, <3>1
    <3>2. CASE i \notin U
      <4>1. i = n /\ b.kind = "undecoded"
        BY <1>9, <3>2
      <4> QED BY <1>4, <1>6, <2>3, <4>1
    <3> QED BY <3>1, <3>2
  <2>4. ASSUME NEW i \in U, Loses(c, Filed(i)), r = RegionOf(Filed(i))
        PROVE  \E j \in V : Loses(d, Filed(j)') /\ r = RegionOf(Filed(j)')
    BY <1>4, <1>5, <1>9, <2>4
  <2>5. ASSUME b.kind = "undecoded", Loses(c, b), r = RegionOf(b)
        PROVE  \E j \in V : Loses(d, Filed(j)') /\ r = RegionOf(Filed(j)')
    BY <1>4, <1>6, <1>9, <2>5
  <2> QED BY <2>1, <2>2, <2>3, <2>4, <2>5
<1> QED BY <1>1, <1>9, <1>10 DEF RegionsTold

LEMMA LengthsFollow ==
    ASSUME TypeOK, CheckerTied, checker.live \cap checker.ended = {}, LengthsTold,
           NEW b \in BlockType, Admit(b), NEW n, FiledAt(n, b)
    PROVE  LengthsTold'
<1>0. PICK c \in CheckerType : c = checker
  BY DEF TypeOK
<1>1. PICK d : c = checker /\ d = checker' /\ d = Absorbed(c, b) /\ ~ Refuses(c, b)
  BY <1>0 DEF Admit
<1>2. d.ended = IF b.kind = "sessionEnd" THEN c.ended \cup {b.sid} ELSE c.ended
  <2>1. Declares(c, b, d)
    BY <1>1, Absorption
  <2> QED BY <2>1, Zenon DEF Declares
<1>3. \A k \in Keys, s \in Sids :
         d.coverage[k].declared[s] =
            IF b.kind = "sessionEnd" /\ b.sid = s THEN DeclaredBy(b, k, c.coverage[k].declared[s])
            ELSE c.coverage[k].declared[s]
  BY <1>1, AbsorbedDeclares
<1>4. PICK E, F : /\ E = Of("sessionEnd") /\ F = Of("sessionEnd")'
                  /\ F = E \cup (IF b.kind = "sessionEnd" THEN {n} ELSE {})
  BY DEF FiledAt
<1>5. Filed(n)' = b /\ \A i \in E : Filed(i)' = Filed(i)
  BY <1>4 DEF FiledAt
<1>6. b.kind = "sessionEnd" => b.sid \in c.live /\ b.sid \in Sids /\ b.sid \notin c.ended
  BY <1>1, OtherBlock DEF Refuses, Live
<1>7. \A i \in E : Filed(i).sid \in c.ended /\ Filed(i).sid \in Sids
  BY <1>1, <1>4 DEF CheckerTied, CheckerType
<1>8. /\ \A s \in c.ended : \E i \in E : Filed(i).sid = s
      /\ \A i \in E, k \in Keys : c.coverage[k].declared[Filed(i).sid] = DeclaredBy(Filed(i), k, None)
      /\ \A s \in Sids \ c.ended, k \in Keys : c.coverage[k].declared[s] = None
  BY <1>1, <1>4 DEF LengthsTold
<1>9. \A s \in d.ended : \E i \in F : Filed(i)'.sid = s
  <2>1. \A s \in c.ended : \E i \in F : Filed(i)'.sid = s
    BY <1>4, <1>5, <1>8
  <2>2. b.kind = "sessionEnd" => n \in F /\ Filed(n)'.sid = b.sid
    BY <1>4, <1>5
  <2> QED BY <1>2, <2>1, <2>2
<1>10. ASSUME NEW i \in F, NEW k \in Keys
       PROVE  d.coverage[k].declared[Filed(i)'.sid] = DeclaredBy(Filed(i)', k, None)
  <2>1. CASE i \in E
    <3>1. PICK s \in Sids : s = Filed(i).sid /\ s \in c.ended
      BY <1>7, <2>1
    <3>2. d.coverage[k].declared[s] = c.coverage[k].declared[s]
      BY <1>3, <1>6, <3>1
    <3>3. c.coverage[k].declared[s] = DeclaredBy(Filed(i), k, None)
      BY <1>8, <2>1, <3>1
    <3>4. Filed(i)' = Filed(i)
      BY <1>5, <2>1
    <3> QED BY <3>1, <3>2, <3>3, <3>4
  <2>2. CASE i \notin E
    <3>1. i = n /\ b.kind = "sessionEnd" /\ Filed(i)' = b
      BY <1>4, <1>5, <2>2
    <3>2. PICK s \in Sids : s = b.sid /\ s \notin c.ended
      BY <1>6, <3>1
    <3>3. c.coverage[k].declared[s] = None
      BY <1>8, <3>2
    <3>4. d.coverage[k].declared[s] = DeclaredBy(b, k, None)
      BY <1>3, <3>1, <3>2, <3>3
    <3> QED BY <3>1, <3>2, <3>4
  <2> QED BY <2>1, <2>2
<1>11. ASSUME NEW s \in Sids \ d.ended, NEW k \in Keys PROVE d.coverage[k].declared[s] = None
  <2>1. s \notin c.ended /\ ~ (b.kind = "sessionEnd" /\ b.sid = s)
    BY <1>2
  <2> QED BY <1>3, <1>8, <2>1
<1> QED BY <1>1, <1>4, <1>9, <1>10, <1>11 DEF LengthsTold

-------------------------------------------------------------------------------
(* A strict reader *)

\* No stream has reported its units, and no record filed would have it do so.
Silent ==
    /\ \A s \in Sids, p \in Pids : At(checker, s, p) # None => At(checker, s, p).reported = FALSE
    /\ \A i \in Of("record") : /\ Filed(i).label => Layer(i) = "decoded"
                               /\ Units(Filed(i).sid, Filed(i).pid) => Layer(i) # "transport"

LEMMA SilentFollows ==
    ASSUME TypeOK, StreamsTold, NamesKnown, Silent, NEW b \in BlockType, Admit(b), ~ Advises(checker, b),
           NEW n, FiledAt(n, b)
    PROVE  Silent'
<1>0. PICK c \in CheckerType : c = checker
  BY DEF TypeOK
<1>1. PICK d : c = checker /\ d = checker' /\ d = Absorbed(c, b) /\ ~ Refuses(c, b)
  BY <1>0 DEF Admit
<1>2. Declares(c, b, d) /\ Follows(c, b, d)
  BY <1>1, Absorption, AbsorbedFollows
<1>3. LayersStay
  BY LayersStayed
<1>4. ASSUME b.kind = "record"
      PROVE  /\ Declared(c, b) /\ HeldBy(c, b) # None /\ b.sid \in Sids /\ b.pid \in Pids
             /\ HeldBy(c, b).reported = FALSE
             /\ ~ ReportsUnits(c, HeldBy(c, b), b)
             /\ b.label => LayerOf(c, b) = "decoded"
  <2>1. Declared(c, b) /\ b.sid \in Sids /\ b.pid \in Pids
    BY <1>1, <1>4, RecordBlock DEF Refuses
  <2>2. HeldBy(c, b) # None /\ HeldBy(c, b) = At(c, b.sid, b.pid)
    BY <2>1 DEF Declared, HeldBy, At
  <2>3. HeldBy(c, b).reported = FALSE
    BY <1>1, <2>1, <2>2 DEF Silent
  <2>4. ~ ReportsUnits(c, HeldBy(c, b), b) /\ (b.label => LayerOf(c, b) = "decoded")
    BY <1>1, <1>4, <2>1 DEF Advises, HeldBy
  <2> QED BY <2>1, <2>2, <2>3, <2>4
<1>5. ASSUME NEW s \in Sids, NEW p \in Pids, At(d, s, p) # None
      PROVE  At(d, s, p).reported = FALSE
  <2>0. Turns(c, b, d, s, p)
    <3>1. c \in CheckerType /\ ~ Refuses(c, b) /\ Follows(c, b, d)
      BY <1>1, <1>2
    <3> QED BY <3>1, StreamFollows
  <2>1. CASE IsOf(b, "participant", s, p)
    <3>1. At(d, s, p) = NewStream(b.isn, b.adjacency)
      BY <2>0, <2>1, Zenon DEF Turns
    <3> QED BY <3>1 DEF NewStream
  <2>2. CASE IsOf(b, "record", s, p)
    <3>1. b.kind = "record"
      BY <2>2 DEF IsOf
    <3>2. Moves(c, b, HeldBy(c, b), StreamAfter(c, b))
      BY <1>4, <3>1, StreamMoves
    <3>3. StreamAfter(c, b).reported = FALSE
      BY <1>4, <3>1, <3>2, Zenon DEF Moves
    <3>4. At(d, s, p) = StreamAfter(c, b)
      BY <2>0, <2>2, Zenon DEF Turns
    <3> QED BY <3>3, <3>4
  <2>3. CASE IsOf(b, "discontinuity", s, p)
    <3>1. Declared(c, b)
      BY <1>1, <2>3 DEF Refuses, IsOf
    <3>2. PICK stream \in StreamType : stream = At(c, s, p)
      BY <2>3, <3>1 DEF Declared, Live, IsOf, At, CheckerType
    <3>3. stream.reported = FALSE
      BY <1>1, <3>2, NoStreamAssumption DEF Silent
    <3>4. At(d, s, p) = [stream EXCEPT !.broken = TRUE, !.brokeSince = TRUE]
      BY <2>0, <2>3, <3>2, Zenon DEF Turns
    <3> QED BY <3>3, <3>4 DEF StreamType
  <2>4. CASE b.kind = "sessionEnd" /\ b.sid = s
    BY <1>5, <2>0, <2>4, Zenon DEF Turns
  <2>5. CASE /\ \A kind \in {"participant", "record", "discontinuity"} : ~ IsOf(b, kind, s, p)
             /\ ~ (b.kind = "sessionEnd" /\ b.sid = s)
    <3>1. At(d, s, p) = At(c, s, p)
      BY <2>0, <2>5, Zenon DEF Turns
    <3> QED BY <1>1, <1>5, <3>1 DEF Silent
  <2> QED BY <2>1, <2>2, <2>3, <2>4, <2>5
<1>6. Filed(n)' = b /\ Of("record")' = Of("record") \cup (IF b.kind = "record" THEN {n} ELSE {})
  BY DEF FiledAt
<1>7. ASSUME NEW i \in Of("record")
      PROVE  /\ Filed(i)'.label => Layer(i)' = "decoded"
             /\ Units(Filed(i).sid, Filed(i).pid)' => Layer(i)' # "transport"
  <2>1. Filed(i)' = Filed(i) /\ Filed(i) \in BlockType /\ Filed(i).kind = "record"
    BY FiledIsBlock DEF FiledAt, Of
  <2>2. Layer(i)' = Layer(i)
    <3>1. LayerOf(checker', Filed(i)) = Layer(i)
      BY <1>3 DEF LayersStay
    <3> QED BY <2>1, <3>1 DEF Layer
  <2>3. PICK s \in Sids, p \in Pids : s = Filed(i).sid /\ p = Filed(i).pid
    BY <2>1, RecordBlock
  <2>4. Units(s, p)' => Units(s, p)
    <3>1. /\ OfStream("participant", s, p) \subseteq OfStream("participant", s, p)'
          /\ \A j \in OfStream("participant", s, p) : Filed(j)' = Filed(j)
      BY StreamGrows
    <3> QED BY <3>1 DEF Units
  <2>5. /\ Filed(i).label => Layer(i) = "decoded"
        /\ Units(s, p) => Layer(i) # "transport"
    BY <2>3 DEF Silent
  <2>6. Units(Filed(i).sid, Filed(i).pid)' <=> Units(s, p)'
    BY <2>1, <2>3
  <2> QED BY <2>1, <2>2, <2>4, <2>5, <2>6
<1>8. ASSUME b.kind = "record"
      PROVE  /\ b.label => Layer(n)' = "decoded"
             /\ Units(b.sid, b.pid)' => Layer(n)' # "transport"
  <2>1. d.decoders = c.decoders
    BY <1>2, <1>8, Zenon DEF Declares
  <2>2. Layer(n)' = LayerOf(c, b)
    BY <1>1, <1>6, <2>1 DEF Layer, LayerOf
  <2>3. PICK stream \in StreamType : stream = HeldBy(c, b)
    BY <1>4, <1>8 DEF HeldBy, CheckerType
  <2>4. StreamTold(b.sid, b.pid, stream)
    <3>1. At(checker, b.sid, b.pid) = stream /\ stream # None
      BY <1>1, <1>4, <1>8, <2>3 DEF HeldBy, At
    <3> QED BY <1>4, <1>8, <3>1 DEF StreamsTold
  <2>5. Units(b.sid, b.pid)' => Units(b.sid, b.pid)
    <3>1. /\ OfStream("participant", b.sid, b.pid) \subseteq OfStream("participant", b.sid, b.pid)'
          /\ \A j \in OfStream("participant", b.sid, b.pid) : Filed(j)' = Filed(j)
      BY StreamGrows
    <3> QED BY <3>1 DEF Units
  <2>6. Units(b.sid, b.pid) => stream.adjacency = "units"
    BY <2>4 DEF StreamTold
  <2>7. stream.adjacency = "units" => LayerOf(c, b) # "transport"
    BY <1>4, <1>8, <2>3 DEF ReportsUnits
  <2> QED BY <1>4, <1>8, <2>2, <2>5, <2>6, <2>7
<1>9. ASSUME NEW i \in Of("record")'
      PROVE  /\ Filed(i)'.label => Layer(i)' = "decoded"
             /\ Units(Filed(i).sid, Filed(i).pid)' => Layer(i)' # "transport"
  <2>1. CASE i \in Of("record")
    BY <1>7, <2>1
  <2>2. CASE i \notin Of("record")
    <3>1. i = n /\ b.kind = "record"
      BY <1>6, <2>2
    <3> QED BY <1>6, <1>8, <3>1
  <2> QED BY <2>1, <2>2
<1> QED BY <1>1, <1>5, <1>9 DEF Silent

-------------------------------------------------------------------------------
(* The verdict *)

\* What the checker remembers of the file is what the index says, of every part.
Faithful == StreamsTold /\ EndsTold /\ NamesKnown /\ RegionsTold /\ LengthsTold

LEMMA StreamVerdict ==
    ASSUME TypeOK, StreamsTold, EndsTold, NEW s \in Sids, NEW p \in Pids
    PROVE  /\ BadIn(s, p) <=> s \in checker.live /\ p \in BadStreams(checker, s)
           /\ HeldSeams(s, p) =
                 IF s \in checker.ended THEN HeldSeams(s, p)
                 ELSE IF s \in checker.live THEN CandidatesOf(At(checker, s, p)) ELSE {}
<1>1. PICK c \in CheckerType : c = checker
  BY DEF TypeOK
<1>2. c.live \cap c.ended = {}
  BY <1>1 DEF StreamsTold
<1>3. CASE s \in c.ended
  <2>1. ~ BadIn(s, p)
    BY <1>1, <1>3 DEF EndsTold
  <2> QED BY <1>1, <1>2, <1>3, <2>1
<1>4. CASE s \notin c.ended /\ At(c, s, p) = None
  <2>1. OfStream("record", s, p) = {} /\ OfStream("discontinuity", s, p) = {}
    BY <1>1, <1>4 DEF StreamsTold
  <2>2. ~ BadIn(s, p) /\ HeldSeams(s, p) = {}
    BY <2>1, NothingJudged
  <2>3. p \notin BadStreams(c, s) /\ CandidatesOf(At(c, s, p)) = {}
    BY <1>4 DEF BadStreams, StreamsOf, At, CandidatesOf
  <2> QED BY <1>1, <1>4, <2>2, <2>3
<1>5. CASE s \notin c.ended /\ At(c, s, p) # None
  <2>1. PICK stream \in StreamType : stream = At(c, s, p)
    BY <1>5 DEF At, CheckerType
  <2>2. s \in c.live /\ StreamTold(s, p, stream)
    BY <1>1, <1>5, <2>1 DEF StreamsTold
  <2>3. (BadStream(stream) <=> BadIn(s, p)) /\ CandidatesOf(stream) = HeldSeams(s, p)
    BY <2>2, StreamJudged
  <2>4. p \in BadStreams(c, s) <=> BadStream(stream)
    BY <1>5, <2>1 DEF BadStreams, StreamsOf, At
  <2> QED BY <1>1, <1>5, <2>1, <2>2, <2>3, <2>4
<1> QED BY <1>3, <1>4, <1>5

LEMMA BadVerdict ==
    ASSUME TypeOK, StreamsTold, EndsTold
    PROVE  (\E s \in checker.live : BadStreams(checker, s) # {}) <=> BadStreamInFile
<1>1. BadStreamInFile <=> \E s \in Sids, p \in Pids : BadIn(s, p)
  BY Zenon DEF BadStreamInFile, BadIn, Copied
<1>2. checker.live \subseteq Sids
  BY DEF TypeOK, CheckerType
<1>3. \A s : BadStreams(checker, s) \subseteq Pids
  BY DEF BadStreams, StreamsOf
<1>4. \A s \in Sids, p \in Pids : BadIn(s, p) <=> s \in checker.live /\ p \in BadStreams(checker, s)
  BY StreamVerdict
<1> QED BY <1>1, <1>2, <1>3, <1>4

\* The seams the end of the file is judged by are those of every stream.
LEMMA SeamVerdict ==
    ASSUME TypeOK, StreamsTold, EndsTold, NEW r
    PROVE  r \in checker.breaks \cup UNION { UNION { CandidatesOf(At(checker, s, p)) : p \in Pids } : s \in checker.live }
              <=> \E s \in Sids, p \in Pids : r \in HeldSeams(s, p)
<1>1. checker.live \subseteq Sids /\ checker.ended \subseteq Sids /\ checker.live \cap checker.ended = {}
  BY DEF TypeOK, CheckerType, StreamsTold
<1>2. r \in checker.breaks <=> \E s \in checker.ended, p \in Pids : r \in HeldSeams(s, p)
  BY DEF EndsTold
<1>3. \A s \in Sids, p \in Pids :
         HeldSeams(s, p) =
            IF s \in checker.ended THEN HeldSeams(s, p)
            ELSE IF s \in checker.live THEN CandidatesOf(At(checker, s, p)) ELSE {}
  BY StreamVerdict
<1>4. r \in UNION { UNION { CandidatesOf(At(checker, s, p)) : p \in Pids } : s \in checker.live }
         <=> \E s \in checker.live, p \in Pids : r \in HeldSeams(s, p)
  <2>1. \A s \in checker.live, p \in Pids : CandidatesOf(At(checker, s, p)) = HeldSeams(s, p)
    BY <1>1, <1>3
  <2> QED BY <2>1
<1>5. \A s \in Sids, p \in Pids : r \in HeldSeams(s, p) => s \in checker.ended \/ s \in checker.live
  BY <1>3
<1> QED BY <1>1, <1>2, <1>4, <1>5

\* Two ranges of offsets that are not empty meet where neither ends before the other.
LEMMA SpansMeet ==
    ASSUME NEW x \in Nat, NEW y \in Nat, NEW u \in Nat, NEW v \in Nat
    PROVE  Span(x, y) \cap Span(u, v) # {} <=> x < y /\ u < v /\ u < y /\ x < v
<1>1. ASSUME x < y, u < v, u < y, x < v PROVE Span(x, y) \cap Span(u, v) # {}
  <2>1. CASE x <= u
    <3>1. u \in Span(x, y) /\ u \in Span(u, v)
      BY <1>1, <2>1 DEF Span
    <3> QED BY <3>1
  <2>2. CASE u < x
    <3>1. x \in Span(x, y) /\ x \in Span(u, v)
      BY <1>1, <2>2 DEF Span
    <3> QED BY <3>1
  <2> QED BY <2>1, <2>2
<1>2. ASSUME NEW o \in Span(x, y), o \in Span(u, v) PROVE x < y /\ u < v /\ u < y /\ x < v
  BY <1>2 DEF Span
<1> QED BY <1>1, <1>2

\* What a seam leaves out is lost where a region straddles it.
LEMMA LostVerdict ==
    ASSUME TypeOK, NamesKnown, RegionsTold, NEW s, NEW p, NEW i, NEW j, NEW k, Joined(s, p, i, j, k)
    PROVE  LostBetween(i, j, k) <=>
              /\ SeamOf(i, j, k).start < SeamOf(i, j, k).end
              /\ \E region \in checker.holes \cup checker.removed : Straddles(SeamOf(i, j, k), region)
<1>1. /\ i \in Of("record") /\ j \in Of("record") /\ SpansOn(i, k) # {} /\ SpansOn(j, k) # {}
  BY DEF Joined, OfStream
<1>2. /\ Filed(i) \in BlockType /\ Filed(i).kind = "record"
      /\ Filed(j) \in BlockType /\ Filed(j).kind = "record"
  BY <1>1, FiledIsBlock DEF Of
<1>3. SpansOn(i, k) = SpansAt(Filed(i), k) /\ SpansOn(j, k) = SpansAt(Filed(j), k)
  BY DEF SpansOn, SpansAt
<1>4. PICK from \in Nat, to \in Nat :
         from = Max({ x.end : x \in SpansOn(i, k) }) /\ to = Min({ x.start : x \in SpansOn(j, k) })
  <2>1. Max({ x.end : x \in SpansAt(Filed(i), k) }) \in Nat
    BY <1>1, <1>2, <1>3, SpanBounds
  <2>2. Min({ x.start : x \in SpansAt(Filed(j), k) }) \in Nat
    BY <1>1, <1>2, <1>3, SpanBounds
  <2> QED BY <1>3, <2>1, <2>2
<1>5. PICK seam : seam = SeamOf(i, j, k) /\ seam.key = k /\ seam.start = from /\ seam.end = to
  <2>1. SeamOf(i, j, k) = [key |-> k, start |-> from, end |-> to]
    BY <1>4, Zenon DEF SeamOf
  <2> QED BY <2>1
<1>6. PICK x \in SpansOn(i, k) : k = <<x.source, x.input>> /\ checker.sources[x.source] = "zpf"
  <2>1. PICK x \in SpansOn(i, k) : TRUE
    BY <1>1
  <2>2. x \in Filed(i).spans /\ k = <<x.source, x.input>>
    BY DEF SpansOn
  <2>3. checker.sources[x.source] = "zpf"
    BY <1>1, <2>2 DEF NamesKnown
  <2> QED BY <2>2, <2>3
<1>7. ASSUME NEW u \in Of("undecoded")
      PROVE  (/\ <<Filed(u).source, Filed(u).input>> = k
              /\ ClassOf(Filed(u)) = "hole" \/ Filed(u).reason = "dropped"
              /\ Span(from, to) \cap Span(Filed(u).start, Filed(u).end) # {})
                <=> from < to /\ Loses(checker, Filed(u)) /\ Straddles(seam, RegionOf(Filed(u)))
  <2>1. PICK f : f = Filed(u) /\ f.start \in Nat /\ f.end \in Nat
    <3>1. Filed(u) \in BlockType /\ Filed(u).kind = "undecoded"
      BY FiledIsBlock DEF Of
    <3>2. Filed(u).start \in 0 .. MaxOffset /\ Filed(u).end \in 0 .. MaxOffset /\ MaxOffset \in Nat
      BY <3>1, OtherBlock, IdsAssumption
    <3> QED BY <3>2
  <2>2. Straddles(seam, RegionOf(f)) <=> k = <<f.source, f.input>> /\ f.start < to /\ from < f.end
    BY <1>5 DEF Straddles, RegionOf
  <2>3. k = <<f.source, f.input>> => checker.sources[f.source] = "zpf"
    BY <1>6
  <2>4. Span(from, to) \cap Span(f.start, f.end) # {}
           <=> from < to /\ f.start < f.end /\ f.start < to /\ from < f.end
    BY <2>1, SpansMeet
  <2> QED BY <2>1, <2>2, <2>3, <2>4 DEF Loses
<1>8. LostBetween(i, j, k) <=>
         \E u \in Of("undecoded") : from < to /\ Loses(checker, Filed(u)) /\ Straddles(seam, RegionOf(Filed(u)))
  <2>1. LostBetween(i, j, k) <=>
           \E u \in Of("undecoded") :
              /\ <<Filed(u).source, Filed(u).input>> = k
              /\ ClassOf(Filed(u)) = "hole" \/ Filed(u).reason = "dropped"
              /\ Span(from, to) \cap Span(Filed(u).start, Filed(u).end) # {}
    BY <1>1, <1>4 DEF LostBetween
  <2> QED BY <1>7, <2>1
<1>9. (\E region \in checker.holes \cup checker.removed : Straddles(seam, region)) <=>
         \E u \in Of("undecoded") : Loses(checker, Filed(u)) /\ Straddles(seam, RegionOf(Filed(u)))
  BY DEF RegionsTold
<1> QED BY <1>5, <1>8, <1>9

LEMMA BreakVerdict ==
    ASSUME TypeOK, Faithful
    PROVE  UnmarkedBreaks(checker) # {} <=> UnmarkedBreakInFile
<1> DEFINE Broken(seam) == \E region \in checker.holes \cup checker.removed : Straddles(seam, region)
<1>1. StreamsTold /\ EndsTold /\ NamesKnown /\ RegionsTold
  BY DEF Faithful
<1>2. UnmarkedBreaks(checker) # {} <=> \E s \in Sids, p \in Pids : \E r \in HeldSeams(s, p) : Broken(r)
  <2>1. PICK held : held = checker.breaks \cup UNION { UNION { CandidatesOf(At(checker, s, p)) : p \in Pids } : s \in checker.live }
    OBVIOUS
  <2>2. UnmarkedBreaks(checker) = { seam \in held : Broken(seam) }
    BY <2>1 DEF UnmarkedBreaks, At
  <2>3. \A r : r \in held <=> \E s \in Sids, p \in Pids : r \in HeldSeams(s, p)
    BY <1>1, <2>1, SeamVerdict
  <2> HIDE DEF Broken
  <2> QED BY <2>2, <2>3
<1>3. \A s, p, r : r \in HeldSeams(s, p) <=>
         /\ "decoded" \in LayersOf(s, p) /\ ~ Units(s, p)
         /\ \E i, j, k : Joined(s, p, i, j, k) /\ r = SeamOf(i, j, k) /\ r.start < r.end
  BY SeamMember DEF HeldSeams
<1>4. \A s, p, i, j, k : Joined(s, p, i, j, k) =>
         (LostBetween(i, j, k) <=> SeamOf(i, j, k).start < SeamOf(i, j, k).end /\ Broken(SeamOf(i, j, k)))
  BY <1>1, LostVerdict
<1> HIDE DEF Broken
<1>5. UnmarkedBreakInFile <=>
         \E s \in Sids, p \in Pids :
            /\ "decoded" \in LayersOf(s, p) /\ ~ Units(s, p)
            /\ \E i, j, k : Joined(s, p, i, j, k) /\ LostBetween(i, j, k)
  <2>1. ASSUME NEW s, NEW p, NEW i, NEW j, NEW k
        PROVE  Joined(s, p, i, j, k) /\ LostBetween(i, j, k) <=>
                  /\ i \in OfStream("record", s, p) /\ j \in OfStream("record", s, p) /\ k \in Keys
                  /\ Neighbours(OfStream("record", s, p), i, j)
                  /\ ~ BreakBetween(s, p, i, j)
                  /\ LostBetween(i, j, k)
    BY DEF Joined, LostBetween
  <2>2. UnmarkedBreakInFile <=>
           \E s \in Sids, p \in Pids :
              /\ "decoded" \in LayersOf(s, p) /\ ~ Units(s, p)
              /\ \E i, j \in OfStream("record", s, p) :
                    /\ Neighbours(OfStream("record", s, p), i, j)
                    /\ ~ BreakBetween(s, p, i, j)
                    /\ \E k \in Keys : LostBetween(i, j, k)
    BY Zenon DEF UnmarkedBreakInFile
  <2>3. ASSUME NEW s, NEW p
        PROVE  (\E i, j \in OfStream("record", s, p) :
                   /\ Neighbours(OfStream("record", s, p), i, j)
                   /\ ~ BreakBetween(s, p, i, j)
                   /\ \E k \in Keys : LostBetween(i, j, k))
                 <=> \E i, j, k : Joined(s, p, i, j, k) /\ LostBetween(i, j, k)
    BY <2>1, Zenon
  <2> QED BY <2>2, <2>3, Zenon
<1>6. ASSUME NEW s, NEW p
      PROVE  (\E r \in HeldSeams(s, p) : Broken(r)) <=>
                /\ "decoded" \in LayersOf(s, p) /\ ~ Units(s, p)
                /\ \E i, j, k : Joined(s, p, i, j, k) /\ LostBetween(i, j, k)
  BY <1>3, <1>4
<1> QED BY <1>2, <1>5, <1>6, Zenon

LEMMA CoverageVerdictOf ==
    ASSUME TypeOK, CoverageFromIndex, status # "raised", LengthsTold, CheckerTied, NEW k \in Keys
    PROVE  CoverageFault(checker.coverage[k]) <=>
              LET named    == CitedOf(k) \cup MarkedOf(k)
                  declared == { DeclaredBy(Filed(i), k, None) : i \in Of("sessionEnd") } \ {None}
              IN  \/ Cardinality(declared) > 1
                  \/ CitedOf(k) # {} /\ \E o \in named : \E hole \in Span(0, o) : hole \notin named
                  \/ \E extent \in declared :
                        \/ \E o \in named : o >= extent
                        \/ extent >= 2 /\ \A o \in named : o < extent - 2
<1>1. PICK ledger \in LedgerType : ledger = checker.coverage[k]
  BY DEF TypeOK, CheckerType
<1>2. PICK spans, named : /\ spans = ledger.spans /\ spans = CitedOf(k)
                          /\ named = ledger.spans \cup ledger.undecoded
                          /\ named = CitedOf(k) \cup MarkedOf(k)
  BY <1>1 DEF CoverageFromIndex
<1>3. PICK values : /\ values = { ledger.declared[s] : s \in Sids } \ {None}
                    /\ values = { DeclaredBy(Filed(i), k, None) : i \in Of("sessionEnd") } \ {None}
  <2>1. PICK E : E = Of("sessionEnd")
    OBVIOUS
  <2>2. \A i \in E : Filed(i).sid \in Sids
    BY <2>1 DEF CheckerTied, TypeOK, CheckerType
  <2>3. /\ \A s \in checker.ended : \E i \in E : Filed(i).sid = s
        /\ \A i \in E : ledger.declared[Filed(i).sid] = DeclaredBy(Filed(i), k, None)
        /\ \A s \in Sids \ checker.ended : ledger.declared[s] = None
    BY <1>1, <2>1 DEF LengthsTold
  <2>4. ASSUME NEW v, v # None
        PROVE  (\E s \in Sids : v = ledger.declared[s]) <=> \E i \in E : v = DeclaredBy(Filed(i), k, None)
    <3>1. ASSUME NEW s \in Sids, v = ledger.declared[s] PROVE \E i \in E : v = DeclaredBy(Filed(i), k, None)
      <4>1. s \in checker.ended
        BY <2>3, <2>4, <3>1
      <4>2. PICK i \in E : Filed(i).sid = s
        BY <2>3, <4>1
      <4> QED BY <2>3, <3>1, <4>2
    <3>2. ASSUME NEW i \in E, v = DeclaredBy(Filed(i), k, None) PROVE \E s \in Sids : v = ledger.declared[s]
      BY <2>2, <2>3, <3>2
    <3> QED BY <3>1, <3>2
  <2>5. { ledger.declared[s] : s \in Sids } \ {None} = { DeclaredBy(Filed(i), k, None) : i \in E } \ {None}
    BY <2>4
  <2> QED BY <2>1, <2>5
<1>4. values \subseteq Nat /\ spans \subseteq named
  BY <1>1, <1>2, <1>3 DEF LedgerType
<1>5. PICK n \in Nat : named \subseteq 0 .. n
  <2>1. MaxOffset \in Nat
    BY IdsAssumption
  <2>2. CitedOf(k) \subseteq 0 .. MaxOffset
    <3>1. ASSUME NEW i \in Of("record"), NEW x \in Filed(i).spans PROVE Span(x.start, x.end) \subseteq 0 .. MaxOffset
      <4>1. Filed(i) \in BlockType /\ Filed(i).kind = "record"
        BY FiledIsBlock DEF Of
      <4>2. x.start \in 0 .. MaxOffset /\ x.end \in 0 .. MaxOffset
        BY <4>1, RecordBlock DEF SpanType
      <4> QED BY <2>1, <4>2 DEF Span
    <3> QED BY <3>1 DEF CitedOf
  <2>3. MarkedOf(k) \subseteq 0 .. MaxOffset
    <3>1. ASSUME NEW i \in Of("undecoded") PROVE Span(Filed(i).start, Filed(i).end) \subseteq 0 .. MaxOffset
      <4>1. Filed(i) \in BlockType /\ Filed(i).kind = "undecoded"
        BY FiledIsBlock DEF Of
      <4>2. Filed(i).start \in 0 .. MaxOffset /\ Filed(i).end \in 0 .. MaxOffset
        BY <4>1, OtherBlock
      <4> QED BY <2>1, <4>2 DEF Span
    <3> QED BY <3>1 DEF MarkedOf
  <2> QED BY <1>2, <2>1, <2>2, <2>3
<1>6. CoverageFault(ledger) <=>
         LET reach == IF named = {} THEN 0 ELSE Max(named) + 1
         IN  \/ Cardinality(values) > 1
             \/ spans # {} /\ ~ (Span(0, reach) \subseteq named)
             \/ \E extent \in values : extent > reach + 1 \/ extent < reach
  BY <1>2, <1>3 DEF CoverageFault, Reached
<1>7. CASE named = {}
  <2>1. spans = {}
    BY <1>4, <1>7
  <2>2. \A extent \in values : (extent > 1 <=> extent >= 2) /\ ~ extent < 0
    BY <1>4
  <2>3. CoverageFault(ledger) <=>
           Cardinality(values) > 1 \/ \E extent \in values : extent > 0 + 1 \/ extent < 0
    BY <1>6, <1>7, <2>1
  <2>4. CoverageFault(ledger) <=>
           \/ Cardinality(values) > 1
           \/ spans # {} /\ \E o \in named : \E hole \in Span(0, o) : hole \notin named
           \/ \E extent \in values :
                 \/ \E o \in named : o >= extent
                 \/ extent >= 2 /\ \A o \in named : o < extent - 2
    BY <1>7, <2>1, <2>2, <2>3
  <2> QED BY <1>1, <1>2, <1>3, <2>4
<1>8. CASE named # {}
  <2>1. PICK most \in Nat : most = Max(named) /\ most \in named /\ \A o \in named : o \in Nat /\ o <= most
    <3>1. Max(named) \in named /\ \A o \in named : Max(named) >= o
      BY <1>5, <1>8, OffsetMost
    <3>2. named \subseteq Nat
      BY <1>5
    <3> QED BY <3>1, <3>2
  <2>2. (\E o \in named : \E hole \in Span(0, o) : hole \notin named) <=> ~ (Span(0, most + 1) \subseteq named)
    <3>1. ASSUME NEW o \in named, NEW hole \in Span(0, o), hole \notin named PROVE ~ (Span(0, most + 1) \subseteq named)
      <4>1. hole \in Span(0, most + 1)
        BY <2>1 DEF Span
      <4> QED BY <3>1, <4>1
    <3>2. ASSUME NEW hole \in Span(0, most + 1), hole \notin named
          PROVE  \E o \in named : \E h \in Span(0, o) : h \notin named
      <4>1. hole \in Span(0, most)
        BY <2>1, <3>2 DEF Span
      <4> QED BY <2>1, <3>2, <4>1
    <3> QED BY <3>1, <3>2
  <2>3. ASSUME NEW extent \in values
        PROVE  /\ extent < most + 1 <=> \E o \in named : o >= extent
               /\ extent > most + 1 + 1 <=> extent >= 2 /\ \A o \in named : o < extent - 2
    <3>1. extent \in Nat
      BY <1>4
    <3>2. extent < most + 1 <=> \E o \in named : o >= extent
      BY <2>1, <3>1
    <3>3. extent > most + 1 + 1 <=> extent >= 2 /\ \A o \in named : o < extent - 2
      BY <2>1, <3>1
    <3> QED BY <3>2, <3>3
  <2>4. CoverageFault(ledger) <=>
           \/ Cardinality(values) > 1
           \/ spans # {} /\ ~ (Span(0, most + 1) \subseteq named)
           \/ \E extent \in values : extent > most + 1 + 1 \/ extent < most + 1
    BY <1>6, <1>8, <2>1
  <2> QED BY <1>1, <1>2, <1>3, <2>2, <2>3, <2>4
<1> QED BY <1>7, <1>8

LEMMA CoverageVerdict ==
    ASSUME TypeOK, CoverageFromIndex, status # "raised", LengthsTold, CheckerTied
    PROVE  (\E k \in Keys : CoverageFault(checker.coverage[k])) <=> CoverageFaultInFile
  BY CoverageVerdictOf, Zenon DEF CoverageFaultInFile

\* The end-of-stream pass finds fault where the file has one.
LEMMA Verdict ==
    ASSUME ReaderInv, status # "raised", Faithful
    PROVE  FinishRefuses(checker) <=> \/ BadStreamInFile
                                      \/ UnmarkedBreakInFile
                                      \/ CoverageFaultInFile
                                      \/ checker.digest /\ ~ checker.zpfSourced
<1>1. TypeOK /\ CoverageFromIndex /\ CheckerTied
  BY DEF ReaderInv
<1>2. (\E s \in checker.live : BadStreams(checker, s) # {}) <=> BadStreamInFile
  BY <1>1, BadVerdict DEF Faithful
<1>3. UnmarkedBreaks(checker) # {} <=> UnmarkedBreakInFile
  BY <1>1, BreakVerdict
<1>4. (\E k \in Keys : CoverageFault(checker.coverage[k])) <=> CoverageFaultInFile
  BY <1>1, CoverageVerdict DEF Faithful
<1> QED BY <1>2, <1>3, <1>4 DEF FinishRefuses

-------------------------------------------------------------------------------

\* Until a block is dropped the checker is faithful to the index; its verdict is then
\* taken once, and a strict reader goes on only without a finding.
VerdictInv ==
    /\ status # "raised" /\ isolated = << >> => Faithful
    /\ status = "indexed" => (fault <=> FinishRefuses(checker))
    /\ strict => isolated = << >>
    /\ strict /\ status = "indexed" => ~ fault
    /\ strict /\ status # "raised" => Silent

\* The File Header begins no stream and says nothing of an input.
LEMMA VerdictInit == Init => VerdictInv
<1> SUFFICES ASSUME Init PROVE VerdictInv
  OBVIOUS
<1>0. PICK c \in CheckerType : c = NewChecker
  BY NewCheckerType
<1>1. PICK b \in Headers : checker = Absorbed(NewChecker, b)
  BY DEF Init
<1>2. b \in BlockType /\ b.kind = "header"
  BY BlocksAssumption
<1>3. ~ Refuses(NewChecker, b)
  BY <1>2 DEF Refuses, OutOfPlace, NewChecker
<1>4. PICK d : c = NewChecker /\ d = checker /\ d = Absorbed(c, b) /\ ~ Refuses(c, b)
  BY <1>0, <1>1, <1>3
<1>5. Declares(c, b, d) /\ Follows(c, b, d)
  BY <1>2, <1>4, Absorption, AbsorbedFollows
<1>6. d.live = c.live /\ d.ended = c.ended
  BY <1>2, <1>5, Zenon DEF Declares
<1>7. d.streams = c.streams /\ d.breaks = c.breaks /\ d.holes \cup d.removed = c.holes \cup c.removed
  BY <1>2, <1>5 DEF Follows
<1>8. \A k \in Keys, s \in Sids : d.coverage[k].declared[s] = c.coverage[k].declared[s]
  BY <1>2, <1>4, AbsorbedDeclares
<1>9. /\ c.live = {} /\ c.ended = {} /\ c.breaks = {} /\ c.holes \cup c.removed = {}
      /\ \A s \in Sids, p \in Pids : At(c, s, p) = None
      /\ \A k \in Keys, s \in Sids : c.coverage[k].declared[s] = None
  BY <1>4 DEF NewChecker, NewLedger, At
<1>10. (\A kind : Of(kind) = {}) /\ \A kind, s, p : OfStream(kind, s, p) = {}
  BY DEF Init, Positions, Of, OfStream
<1>11. \A s \in Sids, p \in Pids : At(checker, s, p) = None
  BY <1>4, <1>7, <1>9 DEF At
<1>12. StreamsTold /\ NamesKnown /\ Silent
  <2>1. checker.live \cap checker.ended = {}
    BY <1>4, <1>6, <1>9
  <2>2. StreamsTold
    BY <1>10, <1>11, <2>1, Zenon DEF StreamsTold
  <2> QED BY <1>10, <1>11, <2>2 DEF NamesKnown, Silent
<1>13. EndsTold /\ RegionsTold /\ LengthsTold
  <2>1. checker.ended = {} /\ checker.breaks = {} /\ checker.holes \cup checker.removed = {}
    BY <1>4, <1>6, <1>7, <1>9
  <2>2. EndsTold
    BY <2>1 DEF EndsTold
  <2>3. RegionsTold
    BY <1>10, <2>1 DEF RegionsTold
  <2>4. LengthsTold
    BY <1>4, <1>8, <1>9, <1>10, <2>1 DEF LengthsTold
  <2> QED BY <2>2, <2>3, <2>4
<1> QED BY <1>12, <1>13 DEF VerdictInv, Faithful, Init

\* What is said of the index and the checker stays while they do.
LEMMA VerdictStill ==
    ASSUME UNCHANGED <<index, checker>>
    PROVE  (Faithful => Faithful') /\ (Silent => Silent') /\ checker' = checker
<1>1. Positions' = Positions /\ (\A i : Filed(i)' = Filed(i)) /\ checker' = checker
  BY DEF Positions, Filed
<1>2. /\ \A kind : Of(kind)' = Of(kind)
      /\ \A kind, s, p : OfStream(kind, s, p)' = OfStream(kind, s, p)
  BY <1>1 DEF Of, OfStream
<1>3. \A i : Layer(i)' = Layer(i) /\ (Copied(i)' <=> Copied(i))
  BY <1>1 DEF Layer, Copied
<1>4. /\ \A s, p : LayersOf(s, p)' = LayersOf(s, p)
      /\ \A s, p : Units(s, p)' <=> Units(s, p)
      /\ \A i, k : SpansOn(i, k)' = SpansOn(i, k)
  <2>1. \A s, p : LayersOf(s, p)' = LayersOf(s, p)
    BY <1>1, <1>2 DEF LayersOf
  <2>2. \A s, p : Units(s, p)' <=> Units(s, p)
    BY <1>1, <1>2 DEF Units
  <2>3. \A i, k : SpansOn(i, k)' = SpansOn(i, k)
    BY <1>1 DEF SpansOn
  <2> QED BY <2>1, <2>2, <2>3
<1>5. ASSUME NEW s, NEW p PROVE SeamsOf(s, p)' = SeamsOf(s, p)
  <2>1. ASSUME NEW i, NEW j, NEW k
        PROVE  (Joined(s, p, i, j, k)' <=> Joined(s, p, i, j, k)) /\ SeamOf(i, j, k)' = SeamOf(i, j, k)
    <3>1. BreakBetween(s, p, i, j)' <=> BreakBetween(s, p, i, j)
      BY <1>2 DEF BreakBetween
    <3>2. Neighbours(OfStream("record", s, p), i, j)' <=> Neighbours(OfStream("record", s, p), i, j)
      BY <1>2 DEF Neighbours
    <3> QED BY <1>2, <1>4, <3>1, <3>2 DEF Joined, SeamOf
  <2>2. \A r : r \in SeamsOf(s, p)' <=> r \in SeamsOf(s, p)
    BY <2>1, SeamMember
  <2> QED BY <2>2
<1>6. \A s, p : HeldSeams(s, p)' = HeldSeams(s, p) /\ (BadIn(s, p)' <=> BadIn(s, p))
  BY <1>1, <1>2, <1>3, <1>4, <1>5 DEF HeldSeams, BadIn
<1>7. ASSUME NEW s, NEW p, NEW stream
      PROVE  /\ StreamTold(s, p, stream) => StreamTold(s, p, stream)'
             /\ LastTold(s, p, stream) => LastTold(s, p, stream)'
  <2>1. StreamTold(s, p, stream) => StreamTold(s, p, stream)'
    BY <1>1, <1>2, <1>3, <1>4, <1>5 DEF StreamTold
  <2>2. LastTold(s, p, stream) => LastTold(s, p, stream)'
    BY <1>1, <1>2 DEF LastTold, LastIn
  <2> QED BY <2>1, <2>2
<1>8. StreamsTold => StreamsTold'
  BY <1>1, <1>2, <1>7 DEF StreamsTold
<1>9. EndsTold => EndsTold'
  BY <1>1, <1>6 DEF EndsTold
<1>10. (NamesKnown => NamesKnown') /\ (LengthsTold => LengthsTold')
  BY <1>1, <1>2 DEF NamesKnown, LengthsTold
<1>11. RegionsTold => RegionsTold'
  BY <1>1, <1>2 DEF RegionsTold
<1>12. Silent => Silent'
  BY <1>1, <1>2, <1>3, <1>4 DEF Silent
<1> QED BY <1>1, <1>8, <1>9, <1>10, <1>11, <1>12 DEF Faithful

\* A block that is filed is told of.
LEMMA VerdictFiles ==
    ASSUME ReaderInv, VerdictInv, NEW b \in BlockType, Admit(b)
    PROVE  VerdictInv'
<1>1. /\ TypeOK /\ status = "indexing" /\ status' = status /\ isolated' = isolated
      /\ strict' = strict /\ CheckerTied /\ MarksTied
  BY DEF ReaderInv, Admit, MoreBlocks
<1>2. PICK n : FiledAt(n, b)
  BY <1>1, FilingAt
<1>3. ASSUME isolated = << >> PROVE Faithful'
  <2>1. StreamsTold /\ EndsTold /\ NamesKnown /\ RegionsTold /\ LengthsTold
    BY <1>1, <1>3 DEF VerdictInv, Faithful
  <2>2. checker.live \cap checker.ended = {}
    BY <2>1 DEF StreamsTold
  <2>3. StreamsTold'
    BY <1>1, <1>2, <2>1, StreamsFollow
  <2>4. EndsTold'
    BY <1>1, <1>2, <2>1, EndsFollow
  <2>5. NamesKnown'
    BY <1>1, <1>2, <2>1, NamesFollow
  <2>6. RegionsTold'
    BY <1>1, <1>2, <2>1, RegionsFollow
  <2>7. LengthsTold'
    BY <1>1, <1>2, <2>1, <2>2, LengthsFollow
  <2> QED BY <2>3, <2>4, <2>5, <2>6, <2>7 DEF Faithful
<1>4. ASSUME strict PROVE Silent'
  <2>1. isolated = << >> /\ Silent /\ ~ Advises(checker, b)
    BY <1>1, <1>4 DEF VerdictInv, Admit
  <2>2. StreamsTold /\ NamesKnown
    BY <1>1, <2>1 DEF VerdictInv, Faithful
  <2> QED BY <1>1, <1>2, <2>1, <2>2, SilentFollows
<1> QED BY <1>1, <1>3, <1>4 DEF VerdictInv

LEMMA VerdictKept == ReaderInv /\ VerdictInv /\ [Next]_vars => VerdictInv'
<1> SUFFICES ASSUME ReaderInv, VerdictInv, [Next]_vars PROVE VerdictInv'
  OBVIOUS
<1>1. ASSUME NEW b \in Blocks, Read(b) PROVE VerdictInv'
  <2>1. b \in BlockType
    BY BlocksAssumption
  <2>2. CASE Admit(b)
    BY <2>1, <2>2, VerdictFiles
  <2>3. CASE Isolate(b)
    <3>1. ~ strict /\ strict' = strict /\ status = "indexing" /\ status' = status
      BY <2>3 DEF Isolate, MoreBlocks
    <3>2. isolated' # << >>
      <4>1. isolated \in Seq(BlockType) /\ isolated' = Append(isolated, b)
        BY <2>3 DEF Isolate, ReaderInv, TypeOK
      <4> QED BY <2>1, <4>1
    <3> QED BY <3>1, <3>2 DEF VerdictInv
  <2>4. CASE Raise(b)
    BY <2>4 DEF Raise, VerdictInv
  <2> QED BY <1>1, <2>2, <2>3, <2>4 DEF Read
<1>2. CASE FinishChecks
  <2>1. /\ status = "indexing" /\ fault' = FinishRefuses(checker)
        /\ status' = (IF strict /\ FinishRefuses(checker) THEN "raised" ELSE "indexed")
        /\ strict' = strict /\ isolated' = isolated /\ UNCHANGED <<index, checker>>
    BY <1>2 DEF FinishChecks
  <2>2. (Faithful => Faithful') /\ (Silent => Silent') /\ checker' = checker
    BY <2>1, VerdictStill
  <2>3. FinishRefuses(checker)' <=> FinishRefuses(checker)
    BY <2>2
  <2> QED BY <2>1, <2>2, <2>3 DEF VerdictInv
<1>3. CASE UNCHANGED vars
  <2>1. /\ status' = status /\ fault' = fault /\ strict' = strict /\ isolated' = isolated
        /\ UNCHANGED <<index, checker>>
    BY <1>3 DEF vars
  <2>2. (Faithful => Faithful') /\ (Silent => Silent') /\ checker' = checker
    BY <2>1, VerdictStill
  <2>3. FinishRefuses(checker)' <=> FinishRefuses(checker)
    BY <2>2
  <2> QED BY <2>1, <2>2, <2>3 DEF VerdictInv
<1> QED BY <1>1, <1>2, <1>3 DEF Next

LEMMA VerdictAlways == Spec => [](ReaderInv /\ VerdictInv)
  BY ReaderInit, ReaderKept, VerdictInit, VerdictKept, PTL DEF Spec

\* The verdict of the single pass is that of the whole file, of any file and
\* wherever its Undecoded blocks and its Session Ends stand: the streams closed one
\* by one, the seams held over and the ledgers folded block by block find exactly
\* what a look at the whole index finds (conformance.py finish, _close_participant,
\* _check_unmarked_breaks, check_coverage).
THEOREM VerdictAlwaysWholeFile == Spec => []VerdictIsWholeFile
<1>1. ReaderInv /\ VerdictInv => VerdictIsWholeFile
  <2> SUFFICES ASSUME ReaderInv, VerdictInv, status = "indexed", isolated = << >>
               PROVE  fault <=> \/ BadStreamInFile
                                \/ UnmarkedBreakInFile
                                \/ CoverageFaultInFile
                                \/ checker.digest /\ ~ checker.zpfSourced
    BY DEF VerdictIsWholeFile
  <2>1. Faithful /\ (fault <=> FinishRefuses(checker)) /\ status # "raised"
    BY DEF VerdictInv
  <2> QED BY <2>1, Verdict
<1> QED BY <1>1, VerdictAlways, PTL

\* A file a strict reader opens is without fault: it isolated nothing, the file as a
\* whole breaks no rule, and no record was let through on an advisory finding
\* (reader.py _admit, _finish_checks).
THEOREM StrictAlwaysSilent == Spec => []StrictIsSilent
<1>1. ReaderInv /\ VerdictInv => StrictIsSilent
  <2> SUFFICES ASSUME ReaderInv, VerdictInv, strict, status = "indexed"
               PROVE  /\ isolated = << >>
                      /\ ~ BadStreamInFile /\ ~ UnmarkedBreakInFile /\ ~ CoverageFaultInFile
                      /\ \A i \in Of("record") :
                            /\ Filed(i).label => Layer(i) = "decoded"
                            /\ Units(Filed(i).sid, Filed(i).pid) => Layer(i) = "decoded"
    BY DEF StrictIsSilent, Layer
  <2>1. Faithful /\ (fault <=> FinishRefuses(checker)) /\ ~ fault /\ isolated = << >> /\ Silent
    BY DEF VerdictInv
  <2>2. ~ BadStreamInFile /\ ~ UnmarkedBreakInFile /\ ~ CoverageFaultInFile
    BY <2>1, Verdict
  <2>3. ASSUME NEW i \in Of("record")
        PROVE  /\ Filed(i).label => Layer(i) = "decoded"
               /\ Units(Filed(i).sid, Filed(i).pid) => Layer(i) = "decoded"
    <3>1. Filed(i) \in BlockType /\ Filed(i).kind = "record"
      BY FiledIsBlock DEF Of, ReaderInv
    <3>2. PICK s \in Sids, p \in Pids : s = Filed(i).sid /\ p = Filed(i).pid
      BY <3>1, RecordBlock
    <3>3. Layer(i) \in LayersOf(s, p)
      BY <3>2 DEF LayersOf, OfStream, Layer
    <3>4. "undefined" \notin LayersOf(s, p)
      BY <2>2, Zenon DEF BadStreamInFile
    <3>5. Layer(i) \in {"transport", "decoded", "undefined"}
      <4>1. Filed(i).decoder \in DecoderIds \cup {None}
        BY <3>1, RecordBlock
      <4>2. Filed(i).decoder # None => checker.decoders[Filed(i).decoder] # None
        BY <2>1 DEF Faithful, NamesKnown
      <4> QED BY <4>1, <4>2 DEF Layer, LayerOf, ReaderInv, TypeOK, CheckerType
    <3> QED BY <2>1, <3>3, <3>4, <3>5 DEF Silent
  <2> QED BY <2>1, <2>2, <2>3
<1> QED BY <1>1, VerdictAlways, PTL

===============================================================================
