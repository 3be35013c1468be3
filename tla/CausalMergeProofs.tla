-------------------------- MODULE CausalMergeProofs --------------------------
(***************************************************************************)
(* Theorems about the causal merge, for every sequence space, every set of *)
(* participants and every set of records.                                  *)
(***************************************************************************)
EXTENDS MergeOrder, OperatorProofs

-------------------------------------------------------------------------------
(* Type correctness *)

\* A fresh frontier and a fresh order check are well typed.
LEMMA FreshTypes ==
    ASSUME NEW count, NEW ds \in [Pids -> SeqNum \cup {None}]
    PROVE  /\ \A p \in Pids : NewFrontier(ds[p]) \in FrontierType
           /\ NewOrder(count, ds) \in OrderType
<1>1. \A p \in Pids : NewPlacer(ds[p]) \in PlacerType
  BY NewPlacerType
<1>2. NewAckWalk \in AckWalkType
  BY DEF NewAckWalk, AckWalkType
<1>3. \A p \in Pids : NewFrontier(ds[p]) \in FrontierType
  BY <1>1, <1>2 DEF NewFrontier, FrontierType
<1>4. NewOrder(count, ds) \in OrderType
  BY NewOrderType
<1> QED BY <1>3, <1>4

\* Loading a record, or reaching the stream's end, leaves a well-typed frontier.
LEMMA AdvancedToType ==
    ASSUME NEW f \in FrontierType, NEW rec \in RecordType \cup {None}
    PROVE  AdvancedTo(f, rec) \in FrontierType
<1>1. ReachedAfter(f) \in Nat
  BY NoneAssumption DEF ReachedAfter, FrontierType
<1>2. CASE rec = None
  BY <1>1, <1>2 DEF AdvancedTo, Drained, FrontierType
<1>3. CASE rec # None
  <2> DEFINE offset == OffsetOf(f.placer, rec)
             acks == IF rec.ack = None THEN f.acks ELSE AckObserved(f.acks, rec.ack)
  <2>1. rec \in RecordType /\ f.placer \in PlacerType /\ f.acks \in AckWalkType
    BY <1>3 DEF FrontierType
  <2>2. offset \in Nat \cup {None}
    BY <2>1, OffsetNotBelow
  <2>3. Placed(f.placer, rec) \in PlacerType
    BY <2>1, PlacedType
  <2>4. SequenceEnd(rec, offset) \in Nat \cup {None}
    BY <2>1, <2>2, SequenceEndType
  <2>5. acks \in AckWalkType
    BY <2>1, AckObservedType DEF RecordType
  <2>6. (IF rec.ack = None THEN None ELSE acks.position) \in Int \cup {None}
    BY <2>5 DEF AckWalkType
  <2>7. (IF rec.seq = None THEN f.lastSeq ELSE rec.seq) \in SeqNum \cup {None}
    BY <2>1 DEF RecordType, FrontierType
  <2>8. f.loaded + 1 \in Nat
    BY DEF FrontierType
  <2> HIDE DEF offset, acks
  <2>9. AdvancedTo(f, rec) =
          [loaded |-> f.loaded + 1, head |-> rec,
           lastSeq |-> IF rec.seq = None THEN f.lastSeq ELSE rec.seq,
           placer |-> Placed(f.placer, rec), acks |-> acks, offset |-> offset,
           end |-> SequenceEnd(rec, offset),
           ack |-> IF rec.ack = None THEN None ELSE acks.position,
           reached |-> ReachedAfter(f)]
    BY <1>3 DEF AdvancedTo, Advanced, offset, acks
  <2> QED BY <1>1, <2>1, <2>2, <2>3, <2>4, <2>5, <2>6, <2>7, <2>8, <2>9 DEF FrontierType
<1> QED BY <1>2, <1>3

\* What a stream hands a frontier next is one of its records, or None.
LEMMA NextOfType ==
    ASSUME TypeOK, NEW p \in Pids
    PROVE  NextOf(frontier[p], streams[p]) \in RecordType \cup {None}
<1>1. frontier[p].loaded \in Nat /\ streams[p] \in Seq(RecordType)
  BY DEF TypeOK, FrontierType
<1> QED BY <1>1 DEF NextOf

\* Pairwise readiness is about some peer: the pair has another member.
LEMMA PeerExists ==
    ASSUME Pairwise, NEW p \in Pids
    PROVE  \E q \in Pids : q # p
<1> SUFFICES ASSUME \A q \in Pids : q = p PROVE FALSE
  OBVIOUS
<1>1. Pids = {p}
  OBVIOUS
<1>2. Cardinality({p}) = 1
  BY FS_Singleton
<1> QED BY <1>1, <1>2 DEF Pairwise

\* A ready frontier has a head to yield.
LEMMA ReadyHasHead ==
    ASSUME NEW p \in Ready
    PROVE  p \in Pids /\ frontier[p].head # None
<1>1. p \in Pids
  BY DEF Ready
<1>2. CASE Pairwise
  <2>1. PICK q \in Pids : q # p
    BY <1>1, <1>2, PeerExists
  <2>2. PairReady(frontier[p], frontier[q])
    BY <1>2, <2>1 DEF Ready
  <2> QED BY <1>1, <2>2 DEF PairReady
<1>3. CASE ~ Pairwise
  BY <1>3 DEF Ready
<1> QED BY <1>2, <1>3

\* Initially every variable of the merge has its type.
LEMMA InitType == Init => TypeOK
<1> SUFFICES ASSUME Init PROVE TypeOK
  OBVIOUS
<1>1. streams \in [Pids -> Seq(RecordType)]
  <2>1. ASSUME NEW n \in 0 .. MaxLen, NEW s \in [1 .. n -> Records]
        PROVE  s \in Seq(RecordType)
    BY RecordsAssumption
  <2> QED BY <2>1 DEF Init, Input
<1>2. isns \in [Pids -> SeqNum \cup {None}]
  BY DEF Init, Input
<1>3. frontier \in [Pids -> FrontierType]
  BY <1>2, FreshTypes DEF Init, Start
<1>4. verified \in [order : OrderType, ok : BOOLEAN]
  BY <1>2, FreshTypes DEF Init, Start
<1>5. out \in Seq(OutType) /\ status \in StatusType
  BY DEF Init, Start, StatusType
<1> QED BY <1>1, <1>2, <1>3, <1>4, <1>5 DEF TypeOK

\* Every step keeps the types.
LEMMA NextType == TypeOK /\ [Next]_vars => TypeOK'
<1> SUFFICES ASSUME TypeOK, [Next]_vars PROVE TypeOK'
  OBVIOUS
<1>1. ASSUME NEW p \in Pids, Prime(p) PROVE TypeOK'
  <2>1. AdvancedTo(frontier[p], NextOf(frontier[p], streams[p])) \in FrontierType
    BY NextOfType, AdvancedToType DEF TypeOK
  <2> QED BY <1>1, <2>1 DEF Prime, TypeOK
<1>2. ASSUME NEW p \in Pids, Emit(p) PROVE TypeOK'
  <2> DEFINE f == frontier[p]
  <2>1. AdvancedTo(f, NextOf(f, streams[p])) \in FrontierType
    BY NextOfType, AdvancedToType DEF TypeOK
  <2>2. f.head \in RecordType
    <3>1. f \in FrontierType /\ f.head # None
      BY <1>2, ReadyHasHead DEF TypeOK, Emit, IsBest
    <3> QED BY <3>1 DEF FrontierType
  <2>3. [pid |-> p, rec |-> f.head, end |-> f.end, ack |-> f.ack] \in OutType
    BY <2>2 DEF TypeOK, FrontierType, OutType
  <2>4. out' \in Seq(OutType)
    BY <1>2, <2>3 DEF Emit, TypeOK
  <2>5. verified' \in [order : OrderType, ok : BOOLEAN]
    <3>1. OrderObserved(verified.order, Cardinality(Pids), p, f.head) \in OrderType
      BY <2>2, OrderObservedType DEF TypeOK
    <3> QED BY <1>2, <3>1 DEF Emit, TypeOK
  <2>6. frontier' \in [Pids -> FrontierType]
    BY <1>2, <2>1 DEF Emit, TypeOK
  <2> QED BY <1>2, <2>4, <2>5, <2>6 DEF Emit, TypeOK
<1>3. ASSUME NEW p \in Pids, Refuse(p) PROVE TypeOK'
  BY <1>3 DEF Refuse, TypeOK, StatusType
<1>4. CASE Begin
  BY <1>4 DEF Begin, TypeOK, StatusType
<1>5. CASE Stall
  BY <1>5 DEF Stall, TypeOK, StatusType
<1>6. CASE Finish
  BY <1>6 DEF Finish, TypeOK, StatusType
<1>7. CASE UNCHANGED vars
  BY <1>7 DEF vars, TypeOK
<1> QED BY <1>1, <1>2, <1>3, <1>4, <1>5, <1>6, <1>7 DEF Next

\* The merge keeps its types: in particular a head's offset is never negative,
\* and no walk is left half started.
THEOREM TypeCorrect == Spec => []TypeOK
<1>1. Init => TypeOK
  BY InitType
<1>2. TypeOK /\ [Next]_vars => TypeOK'
  BY NextType
<1> QED BY <1>1, <1>2, PTL DEF Spec

-------------------------------------------------------------------------------
(* The merge is causal *)

\* What loading the next record does to a frontier: what is reached, where the
\* walk stands and what it started from never go back.
LEMMA AdvanceKeeps ==
    ASSUME NEW f \in FrontierType, NEW rec \in RecordType \cup {None}
    PROVE  LET g == AdvancedTo(f, rec)
           IN  /\ g.reached >= f.reached
               /\ f.end # None => g.reached >= f.end
               /\ f.acks.first # None => g.acks.first = f.acks.first
               /\ f.placer.origin # None =>
                     /\ g.placer.origin = f.placer.origin
                     /\ g.placer.position >= f.placer.position
               /\ g.loaded >= f.loaded
<1> DEFINE g == AdvancedTo(f, rec)
<1>1. /\ f.placer \in PlacerType /\ f.acks \in AckWalkType
      /\ f.placer.position \in Nat
      /\ f.reached \in Nat /\ f.end \in Nat \cup {None} /\ f.loaded \in Nat
  BY DEF FrontierType, PlacerType
<1>2. g.reached = ReachedAfter(f)
  BY DEF AdvancedTo, Advanced, Drained, FrontierType
<1>3. g.reached >= f.reached /\ (f.end # None => g.reached >= f.end)
  BY <1>1, <1>2 DEF ReachedAfter
<1>4. CASE rec = None
  <2>1. g.acks = f.acks /\ g.placer = f.placer /\ g.loaded = f.loaded
    BY <1>4 DEF AdvancedTo, Drained, FrontierType
  <2> QED BY <1>1, <1>3, <2>1
<1>5. CASE rec # None
  <2>1. /\ g.placer = Placed(f.placer, rec)
        /\ g.acks = IF rec.ack = None THEN f.acks ELSE AckObserved(f.acks, rec.ack)
        /\ g.loaded = f.loaded + 1
    BY <1>5 DEF AdvancedTo, Advanced
  <2>2. f.acks.first # None => g.acks.first = f.acks.first
    BY <1>1, <1>5, <2>1, AckObservedType DEF RecordType
  <2>3. ASSUME f.placer.origin # None
        PROVE  /\ g.placer.origin = f.placer.origin
               /\ g.placer.position >= f.placer.position
    <3>1. Started(f.placer, rec) = f.placer
      BY <1>1, <1>5, <2>3, StartedType
    <3>2. CASE OffsetOf(f.placer, rec) = None
      BY <1>1, <1>5, <2>1, <2>3, <3>1, <3>2, PlacedType
    <3>3. CASE OffsetOf(f.placer, rec) # None
      BY <1>1, <1>5, <2>1, <2>3, <3>1, <3>3, PlacedType, OffsetNotBelow
    <3> QED BY <3>2, <3>3
  <2> QED BY <1>1, <1>3, <2>1, <2>2, <2>3
<1> QED BY <1>4, <1>5

\* The record loaded next becomes the head, placed by the walk.
LEMMA AdvancePlaces ==
    ASSUME TypeOK, NEW p \in Pids, HeadPlaced(p), UNCHANGED streams,
           frontier'[p] = AdvancedTo(frontier[p], NextOf(frontier[p], streams[p]))
    PROVE  HeadPlaced(p)'
<1> DEFINE f == frontier[p]
           rec == NextOf(f, streams[p])
           g == AdvancedTo(f, rec)
<1>1. f \in FrontierType /\ streams[p] \in Seq(RecordType) /\ rec \in RecordType \cup {None}
  BY NextOfType DEF TypeOK
<1>2. f.loaded \in Nat /\ f.loaded <= Len(streams[p]) /\ Len(streams[p]) \in Nat
  BY <1>1 DEF HeadPlaced, FrontierType
<1>3. CASE rec = None
  <2>1. g.head = None /\ g.end = None /\ g.offset = None /\ g.ack = None /\ g.loaded = f.loaded
    BY <1>1, <1>3 DEF AdvancedTo, Drained, FrontierType
  <2> QED BY <1>2, <2>1 DEF HeadPlaced
<1>4. CASE rec # None
  <2>1. f.loaded < Len(streams[p]) /\ rec = streams[p][f.loaded + 1]
    BY <1>4 DEF NextOf
  <2>2. /\ g.loaded = f.loaded + 1 /\ g.head = rec
        /\ g.offset = OffsetOf(f.placer, rec)
        /\ g.end = SequenceEnd(rec, g.offset)
        /\ g.placer = Placed(f.placer, rec)
        /\ g.acks = IF rec.ack = None THEN f.acks ELSE AckObserved(f.acks, rec.ack)
        /\ g.ack = IF rec.ack = None THEN None ELSE g.acks.position
    BY <1>4 DEF AdvancedTo, Advanced
  <2>3. rec \in RecordType /\ f.placer \in PlacerType /\ f.acks \in AckWalkType
    BY <1>1, <1>4 DEF FrontierType
  <2>4. g.offset # None => g.placer.position = g.offset
    BY <2>2, <2>3, PlacedType
  <2>5. g.ack # None => g.acks.first # None
    BY <2>2, <2>3, AckObservedType DEF RecordType
  <2> HIDE DEF g, rec, f
  <2>6. frontier'[p] = g /\ streams'[p] = streams[p]
    BY DEF g, rec, f
  <2> QED BY <1>2, <1>4, <2>1, <2>2, <2>4, <2>5, <2>6 DEF HeadPlaced
<1> QED BY <1>3, <1>4

\* What is past a position stays past it as the stream is read on.
LEMMA EndsPastKept ==
    ASSUME TypeOK, NEW q \in Pids, NEW a \in Int, EndsPast(q, a), UNCHANGED streams,
           frontier[q].placer.origin # None,
           frontier'[q] = AdvancedTo(frontier[q], NextOf(frontier[q], streams[q]))
    PROVE  EndsPast(q, a)'
<1> DEFINE f == frontier[q]
           g == frontier'[q]
<1>1. f \in FrontierType /\ NextOf(f, streams[q]) \in RecordType \cup {None}
  BY NextOfType DEF TypeOK
<1>2. g \in FrontierType
  BY <1>1, AdvancedToType
<1>3. /\ g.reached >= f.reached /\ (f.end # None => g.reached >= f.end)
      /\ g.placer.position >= f.placer.position
      /\ g.loaded >= f.loaded
  BY <1>1, AdvanceKeeps
<1>4. /\ f.reached \in Nat /\ g.reached \in Nat /\ f.end \in Nat \cup {None}
      /\ f.placer.position \in Nat /\ g.placer.position \in Nat
      /\ f.loaded \in Nat /\ g.loaded \in Nat
  BY <1>1, <1>2 DEF FrontierType, PlacerType
<1>5. CASE a < f.reached
  BY <1>3, <1>4, <1>5 DEF EndsPast
<1>6. CASE f.end # None /\ a < f.end
  BY <1>3, <1>4, <1>6, NoneAssumption DEF EndsPast
<1>7. CASE /\ a <= f.placer.position
           /\ \E k \in 1 .. f.loaded : ~ BareSyn(streams[q][k])
  <2>1. a <= g.placer.position
    BY <1>3, <1>4, <1>7
  <2>2. PICK k \in 1 .. f.loaded : ~ BareSyn(streams[q][k])
    BY <1>7
  <2>3. k \in 1 .. g.loaded
    BY <1>3, <1>4
  <2> QED BY <2>1, <2>2, <2>3 DEF EndsPast, BareSyn
<1> QED BY <1>5, <1>6, <1>7 DEF EndsPast

\* In a well-formed stream, a head with an end ends past every such position.
LEMMA HeadEndsPast ==
    ASSUME TypeOK, WellFormed, NEW q \in Pids, HeadPlaced(q), NEW a \in Int,
           EndsPast(q, a), frontier[q].head # None, frontier[q].end # None
    PROVE  a < frontier[q].end
<1> DEFINE f == frontier[q]
<1>1. f \in FrontierType
  BY DEF TypeOK
<1>2. /\ f.end \in Nat /\ f.reached \in Nat /\ f.placer.position \in Nat /\ f.loaded \in Nat
      /\ f.offset \in Nat \cup {None} /\ f.head \in RecordType
  BY <1>1 DEF FrontierType, PlacerType
<1>3. f.end >= f.reached
  BY DEF WellFormed, EndsRise
<1>4. CASE a < f.reached
  BY <1>2, <1>3, <1>4
<1>5. CASE a < f.end
  BY <1>5
<1>6. CASE /\ a <= f.placer.position
           /\ \E k \in 1 .. f.loaded : ~ BareSyn(streams[q][k])
  <2>1. f.head = streams[q][f.loaded] /\ f.loaded \in 1 .. Len(streams[q])
    BY <1>2 DEF HeadPlaced, TypeOK
  <2>2. ~ BareSyn(f.head)
    <3> SUFFICES ASSUME BareSyn(f.head) PROVE FALSE
      OBVIOUS
    <3>1. PICK k \in 1 .. f.loaded : ~ BareSyn(streams[q][k])
      BY <1>6
    <3>2. k # f.loaded
      BY <2>1, <3>1
    <3>3. k \in 1 .. Len(streams[q]) /\ k < f.loaded
      BY <1>2, <2>1, <3>2
    <3> QED BY <2>1, <3>1, <3>3 DEF WellFormed, SynsLead
  <2>3. f.end = SequenceEnd(f.head, f.offset)
    BY DEF HeadPlaced
  <2>4. f.head.len > 0 \/ f.head.flag # "syn"
    BY <1>2, <2>2 DEF BareSyn, RecordType
  <2>5. f.offset # None /\ f.end > f.offset
    BY <1>2, <2>3, <2>4, SequenceEndType
  <2>6. f.placer.position = f.offset
    BY <2>5 DEF HeadPlaced
  <2> QED BY <1>2, <1>6, <2>5, <2>6
<1> QED BY <1>4, <1>5, <1>6 DEF EndsPast

\* Acks and origins of a well-typed frontier give integer positions.
LEMMA PositionInt ==
    ASSUME NEW walk \in AckWalkType, walk.first # None, NEW relative \in Int,
           NEW origin \in SeqNum
    PROVE  AckPosition(walk, relative, origin) \in Int
<1>1. walk.first \in SeqNum
  BY DEF AckWalkType
<1>2. SerialDelta(walk.first, origin) \in Int
  BY <1>1, SerialDeltaInt
<1> QED BY <1>2 DEF AckPosition

\* A record is ready only once everything its peer has left ends past its ack.
LEMMA ReadyEndsPast ==
    ASSUME TypeOK, WellFormed, NEW p \in Pids, NEW q \in Pids,
           HeadPlaced(p), HeadPlaced(q), PairReady(frontier[p], frontier[q]),
           frontier[p].ack # None, frontier[q].head # None
    PROVE  EndsPast(q, AckPosition(frontier[p].acks, frontier[p].ack, frontier[q].placer.origin))
<1> DEFINE f == frontier[q]
           a == AckPosition(frontier[p].acks, frontier[p].ack, f.placer.origin)
<1>1. f.placer.origin # None
  BY DEF WellFormed, OriginsKnown
<1>2. a < PeerEnd(f)
  BY <1>1 DEF PairReady
<1>3. f \in FrontierType /\ frontier[p] \in FrontierType
  BY DEF TypeOK
<1>4. /\ f.end \in Nat \cup {None} /\ f.reached \in Nat /\ f.placer.position \in Nat
      /\ f.offset \in Nat \cup {None} /\ f.head \in RecordType /\ f.loaded \in Nat
      /\ f.placer.origin \in SeqNum
  BY <1>1, <1>3 DEF FrontierType, PlacerType
<1>5. a \in Int
  <2>1. frontier[p].acks \in AckWalkType /\ frontier[p].ack \in Int
    BY <1>3 DEF FrontierType
  <2>2. frontier[p].acks.first # None
    BY DEF HeadPlaced
  <2> QED BY <1>4, <2>1, <2>2, PositionInt
<1>6. CASE f.end # None
  BY <1>2, <1>4, <1>6 DEF PeerEnd, EndsPast
<1>7. CASE f.end = None /\ f.offset # None
  <2>1. PeerEnd(f) = IF f.offset + 1 > f.reached THEN f.offset + 1 ELSE f.reached
    BY <1>7 DEF PeerEnd
  <2>2. CASE a < f.reached
    BY <2>2 DEF EndsPast
  <2>3. CASE ~ (a < f.reached)
    <3>1. a <= f.offset
      BY <1>2, <1>4, <1>5, <1>7, <2>1, <2>3
    <3>2. f.placer.position = f.offset
      BY <1>7 DEF HeadPlaced
    <3>3. /\ f.loaded \in 1 .. f.loaded
          /\ streams[q][f.loaded] = f.head
          /\ f.end = SequenceEnd(f.head, f.offset)
      BY <1>4 DEF HeadPlaced
    <3>4. ~ BareSyn(f.head)
      <4> SUFFICES ASSUME BareSyn(f.head) PROVE FALSE
        OBVIOUS
      <4>1. SequenceEnd(f.head, f.offset) = f.offset
        BY <1>7 DEF BareSyn, SequenceEnd
      <4> QED BY <1>7, <3>3, <4>1
    <3> QED BY <3>1, <3>2, <3>3, <3>4 DEF EndsPast
  <2> QED BY <2>2, <2>3
<1>8. CASE f.end = None /\ f.offset = None
  <2>1. PeerEnd(f) = f.reached
    BY <1>8 DEF PeerEnd
  <2> QED BY <1>2, <2>1 DEF EndsPast
<1> QED BY <1>6, <1>7, <1>8

\* The invariant holds before anything is read.
LEMMA CausalInit == Init => CausalInv
<1> SUFFICES ASSUME Init PROVE CausalInv
  OBVIOUS
<1>1. out = << >> /\ Len(out) = 0
  BY DEF Init, Start
<1>2. TypeOK
  BY InitType
<1>3. ASSUME NEW p \in Pids PROVE HeadPlaced(p)
  <2>1. frontier[p] = NewFrontier(isns[p])
    BY DEF Init, Start
  <2>2. Len(streams[p]) \in Nat
    BY <1>2 DEF TypeOK
  <2> QED BY <2>1, <2>2 DEF HeadPlaced, NewFrontier
<1> QED BY <1>1, <1>3 DEF CausalInv, NoRecordAfterItsAck

\* Yielding a record keeps the invariant.
LEMMA CausalEmit ==
    ASSUME Pairwise, TypeOK, TypeOK', WellFormed, CausalInv, NEW p \in Pids, Emit(p)
    PROVE  CausalInv'
<1> SUFFICES ASSUME NEW n \in Nat, n = Len(out) PROVE CausalInv'
  BY DEF TypeOK
<1> DEFINE f == frontier[p]
           new == [pid |-> p, rec |-> f.head, end |-> f.end, ack |-> f.ack]
<1>1. /\ f.head # None
      /\ frontier' = [frontier EXCEPT ![p] = AdvancedTo(f, NextOf(f, streams[p]))]
      /\ out' = Append(out, new)
      /\ status = "merging" /\ status' = status
      /\ streams' = streams
  BY ReadyHasHead DEF Emit, IsBest
<1>2. /\ n \in Nat /\ out \in Seq(OutType) /\ Len(out') = n + 1
      /\ \A i \in 1 .. n : out'[i] = out[i] /\ out[i] \in OutType
      /\ out'[n + 1] = new
  BY <1>1 DEF TypeOK
<1>3. /\ frontier'[p] = AdvancedTo(f, NextOf(f, streams[p]))
      /\ \A q \in Pids \ {p} : frontier'[q] = frontier[q]
      /\ \A q \in Pids : frontier[q] \in FrontierType /\ frontier'[q] \in FrontierType
  BY <1>1 DEF TypeOK
<1>4. \A q \in Pids : HeadPlaced(q)
  BY DEF CausalInv
<1>5. \A q \in Pids :
        /\ frontier[q].acks.first # None => frontier'[q].acks.first = frontier[q].acks.first
        /\ frontier[q].placer.origin # None =>
              frontier'[q].placer.origin = frontier[q].placer.origin
  <2>1. NextOf(f, streams[p]) \in RecordType \cup {None}
    BY NextOfType
  <2> QED BY <1>3, <2>1, AdvanceKeeps
<1>6. f.placer.origin # None
  BY <1>1 DEF WellFormed, OriginsKnown
<1>7. f.ack # None => f.acks.first # None
  BY <1>4 DEF HeadPlaced
<1>8. \A q \in Pids : HeadPlaced(q)'
  <2>1. HeadPlaced(p)'
    BY <1>1, <1>3, <1>4, AdvancePlaces
  <2>2. ASSUME NEW q \in Pids \ {p} PROVE HeadPlaced(q)'
    BY <1>1, <1>3, <1>4, <2>2 DEF HeadPlaced
  <2> QED BY <2>1, <2>2
<1>9. ASSUME NEW i \in 1 .. n, NEW q \in Pids, out[i].ack # None,
             frontier[q].placer.origin # None
      PROVE  /\ Acked(i, q)' = Acked(i, q)
             /\ Acked(i, q) \in Int
  <2>1. out[i].pid \in Pids /\ out[i].ack \in Int
    BY <1>2, <1>9 DEF OutType
  <2>2. frontier[out[i].pid].acks.first # None
    BY <1>9 DEF CausalInv
  <2>3. frontier[out[i].pid].acks \in AckWalkType /\ frontier[q].placer.origin \in SeqNum
    BY <1>3, <1>9, <2>1 DEF FrontierType, PlacerType
  <2>4. Acked(i, q) \in Int
    BY <2>1, <2>2, <2>3, PositionInt DEF Acked
  <2>5. /\ out'[i] = out[i]
        /\ frontier'[out[i].pid].acks.first = frontier[out[i].pid].acks.first
        /\ frontier'[q].placer.origin = frontier[q].placer.origin
    BY <1>2, <1>5, <1>9, <2>1, <2>2
  <2>6. Acked(i, q)' = Acked(i, q)
    BY <2>5 DEF Acked, AckPosition
  <2> QED BY <2>4, <2>6
<1>10. ASSUME NEW i \in 1 .. n, NEW q \in Pids \ {out[i].pid}, out[i].ack # None,
              frontier'[q].head # None
       PROVE  EndsPast(q, Acked(i, q))'
  <2>1. CASE q = p
    <3>1. /\ q \in Pids /\ frontier[q].head # None /\ frontier[q].placer.origin # None
          /\ frontier'[q] = AdvancedTo(frontier[q], NextOf(frontier[q], streams[q]))
      BY <1>1, <1>3, <1>6, <2>1
    <3>2. EndsPast(q, Acked(i, q))
      BY <1>10, <3>1 DEF CausalInv
    <3>3. Acked(i, q)' = Acked(i, q) /\ Acked(i, q) \in Int
      BY <1>9, <1>10, <3>1
    <3>4. ASSUME NEW a \in Int, a = Acked(i, q) PROVE EndsPast(q, a)'
      <4>1. EndsPast(q, a)
        BY <3>2, <3>4
      <4> QED BY <1>1, <3>1, <4>1, EndsPastKept
    <3>5. ASSUME NEW a \in Int, a = Acked(i, q) PROVE EndsPast(q, Acked(i, q))'
      <4>1. EndsPast(q, a)' /\ Acked(i, q)' = a
        BY <3>3, <3>4, <3>5
      <4> QED BY <4>1 DEF EndsPast
    <3> QED BY <3>3, <3>5
  <2>2. CASE q # p
    <3>1. frontier'[q] = frontier[q] /\ frontier[q].placer.origin # None
      BY <1>3, <1>10, <2>2 DEF WellFormed, OriginsKnown
    <3>2. EndsPast(q, Acked(i, q))
      BY <1>10, <3>1 DEF CausalInv
    <3>3. Acked(i, q)' = Acked(i, q)
      BY <1>9, <1>10, <3>1
    <3> QED BY <1>1, <3>1, <3>2, <3>3 DEF EndsPast, BareSyn
  <2> QED BY <2>1, <2>2
<1>11. ASSUME NEW i, i = n + 1, NEW q \in Pids \ {p}, f.ack # None, frontier'[q].head # None
       PROVE  EndsPast(q, Acked(i, q))'
  <2>1. PairReady(f, frontier[q])
    BY <1>11 DEF Emit, IsBest, Ready
  <2>2. frontier'[q] = frontier[q]
    BY <1>3
  <2>3. EndsPast(q, AckPosition(f.acks, f.ack, frontier[q].placer.origin))
    BY <1>4, <1>11, <2>1, <2>2, ReadyEndsPast
  <2>4. Acked(i, q)' = AckPosition(f.acks, f.ack, frontier[q].placer.origin)
    BY <1>2, <1>5, <1>7, <1>11, <2>2 DEF Acked, AckPosition
  <2> QED BY <1>1, <2>2, <2>3, <2>4 DEF EndsPast, BareSyn
<1>12. ASSUME NEW i \in 1 .. n, out[i].pid # p, out[i].ack # None, f.end # None
       PROVE  Acked(i, p)' < f.end
  <2>1. EndsPast(p, Acked(i, p))
    BY <1>1, <1>12 DEF CausalInv
  <2>2. Acked(i, p)' = Acked(i, p) /\ Acked(i, p) \in Int
    BY <1>6, <1>9, <1>12
  <2>3. Acked(i, p) < f.end
    BY <1>1, <1>4, <1>12, <2>1, <2>2, HeadEndsPast
  <2> QED BY <2>2, <2>3
<1>13. ASSUME NEW i \in 1 .. n + 1
       PROVE  /\ out'[i].ack # None => frontier'[out'[i].pid].acks.first # None
              /\ out'[i].end # None => frontier'[out'[i].pid].placer.origin # None
              /\ \A q \in Pids \ {out'[i].pid} :
                    out'[i].ack # None /\ frontier'[q].head # None => EndsPast(q, Acked(i, q))'
  <2>1. CASE i = n + 1
    <3>1. out'[i].pid = p /\ out'[i].ack = f.ack
      BY <1>2, <2>1
    <3>2. frontier'[p].placer.origin # None /\ (f.ack # None => frontier'[p].acks.first # None)
      BY <1>5, <1>6, <1>7
    <3>3. \A q \in Pids \ {p} :
            f.ack # None /\ frontier'[q].head # None => EndsPast(q, Acked(i, q))'
      BY <1>11, <2>1
    <3> QED BY <3>1, <3>2, <3>3
  <2>2. CASE i \in 1 .. n
    <3>1. out[i].pid \in Pids /\ out'[i] = out[i]
      BY <1>2, <2>2 DEF OutType
    <3>2. /\ out[i].ack # None => frontier[out[i].pid].acks.first # None
          /\ out[i].end # None => frontier[out[i].pid].placer.origin # None
      BY <2>2 DEF CausalInv
    <3> QED BY <1>5, <1>10, <2>2, <3>1, <3>2
  <2> QED BY <1>2, <2>1, <2>2
<1>14. ASSUME NEW i \in 1 .. n + 1, NEW j \in 1 .. n + 1, NEW q, q = out'[j].pid, i < j,
              out'[i].pid # q, out'[i].ack # None, out'[j].end # None
       PROVE  Acked(i, q)' < out'[j].end
  <2>1. i \in 1 .. n /\ out'[i] = out[i]
    BY <1>2, <1>14
  <2>2. CASE j = n + 1
    <3>1. q = p /\ out'[j].end = f.end
      BY <1>2, <1>14, <2>2
    <3> QED BY <1>12, <1>14, <2>1, <3>1
  <2>3. CASE j \in 1 .. n
    <3>1. out'[j] = out[j] /\ q = out[j].pid /\ q \in Pids
      BY <1>2, <1>14, <2>3 DEF OutType
    <3>2. frontier[q].placer.origin # None
      BY <1>14, <2>3, <3>1 DEF CausalInv
    <3>3. Acked(i, q)' = Acked(i, q)
      BY <1>9, <1>14, <2>1, <3>1, <3>2
    <3>4. Acked(i, q) < out[j].end
      BY <1>14, <2>1, <2>3, <3>1 DEF CausalInv, NoRecordAfterItsAck, Acked
    <3> QED BY <3>1, <3>3, <3>4
  <2> QED BY <1>2, <2>2, <2>3
<1>15. NoRecordAfterItsAck'
  <2> SUFFICES ASSUME NEW i \in 1 .. n + 1, NEW j \in 1 .. n + 1, i < j,
                      out'[i].pid # out'[j].pid, out'[i].ack # None, out'[j].end # None
               PROVE  AckPosition(frontier'[out'[i].pid].acks, out'[i].ack,
                                  frontier'[out'[j].pid].placer.origin) < out'[j].end
    BY <1>2 DEF NoRecordAfterItsAck
  <2> QED BY <1>14 DEF Acked
<1> QED BY <1>1, <1>2, <1>8, <1>13, <1>15 DEF CausalInv

\* Loading the first records keeps the invariant: nothing has been yielded yet.
LEMMA CausalPrime ==
    ASSUME TypeOK, CausalInv, NEW p \in Pids, Prime(p)
    PROVE  CausalInv'
<1>1. out' = << >> /\ Len(out') = 0 /\ UNCHANGED <<status, streams>>
  BY DEF CausalInv, Prime
<1>2. frontier' = [frontier EXCEPT ![p] = AdvancedTo(@, NextOf(@, streams[p]))]
  BY DEF Prime
<1>3. HeadPlaced(p)'
  <2>1. frontier'[p] = AdvancedTo(frontier[p], NextOf(frontier[p], streams[p]))
    BY <1>2 DEF TypeOK
  <2> QED BY <1>1, <2>1, AdvancePlaces DEF CausalInv
<1>4. ASSUME NEW q \in Pids \ {p} PROVE HeadPlaced(q)'
  BY <1>1, <1>2, <1>4 DEF CausalInv, HeadPlaced, TypeOK
<1> QED BY <1>1, <1>3, <1>4 DEF CausalInv, NoRecordAfterItsAck

\* Every step keeps the invariant, as long as the streams are well formed.
LEMMA CausalStep ==
    Pairwise /\ TypeOK /\ TypeOK' /\ WellFormed /\ CausalInv /\ [Next]_vars => CausalInv'
<1> SUFFICES ASSUME Pairwise, TypeOK, TypeOK', WellFormed, CausalInv, [Next]_vars
             PROVE  CausalInv'
  OBVIOUS
<1>1. ASSUME NEW p \in Pids, Prime(p) PROVE CausalInv'
  BY <1>1, CausalPrime
<1>2. ASSUME NEW p \in Pids, Emit(p) PROVE CausalInv'
  BY <1>2, CausalEmit
<1>3. ASSUME UNCHANGED <<streams, frontier, out>>, status' # "priming" \/ status' = status
      PROVE  CausalInv'
  <2>1. \A p \in Pids : HeadPlaced(p)'
    BY <1>3 DEF CausalInv, HeadPlaced
  <2>2. NoRecordAfterItsAck'
    BY <1>3 DEF CausalInv, NoRecordAfterItsAck
  <2>3. \A i \in 1 .. Len(out) : \A q \in Pids \ {out[i].pid} :
           out[i].ack # None /\ frontier'[q].head # None => EndsPast(q, Acked(i, q))'
    BY <1>3 DEF CausalInv, EndsPast, Acked, BareSyn
  <2> QED BY <1>3, <2>1, <2>2, <2>3 DEF CausalInv
<1>4. ASSUME NEW p \in Pids, Refuse(p) PROVE CausalInv'
  BY <1>3, <1>4 DEF Refuse
<1>5. CASE Begin \/ Stall \/ Finish \/ UNCHANGED vars
  BY <1>3, <1>5 DEF Begin, Stall, Finish, vars
<1> QED BY <1>1, <1>2, <1>4, <1>5 DEF Next

\* The merge of two well-formed streams is causal: whatever the sequence space,
\* the records and the length of the streams, no record is yielded after a peer
\* record that already acknowledged it.  Well-formedness is what order.py takes
\* for granted of a stream; without each part of it a run finds a violation.
THEOREM MergeIsCausal ==
    ASSUME Pairwise
    PROVE  Spec /\ []WellFormed => []NoRecordAfterItsAck
<1>1. Init => CausalInv
  BY CausalInit
<1>2. TypeOK /\ TypeOK' /\ WellFormed /\ CausalInv /\ [Next]_vars => CausalInv'
  BY CausalStep
<1>3. CausalInv => NoRecordAfterItsAck
  BY DEF CausalInv
<1>4. Spec => []TypeOK
  BY TypeCorrect
<1> QED BY <1>1, <1>2, <1>3, <1>4, PTL DEF Spec

-------------------------------------------------------------------------------
(* The merged order passes the stored-order check *)

\* Of participant p the check has walked what the merge has yielded: one record
\* less than the frontier, which has loaded its head.
Synced(p) ==
    LET f == frontier[p]
        order == verified.order
    IN  /\ f.loaded = 0 => f.lastSeq = None
        /\ f.head = None =>
              /\ order.placers[p] = f.placer
              /\ order.lastSeq[p] = f.lastSeq
              /\ Pairwise => order.acks[p] = f.acks
        /\ f.head # None =>
              /\ Placed(order.placers[p], f.head) = f.placer
              /\ OffsetOf(order.placers[p], f.head) = f.offset
              /\ ~ PrecedesLastSeq(order, p, f.head)
              /\ f.lastSeq = IF f.head.seq = None THEN order.lastSeq[p] ELSE f.head.seq
              /\ Pairwise => f.acks = IF f.head.ack = None THEN order.acks[p]
                                      ELSE AckObserved(order.acks[p], f.head.ack)
              /\ f.ack = IF f.head.ack = None THEN None ELSE f.acks.position

\* The highest ack the check has seen of p is that of a record the merge yielded.
HighestYielded(p) ==
    verified.order.acks[p].first # None =>
        \E i \in 1 .. Len(out) : out[i].pid = p /\ out[i].ack = verified.order.acks[p].highest

\* The inductive invariant behind MergeVerifies.
VerifyInv ==
    /\ verified.order.ackChecks <=> Pairwise
    /\ \A p \in Pids : Synced(p)
    /\ Pairwise => \A p \in Pids : HighestYielded(p)
    /\ verified.ok

\* Heads are the records loaded last, in every step, whatever the streams are.
LEMMA HeadsStayPlaced ==
    TypeOK /\ (\A p \in Pids : HeadPlaced(p)) /\ [Next]_vars => (\A p \in Pids : HeadPlaced(p))'
<1> SUFFICES ASSUME TypeOK, \A p \in Pids : HeadPlaced(p), [Next]_vars, NEW q \in Pids
             PROVE  HeadPlaced(q)'
  OBVIOUS
<1>1. ASSUME UNCHANGED <<streams, frontier>> PROVE HeadPlaced(q)'
  BY <1>1 DEF HeadPlaced
<1>2. ASSUME NEW p \in Pids, UNCHANGED streams,
             frontier' = [frontier EXCEPT ![p] = AdvancedTo(@, NextOf(@, streams[p]))]
      PROVE  HeadPlaced(q)'
  <2>1. /\ frontier'[p] = AdvancedTo(frontier[p], NextOf(frontier[p], streams[p]))
        /\ \A r \in Pids \ {p} : frontier'[r] = frontier[r]
    BY <1>2 DEF TypeOK
  <2>2. CASE q = p
    BY <1>2, <2>1, <2>2, AdvancePlaces
  <2>3. CASE q # p
    BY <1>2, <2>1, <2>3 DEF HeadPlaced
  <2> QED BY <2>2, <2>3
<1>3. ASSUME NEW p \in Pids, Prime(p) PROVE HeadPlaced(q)'
  BY <1>2, <1>3 DEF Prime
<1>4. ASSUME NEW p \in Pids, Emit(p) PROVE HeadPlaced(q)'
  BY <1>2, <1>4 DEF Emit
<1>5. ASSUME NEW p \in Pids, Refuse(p) PROVE HeadPlaced(q)'
  BY <1>1, <1>5 DEF Refuse
<1>6. CASE Begin \/ Stall \/ Finish \/ UNCHANGED vars
  BY <1>1, <1>6 DEF Begin, Stall, Finish, vars
<1> QED BY <1>3, <1>4, <1>5, <1>6 DEF Next

\* A record that does not raise is walked by the check as the frontier walked it.
LEMMA ObservedEffect ==
    ASSUME NEW order \in OrderType, NEW count \in Nat, NEW p \in Pids, NEW rec \in RecordType,
           ~ OrderRefuses(order, count, p, rec),
           NEW after, after = OrderObserved(order, count, p, rec)
    PROVE  /\ after.ackChecks = order.ackChecks
           /\ after.placers[p] = Placed(order.placers[p], rec)
           /\ after.lastSeq[p] = IF rec.seq = None THEN order.lastSeq[p] ELSE rec.seq
           /\ order.ackChecks => after.acks[p] = IF rec.ack = None THEN order.acks[p]
                                                 ELSE AckObserved(order.acks[p], rec.ack)
           /\ \A q \in Pids \ {p} : /\ after.placers[q] = order.placers[q]
                                    /\ after.lastSeq[q] = order.lastSeq[q]
                                    /\ after.acks[q] = order.acks[q]
<1>1. AckChecksAfter(order, count, p) = order.ackChecks
  <2>1. count # None
    BY NoneAssumption
  <2> QED BY <2>1 DEF AckChecksAfter, OrderType
<1>2. ~ PrecedesLastSeq(order, p, rec)
  BY DEF OrderRefuses
<1> DEFINE scoped == [order EXCEPT !.senders = @ \cup {p}, !.ackChecks = order.ackChecks]
           placed == [scoped EXCEPT
                        !.lastSeq[p] = IF rec.seq = None THEN @ ELSE rec.seq,
                        !.placers[p] = Placed(@, rec)]
           acked  == [placed EXCEPT !.acks[p] = AckObserved(@, rec.ack)]
<1>3. after = IF rec.ack = None \/ ~ order.ackChecks THEN placed ELSE acked
  <2>1. scoped.ackChecks = order.ackChecks
    BY DEF OrderType
  <2> QED BY <1>1, <1>2, <2>1, Zenon DEF OrderObserved
<1>4. /\ scoped.ackChecks = order.ackChecks /\ scoped.placers = order.placers
      /\ scoped.lastSeq = order.lastSeq /\ scoped.acks = order.acks
      /\ DOMAIN scoped = DOMAIN order
  BY DEF OrderType
<1>5. /\ DOMAIN order.placers = Pids /\ DOMAIN order.lastSeq = Pids /\ DOMAIN order.acks = Pids
      /\ {"placers", "lastSeq", "acks", "ackChecks"} \subseteq DOMAIN order
  BY DEF OrderType
<1> HIDE DEF scoped
<1>6. /\ placed.ackChecks = order.ackChecks /\ placed.acks = order.acks
      /\ placed.placers = [order.placers EXCEPT ![p] = Placed(@, rec)]
      /\ placed.lastSeq = [order.lastSeq EXCEPT ![p] = IF rec.seq = None THEN @ ELSE rec.seq]
      /\ DOMAIN placed = DOMAIN order
  BY <1>4, <1>5
<1> HIDE DEF placed
<1>7. /\ acked.ackChecks = order.ackChecks
      /\ acked.acks = [order.acks EXCEPT ![p] = AckObserved(@, rec.ack)]
      /\ acked.placers = placed.placers /\ acked.lastSeq = placed.lastSeq
  BY <1>5, <1>6
<1> HIDE DEF acked
<1>8. after \in {placed, acked}
  BY <1>3
<1>9. after.placers = placed.placers /\ after.lastSeq = placed.lastSeq /\ after.ackChecks = order.ackChecks
  BY <1>6, <1>7, <1>8
<1>10. after.acks = IF rec.ack = None \/ ~ order.ackChecks THEN order.acks
                    ELSE [order.acks EXCEPT ![p] = AckObserved(@, rec.ack)]
  BY <1>3, <1>6, <1>7
<1> QED BY <1>5, <1>6, <1>9, <1>10

\* Where the check has walked as far as the frontier, loading the next record
\* leaves it one behind.
LEMMA LoadSyncs ==
    ASSUME TypeOK, NEW p \in Pids,
           frontier'[p] = AdvancedTo(frontier[p], NextOf(frontier[p], streams[p])),
           ~ AdvanceRefuses(frontier[p], NextOf(frontier[p], streams[p])),
           frontier[p].loaded = 0 => frontier[p].lastSeq = None,
           verified'.order.placers[p] = frontier[p].placer,
           verified'.order.lastSeq[p] = frontier[p].lastSeq,
           Pairwise => verified'.order.acks[p] = frontier[p].acks
    PROVE  Synced(p)'
<1> DEFINE f == frontier[p]
           rec == NextOf(f, streams[p])
           g == frontier'[p]
<1>1. f \in FrontierType /\ f.loaded \in Nat
  BY DEF TypeOK, FrontierType
<1>2. CASE rec = None
  <2>1. /\ g.head = None /\ g.placer = f.placer /\ g.acks = f.acks
        /\ g.lastSeq = f.lastSeq /\ g.loaded = f.loaded
    BY <1>1, <1>2 DEF AdvancedTo, Drained, FrontierType
  <2> QED BY <2>1 DEF Synced
<1>3. CASE rec # None
  <2>1. /\ g.loaded = f.loaded + 1 /\ g.head = rec
        /\ g.lastSeq = IF rec.seq = None THEN f.lastSeq ELSE rec.seq
        /\ g.offset = OffsetOf(f.placer, rec)
        /\ g.placer = Placed(f.placer, rec)
        /\ g.acks = IF rec.ack = None THEN f.acks ELSE AckObserved(f.acks, rec.ack)
        /\ g.ack = IF rec.ack = None THEN None ELSE g.acks.position
    BY <1>3 DEF AdvancedTo, Advanced
  <2>2. g.loaded # 0 /\ g.head # None
    BY <1>1, <1>3, <2>1
  <2>3. ~ PrecedesLastSeq(verified'.order, p, rec)
    BY <1>3 DEF PrecedesLastSeq, AdvanceRefuses
  <2> HIDE DEF g, rec, f
  <2>4. /\ verified'.order.placers[p] = f.placer /\ verified'.order.lastSeq[p] = f.lastSeq
        /\ Pairwise => verified'.order.acks[p] = f.acks
    BY DEF f
  <2> QED BY <2>1, <2>2, <2>3, <2>4 DEF Synced, g
<1> QED BY <1>2, <1>3

LEMMA VerifyInit == Init => VerifyInv
<1> SUFFICES ASSUME Init PROVE VerifyInv
  OBVIOUS
<1>1. /\ frontier = [p \in Pids |-> NewFrontier(isns[p])] /\ out = << >>
      /\ verified = [order |-> NewOrder(Cardinality(Pids), isns), ok |-> TRUE]
  BY DEF Init, Start
<1>2. Cardinality(Pids) # None
  BY PidsAssumption, FS_CardinalityType, NoneAssumption
<1>3. verified.order.ackChecks <=> Pairwise
  BY <1>1, <1>2 DEF NewOrder, Pairwise
<1>4. \A p \in Pids : Synced(p)
  BY <1>1 DEF Synced, NewFrontier, NewOrder
<1>5. \A p \in Pids : HighestYielded(p)
  BY <1>1 DEF HighestYielded, NewOrder, NewAckWalk
<1> QED BY <1>1, <1>3, <1>4, <1>5 DEF VerifyInv

\* The check accepts the record being yielded: it passed the frontier's own
\* seq_start rule when it was loaded, and no ack behind it reaches its end.
LEMMA EmitAccepted ==
    ASSUME TypeOK, VerifyInv, \A q \in Pids : HeadPlaced(q), NEW p \in Pids, Emit(p),
           Pairwise => WellFormed /\ NoRecordAfterItsAck'
    PROVE  ~ OrderRefuses(verified.order, Cardinality(Pids), p, frontier[p].head)
<1> DEFINE f == frontier[p]
           order == verified.order
           end == SequenceEnd(f.head, OffsetOf(order.placers[p], f.head))
           origin == Started(order.placers[p], f.head).origin
<1>1. /\ f.head # None
      /\ f \in FrontierType /\ f.head \in RecordType
      /\ order \in OrderType /\ order.placers[p] \in PlacerType
  <2>1. f.head # None
    BY ReadyHasHead DEF Emit, IsBest
  <2> QED BY <2>1 DEF TypeOK, FrontierType, OrderType
<1>2. Synced(p) /\ HeadPlaced(p) /\ (order.ackChecks <=> Pairwise)
  BY DEF VerifyInv
<1>3. ~ PrecedesLastSeq(order, p, f.head)
  BY <1>1, <1>2 DEF Synced
<1>4. end = f.end
  <2>1. OffsetOf(order.placers[p], f.head) = f.offset
    BY <1>1, <1>2 DEF Synced
  <2>2. f.end = SequenceEnd(f.head, f.offset)
    BY <1>1, <1>2 DEF HeadPlaced
  <2> QED BY <2>1, <2>2
<1>5. ASSUME Pairwise, f.end # None, NEW q \in Pids \ {p}, order.acks[q].first # None,
             f.end <= AckPosition(order.acks[q], order.acks[q].highest, origin)
      PROVE  FALSE
  <2> DEFINE high == order.acks[q].highest
  <2>1. /\ order.acks[q] \in AckWalkType /\ order.acks[q].first \in SeqNum /\ high \in Int
    BY <1>1, <1>5 DEF OrderType, AckWalkType
  <2>2. frontier[q].acks.first = order.acks[q].first
    <3>1. Synced(q) /\ frontier[q] \in FrontierType
      BY DEF VerifyInv, TypeOK
    <3>2. CASE frontier[q].head = None
      BY <1>5, <3>1, <3>2 DEF Synced
    <3>3. CASE frontier[q].head # None
      <4>1. frontier[q].head \in RecordType
        BY <3>1, <3>3 DEF FrontierType
      <4>2. frontier[q].acks = IF frontier[q].head.ack = None THEN order.acks[q]
                               ELSE AckObserved(order.acks[q], frontier[q].head.ack)
        BY <1>5, <3>1, <3>3 DEF Synced
      <4>3. CASE frontier[q].head.ack = None
        BY <4>2, <4>3
      <4>4. CASE frontier[q].head.ack # None
        <5>1. frontier[q].head.ack \in SeqNum
          BY <4>1, <4>4 DEF RecordType
        <5>2. AckObserved(order.acks[q], frontier[q].head.ack).first = order.acks[q].first
          BY <1>5, <2>1, <5>1, AckObservedType
        <5> QED BY <4>2, <4>4, <5>2
      <4> QED BY <4>3, <4>4
    <3> QED BY <3>2, <3>3
  <2>3. f.placer.origin # None /\ f.placer \in PlacerType
    BY <1>1, <1>5 DEF WellFormed, OriginsKnown, FrontierType
  <2>4. origin = f.placer.origin
    <3>1. Placed(order.placers[p], f.head) = f.placer
      BY <1>1, <1>2 DEF Synced
    <3>2. Placed(order.placers[p], f.head).origin = origin
      <4>1. Started(order.placers[p], f.head) \in PlacerType
        BY <1>1, StartedType
      <4> QED BY <4>1 DEF Placed, PlacerType
    <3> QED BY <3>1, <3>2
  <2>5. PICK i \in 1 .. Len(out) : out[i].pid = q /\ out[i].ack = high
    BY <1>5 DEF VerifyInv, HighestYielded
  <2>6. PICK n \in Nat : n = Len(out)
    BY DEF TypeOK
  <2>7. /\ out' = Append(out, [pid |-> p, rec |-> f.head, end |-> f.end, ack |-> f.ack])
        /\ frontier' = [frontier EXCEPT ![p] = AdvancedTo(f, NextOf(f, streams[p]))]
    BY DEF Emit
  <2>8. /\ Len(out') = n + 1 /\ out'[i] = out[i] /\ i \in 1 .. n
        /\ out'[n + 1].pid = p /\ out'[n + 1].end = f.end
    BY <2>5, <2>6, <2>7 DEF TypeOK
  <2>9. frontier'[q].acks.first = order.acks[q].first
    BY <2>2, <2>7 DEF TypeOK
  <2>10. frontier'[p].placer.origin = origin
    <3>1. NextOf(f, streams[p]) \in RecordType \cup {None}
      BY NextOfType
    <3>2. frontier'[p] = AdvancedTo(f, NextOf(f, streams[p]))
      BY <2>7 DEF TypeOK
    <3> QED BY <1>1, <2>3, <2>4, <3>1, <3>2, AdvanceKeeps
  <2>11. AckPosition(frontier'[q].acks, high, frontier'[p].placer.origin) < f.end
    <3>1. high # None
      BY <2>1, NoneAssumption
    <3>2. i \in 1 .. Len(out') /\ n + 1 \in 1 .. Len(out') /\ i < n + 1
      BY <2>6, <2>8
    <3> QED BY <1>5, <2>5, <2>8, <3>1, <3>2 DEF NoRecordAfterItsAck
  <2>12. AckPosition(order.acks[q], high, origin) < f.end
    BY <2>9, <2>10, <2>11 DEF AckPosition
  <2>13. AckPosition(order.acks[q], high, origin) \in Int /\ f.end \in Int
    <3>1. origin \in SeqNum
      BY <2>3, <2>4 DEF PlacerType
    <3> QED BY <1>1, <1>5, <2>1, <3>1, PositionInt DEF FrontierType
  <2> HIDE DEF high, origin, order
  <2> QED BY <1>5, <2>12, <2>13 DEF high
<1>6. CASE ~ Pairwise
  BY <1>2, <1>3, <1>6 DEF OrderRefuses, AckChecksAfter
<1>7. CASE Pairwise
  <2> SUFFICES ASSUME end # None, AlreadyAcked(order, p, end, origin) PROVE FALSE
    BY <1>3 DEF OrderRefuses
  <2> QED BY <1>4, <1>5, <1>7 DEF AlreadyAcked
<1> QED BY <1>6, <1>7

\* Yielding a record the check accepts keeps the two walks one record apart.
LEMMA VerifyEmit ==
    ASSUME TypeOK, VerifyInv, \A q \in Pids : HeadPlaced(q), NEW p \in Pids, Emit(p),
           ~ OrderRefuses(verified.order, Cardinality(Pids), p, frontier[p].head)
    PROVE  VerifyInv'
<1> DEFINE f == frontier[p]
<1>1. PICK order \in OrderType : order = verified.order
  BY DEF TypeOK
<1>2. PICK after : after = OrderObserved(order, Cardinality(Pids), p, f.head)
  OBVIOUS
<1>3. /\ verified'.order = after /\ verified'.ok
      /\ frontier' = [frontier EXCEPT ![p] = AdvancedTo(f, NextOf(f, streams[p]))]
      /\ ~ AdvanceRefuses(f, NextOf(f, streams[p]))
      /\ out' = Append(out, [pid |-> p, rec |-> f.head, end |-> f.end, ack |-> f.ack])
  BY <1>1, <1>2 DEF Emit, VerifyInv
<1>4. f.head # None /\ f \in FrontierType /\ f.head \in RecordType
  <2>1. f.head # None
    BY ReadyHasHead DEF Emit, IsBest
  <2> QED BY <2>1 DEF TypeOK, FrontierType
<1>5. /\ after.ackChecks = order.ackChecks
      /\ after.placers[p] = Placed(order.placers[p], f.head)
      /\ after.lastSeq[p] = IF f.head.seq = None THEN order.lastSeq[p] ELSE f.head.seq
      /\ order.ackChecks => after.acks[p] = IF f.head.ack = None THEN order.acks[p]
                                            ELSE AckObserved(order.acks[p], f.head.ack)
      /\ \A q \in Pids \ {p} : /\ after.placers[q] = order.placers[q]
                               /\ after.lastSeq[q] = order.lastSeq[q]
                               /\ after.acks[q] = order.acks[q]
  <2>1. Cardinality(Pids) \in Nat
    BY PidsAssumption, FS_CardinalityType
  <2> QED BY <1>1, <1>2, <1>4, <2>1, ObservedEffect
<1>6. Synced(p) /\ (order.ackChecks <=> Pairwise)
  BY <1>1 DEF VerifyInv
<1>7. /\ after.placers[p] = f.placer /\ after.lastSeq[p] = f.lastSeq
      /\ Pairwise => after.acks[p] = f.acks
      /\ f.ack = IF f.head.ack = None THEN None ELSE f.acks.position
  BY <1>1, <1>4, <1>5, <1>6 DEF Synced
<1>8. Synced(p)'
  <2>1. frontier'[p] = AdvancedTo(f, NextOf(f, streams[p]))
    BY <1>3 DEF TypeOK
  <2>2. f.loaded = 0 => f.lastSeq = None
    BY <1>6 DEF Synced
  <2> QED BY <1>3, <1>7, <2>1, <2>2, LoadSyncs
<1>9. ASSUME NEW q \in Pids \ {p} PROVE Synced(q)'
  <2>1. frontier'[q] = frontier[q]
    BY <1>3 DEF TypeOK
  <2>2. Synced(q)
    BY DEF VerifyInv
  <2>3. PICK g : g = frontier[q]
    OBVIOUS
  <2> QED BY <1>1, <1>3, <1>5, <2>1, <2>2, <2>3 DEF Synced, PrecedesLastSeq
<1>10. PICK n \in Nat : n = Len(out)
  BY DEF TypeOK
<1>11. /\ Len(out') = n + 1
       /\ \A i \in 1 .. n : out'[i] = out[i]
       /\ out'[n + 1].pid = p /\ out'[n + 1].ack = f.ack
  BY <1>3, <1>10 DEF TypeOK
<1>12. ASSUME Pairwise, NEW q \in Pids, after.acks[q].first # None
       PROVE  \E i \in 1 .. n + 1 : out'[i].pid = q /\ out'[i].ack = after.acks[q].highest
  <2>1. CASE after.acks[q] = order.acks[q]
    <3>1. PICK i \in 1 .. n : out[i].pid = q /\ out[i].ack = order.acks[q].highest
      BY <1>1, <1>10, <1>12, <2>1 DEF VerifyInv, HighestYielded
    <3> QED BY <1>11, <2>1, <3>1
  <2>2. CASE after.acks[q] # order.acks[q]
    <3>1. /\ q = p /\ f.head.ack # None
          /\ after.acks[p] = AckObserved(order.acks[p], f.head.ack)
      BY <1>5, <1>6, <1>12, <2>2
    <3>2. after.acks[p].position = f.ack
      BY <1>7, <1>12, <3>1
    <3>3. CASE order.acks[p].first = None
      <4>1. after.acks[p].highest = after.acks[p].position
        BY <3>1, <3>3 DEF AckObserved
      <4> QED BY <1>11, <3>1, <3>2, <4>1
    <3>4. CASE order.acks[p].first # None
      <4>1. after.acks[p].highest \in {after.acks[p].position, order.acks[p].highest}
        <5>1. order.acks[p] \in AckWalkType
          BY <1>1 DEF OrderType
        <5> QED BY <3>1, <3>4, <5>1 DEF AckObserved, AckWalkType
      <4>2. PICK i \in 1 .. n : out[i].pid = p /\ out[i].ack = order.acks[p].highest
        BY <1>1, <1>10, <1>12, <3>4 DEF VerifyInv, HighestYielded
      <4> QED BY <1>11, <3>1, <3>2, <4>1, <4>2
    <3> QED BY <3>3, <3>4
  <2> QED BY <2>1, <2>2
<1>13. Pairwise => \A q \in Pids : HighestYielded(q)'
  BY <1>3, <1>11, <1>12 DEF HighestYielded
<1> QED BY <1>3, <1>5, <1>6, <1>8, <1>9, <1>13 DEF VerifyInv

\* Loading a stream's first record leaves the walks one record apart.
LEMMA VerifyPrime ==
    ASSUME TypeOK, VerifyInv, \A q \in Pids : HeadPlaced(q), NEW p \in Pids, Prime(p)
    PROVE  VerifyInv'
<1> DEFINE f == frontier[p]
<1>1. /\ UNCHANGED <<verified, out, streams>>
      /\ frontier' = [frontier EXCEPT ![p] = AdvancedTo(f, NextOf(f, streams[p]))]
  BY DEF Prime
<1>2. f.loaded = 0 /\ f.lastSeq = None /\ f.head = None
  <2>1. f.loaded \in Nat
    BY DEF TypeOK, FrontierType
  <2> QED BY <2>1 DEF Prime, Primed, VerifyInv, Synced, HeadPlaced
<1>3. Synced(p)'
  <2>1. frontier'[p] = AdvancedTo(f, NextOf(f, streams[p]))
    BY <1>1 DEF TypeOK
  <2>2. ~ AdvanceRefuses(f, NextOf(f, streams[p]))
    BY <1>2 DEF AdvanceRefuses
  <2>3. Synced(p)
    BY DEF VerifyInv
  <2>4. /\ verified'.order.placers[p] = f.placer /\ verified'.order.lastSeq[p] = f.lastSeq
        /\ Pairwise => verified'.order.acks[p] = f.acks
    BY <1>1, <1>2, <2>3 DEF Synced
  <2> QED BY <1>2, <2>1, <2>2, <2>4, LoadSyncs
<1>4. ASSUME NEW q \in Pids \ {p} PROVE Synced(q)'
  <2>1. frontier'[q] = frontier[q] /\ verified' = verified
    BY <1>1 DEF TypeOK
  <2> QED BY <2>1 DEF VerifyInv, Synced
<1>5. \A q \in Pids : HighestYielded(q) => HighestYielded(q)'
  BY <1>1 DEF HighestYielded
<1> QED BY <1>1, <1>3, <1>4, <1>5 DEF VerifyInv

\* Every step keeps the walks one record apart, as long as what is yielded is
\* in causal order when acks order anything.
LEMMA VerifyStep ==
    /\ TypeOK /\ (\A p \in Pids : HeadPlaced(p)) /\ VerifyInv /\ [Next]_vars
    /\ Pairwise => WellFormed /\ NoRecordAfterItsAck'
    => VerifyInv'
<1> SUFFICES ASSUME TypeOK, \A p \in Pids : HeadPlaced(p), VerifyInv, [Next]_vars,
                    Pairwise => WellFormed /\ NoRecordAfterItsAck'
             PROVE  VerifyInv'
  OBVIOUS
<1>1. ASSUME NEW p \in Pids, Prime(p) PROVE VerifyInv'
  BY <1>1, VerifyPrime
<1>2. ASSUME NEW p \in Pids, Emit(p) PROVE VerifyInv'
  BY <1>2, EmitAccepted, VerifyEmit
<1>3. ASSUME UNCHANGED <<frontier, out, verified>> PROVE VerifyInv'
  BY <1>3 DEF VerifyInv, Synced, HighestYielded
<1>4. ASSUME NEW p \in Pids, Refuse(p) PROVE VerifyInv'
  BY <1>3, <1>4 DEF Refuse
<1>5. CASE Begin \/ Stall \/ Finish \/ UNCHANGED vars
  BY <1>3, <1>5 DEF Begin, Stall, Finish, vars
<1> QED BY <1>1, <1>2, <1>4, <1>5 DEF Next

\* Before anything is read, no frontier has a head.
LEMMA InitPlaced == Init => \A p \in Pids : HeadPlaced(p)
  BY CausalInit DEF CausalInv

\* What the merge yields passes the stored-order check a SEQUENCED session is
\* held to, whatever the sequence space, the records and the participants: the
\* offline order of _flush_pending is one verify_sequenced accepts.  For a pair
\* the streams must be well formed, which order.py takes for granted; for any
\* other number of participants nothing is asked of them.
THEOREM MergeAlwaysVerifies == Spec /\ [](Pairwise => WellFormed) => []MergeVerifies
<1> DEFINE AllPlaced == \A p \in Pids : HeadPlaced(p)
           PairCausal == Pairwise => CausalInv
<1>1. Init => AllPlaced /\ VerifyInv /\ PairCausal
  BY InitPlaced, VerifyInit, CausalInit
<1>2. TypeOK /\ AllPlaced /\ [Next]_vars => AllPlaced'
  BY HeadsStayPlaced
<1>3. TypeOK /\ TypeOK' /\ (Pairwise => WellFormed) /\ PairCausal /\ [Next]_vars => PairCausal'
  <2>1. Pairwise' <=> Pairwise
    BY DEF Pairwise
  <2> QED BY <2>1, CausalStep
<1>4. /\ TypeOK /\ AllPlaced /\ VerifyInv /\ (Pairwise => WellFormed) /\ PairCausal' /\ [Next]_vars
      => VerifyInv'
  <2>1. Pairwise /\ PairCausal' => NoRecordAfterItsAck'
    BY DEF CausalInv, Pairwise
  <2> QED BY <2>1, VerifyStep
<1>5. VerifyInv => MergeVerifies
  BY DEF VerifyInv, MergeVerifies
<1>6. Spec => []TypeOK
  BY TypeCorrect
<1> HIDE DEF AllPlaced, PairCausal
<1> QED BY <1>1, <1>2, <1>3, <1>4, <1>5, <1>6, PTL DEF Spec

-------------------------------------------------------------------------------
(* The merge by clocks *)

\* A yielded record does not come after what p has yet to yield.
NotAfter(item, p) ==
    frontier[p].head # None =>
        \/ item.rec.ts < frontier[p].head.ts
        \/ item.rec.ts = frontier[p].head.ts /\ item.pid <= p

\* The inductive invariant behind ClockMergeSorted.
ClockInv ==
    ~ Pairwise /\ (\A p \in Pids : ClockSorted(streams[p])) =>
        /\ status = "priming" => out = << >>
        /\ \A i \in 1 .. Len(out) : \A p \in Pids : NotAfter(out[i], p)
        /\ ClockMergeSorted

\* With no acks to heed, the record yielded is the least head, and its stream's
\* next is no earlier.
LEMMA ClockEmit ==
    ASSUME TypeOK, ~ Pairwise, \A q \in Pids : ClockSorted(streams[q]),
           \A q \in Pids : HeadPlaced(q), ClockInv, NEW p \in Pids, Emit(p)
    PROVE  ClockInv'
<1> DEFINE f == frontier[p]
           rec == NextOf(f, streams[p])
           g == AdvancedTo(f, rec)
<1>1. /\ out' = Append(out, [pid |-> p, rec |-> f.head, end |-> f.end, ack |-> f.ack])
      /\ frontier' = [frontier EXCEPT ![p] = g]
      /\ status = "merging" /\ UNCHANGED <<status, streams>>
  BY DEF Emit
<1>2. f.head # None /\ f \in FrontierType /\ f.head.ts \in Int /\ p \in Nat
  <2>1. f.head # None
    BY ReadyHasHead DEF Emit, IsBest
  <2> QED BY <2>1, PidsAssumption DEF TypeOK, FrontierType, RecordType
<1>3. PICK n \in Nat : n = Len(out)
  BY DEF TypeOK
<1>4. /\ Len(out') = n + 1
      /\ \A i \in 1 .. n : out'[i] = out[i] /\ out[i].rec.ts \in Int /\ out[i].pid \in Nat
      /\ out'[n + 1].pid = p /\ out'[n + 1].rec = f.head
  <2>1. /\ Len(out') = n + 1
        /\ \A i \in 1 .. n : out'[i] = out[i] /\ out[i] \in OutType
        /\ out'[n + 1] = [pid |-> p, rec |-> f.head, end |-> f.end, ack |-> f.ack]
    BY <1>1, <1>3 DEF TypeOK
  <2>2. \A item \in OutType : item.rec.ts \in Int /\ item.pid \in Nat
    BY PidsAssumption DEF OutType, RecordType
  <2> QED BY <2>1, <2>2
<1>5. ASSUME NEW q \in Pids \ {p}, frontier[q].head # None
      PROVE  /\ frontier[q].head.ts \in Int /\ q \in Nat
             /\ f.head.ts < frontier[q].head.ts \/ (f.head.ts = frontier[q].head.ts /\ p <= q)
  <2>1. q \in Ready
    BY <1>5 DEF Ready
  <2>2. Before(p, q)
    BY <2>1 DEF Emit, IsBest
  <2>3. frontier[q].head \in RecordType
    BY <1>5 DEF TypeOK, FrontierType
  <2> QED BY <2>2, <2>3, PidsAssumption DEF Before, RecordType
<1>6. g.head # None => g.head.ts \in Int /\ f.head.ts <= g.head.ts
  <2>1. CASE rec = None
    BY <1>2, <2>1 DEF AdvancedTo, Drained, FrontierType
  <2>2. CASE rec # None
    <3>1. g.head = rec
      BY <2>2 DEF AdvancedTo, Advanced
    <3>2. f.loaded < Len(streams[p]) /\ rec = streams[p][f.loaded + 1]
      BY <2>2 DEF NextOf
    <3>3. f.loaded > 0 /\ f.head = streams[p][f.loaded] /\ f.loaded \in Nat
      BY <1>2 DEF HeadPlaced, FrontierType
    <3>4. Len(streams[p]) \in Nat
      BY DEF TypeOK
    <3>5. f.loaded \in 1 .. Len(streams[p]) /\ f.loaded + 1 \in 1 .. Len(streams[p])
      BY <3>2, <3>3, <3>4
    <3>6. streams[p][f.loaded].ts <= streams[p][f.loaded + 1].ts
      BY <3>3, <3>5 DEF ClockSorted
    <3>7. rec.ts \in Int
      BY <2>2, NextOfType DEF RecordType
    <3> QED BY <3>1, <3>2, <3>3, <3>6, <3>7
  <2> QED BY <2>1, <2>2
<1>7. /\ frontier'[p] = g
      /\ \A q \in Pids \ {p} : frontier'[q] = frontier[q]
  BY <1>1 DEF TypeOK
<1> HIDE DEF g, rec
<1>8. ASSUME NEW i \in 1 .. n
      PROVE  \/ out[i].rec.ts < f.head.ts
             \/ out[i].rec.ts = f.head.ts /\ out[i].pid <= p
  BY <1>2, <1>3, <1>8 DEF ClockInv, NotAfter
<1>9. ASSUME NEW i \in 1 .. n + 1, NEW q \in Pids PROVE NotAfter(out[i], q)'
  <2>1. CASE q = p
    <3>1. CASE i \in 1 .. n
      BY <1>2, <1>4, <1>6, <1>7, <1>8, <2>1, <3>1 DEF NotAfter
    <3>2. CASE i = n + 1
      BY <1>2, <1>4, <1>6, <1>7, <2>1, <3>2 DEF NotAfter
    <3> QED BY <3>1, <3>2
  <2>2. CASE q # p
    <3>1. CASE i \in 1 .. n
      BY <1>3, <1>4, <1>7, <2>2, <3>1 DEF ClockInv, NotAfter
    <3>2. CASE i = n + 1
      BY <1>4, <1>5, <1>7, <2>2, <3>2 DEF NotAfter
    <3> QED BY <3>1, <3>2
  <2> QED BY <2>1, <2>2
<1>10. ASSUME NEW i \in 1 .. n + 1, NEW j \in 1 .. n + 1, i < j
       PROVE  \/ out'[i].rec.ts < out'[j].rec.ts
              \/ out'[i].rec.ts = out'[j].rec.ts /\ out'[i].pid <= out'[j].pid
  <2>1. i \in 1 .. n
    BY <1>10
  <2>2. CASE j \in 1 .. n
    BY <1>3, <1>4, <1>10, <2>1, <2>2 DEF ClockInv, ClockMergeSorted
  <2>3. CASE j = n + 1
    BY <1>4, <1>8, <2>1, <2>3
  <2> QED BY <2>2, <2>3
<1>11. ClockMergeSorted'
  BY <1>4, <1>10 DEF ClockMergeSorted
<1> QED BY <1>1, <1>4, <1>9, <1>11 DEF ClockInv

\* Every step keeps the invariant.
LEMMA ClockStep ==
    TypeOK /\ (\A p \in Pids : HeadPlaced(p)) /\ ClockInv /\ [Next]_vars => ClockInv'
<1> SUFFICES ASSUME TypeOK, \A p \in Pids : HeadPlaced(p), ClockInv, [Next]_vars,
                    ~ Pairwise, \A p \in Pids : ClockSorted(streams'[p])
             PROVE  ClockInv'
  BY DEF ClockInv, Pairwise
<1>1. streams' = streams
  BY DEF Next, Prime, Emit, Refuse, Begin, Stall, Finish, vars
<1>2. ASSUME NEW p \in Pids, Emit(p) PROVE ClockInv'
  BY <1>1, <1>2, ClockEmit
<1>3. ASSUME NEW p \in Pids, Prime(p) PROVE ClockInv'
  <2>1. out' = << >> /\ Len(out') = 0
    BY <1>1, <1>3 DEF Prime, ClockInv
  <2> QED BY <2>1 DEF ClockInv, ClockMergeSorted
<1>4. ASSUME UNCHANGED <<frontier, out>>, status' # "priming" \/ status' = status
      PROVE  ClockInv'
  <2>1. ClockMergeSorted'
    BY <1>1, <1>4 DEF ClockInv, ClockMergeSorted
  <2>2. \A i \in 1 .. Len(out) : \A p \in Pids : NotAfter(out[i], p)'
    BY <1>1, <1>4 DEF ClockInv, NotAfter
  <2> QED BY <1>1, <1>4, <2>1, <2>2 DEF ClockInv
<1>5. ASSUME NEW p \in Pids, Refuse(p) PROVE ClockInv'
  BY <1>4, <1>5 DEF Refuse
<1>6. CASE Begin \/ Stall \/ Finish \/ UNCHANGED vars
  BY <1>4, <1>6 DEF Begin, Stall, Finish, vars
<1> QED BY <1>2, <1>3, <1>5, <1>6 DEF Next

\* With any number of participants but two, the merge of streams whose clocks
\* never run backwards comes out sorted by (timestamp, pid), as causal_merge's
\* docstring promises: every head it compares is its stream's earliest.
THEOREM ClockMergeAlwaysSorted == Spec => []ClockMergeSorted
<1> DEFINE AllPlaced == \A p \in Pids : HeadPlaced(p)
<1>1. Init => AllPlaced /\ ClockInv
  <2>1. Init => out = << >> /\ Len(out) = 0
    BY DEF Init, Start
  <2> QED BY <2>1, InitPlaced DEF ClockInv, ClockMergeSorted
<1>2. TypeOK /\ AllPlaced /\ [Next]_vars => AllPlaced'
  BY HeadsStayPlaced
<1>3. TypeOK /\ AllPlaced /\ ClockInv /\ [Next]_vars => ClockInv'
  BY ClockStep
<1>4. ClockInv => ClockMergeSorted
  BY DEF ClockInv, ClockMergeSorted
<1>5. Spec => []TypeOK
  BY TypeCorrect
<1> HIDE DEF AllPlaced
<1> QED BY <1>1, <1>2, <1>3, <1>4, <1>5, PTL DEF Spec

-------------------------------------------------------------------------------
(* The merge implements the abstract causal order *)

\* The offset walk over a stream is made record by record.
LEMMA PlacedOverWalks ==
    ASSUME NEW stream \in Seq(RecordType), NEW isn \in SeqNum \cup {None}
    PROVE  /\ PlacedOver(stream, isn, 0) = NewPlacer(isn)
           /\ \A n \in 1 .. Len(stream) :
                 PlacedOver(stream, isn, n) = Placed(PlacedOver(stream, isn, n - 1), stream[n])
           /\ \A n \in 0 .. Len(stream) : PlacedOver(stream, isn, n) \in PlacerType
<1>1. PICK k \in Nat : k = Len(stream)
  OBVIOUS
<1>2. \A n \in 1 .. k : stream[n] \in RecordType
  BY <1>1
<1> DEFINE D == PlacerType
<1>3. PICK step : step = [n \in 1 .. k |-> [x \in D |-> Placed(x, stream[n])]]
  OBVIOUS
<1>4. \A n \in 1 .. k : \A x \in D : Placed(x, stream[n]) \in D
  BY <1>2, PlacedType
<1>5. NewPlacer(isn) \in D
  BY NewPlacerType
<1> HIDE DEF D
<1>6. PICK f : LeadsFrom(NewPlacer(isn), step, k, D, f)
  <2>1. step \in Steps(k, D)
    BY <1>3, <1>4 DEF Steps
  <2>2. k \in Nat
    BY <1>1
  <2> QED BY <1>5, <2>1, <2>2, WalkExists
<1> DEFINE Walk(g) == g = [i \in 0 .. Len(stream) |->
                             IF i = 0 THEN NewPlacer(isn) ELSE Placed(g[i - 1], stream[i])]
           walk == CHOOSE g : Walk(g)
<1>7. Walk(f)
  <2>1. \A n \in 0 .. k : f[n] = IF n = 0 THEN NewPlacer(isn) ELSE Placed(f[n - 1], stream[n])
    BY <1>1, <1>3, <1>6 DEF LeadsFrom
  <2>2. f = [n \in 0 .. k |-> f[n]]
    BY <1>6 DEF LeadsFrom
  <2>3. f = [n \in 0 .. k |-> IF n = 0 THEN NewPlacer(isn) ELSE Placed(f[n - 1], stream[n])]
    BY <2>1, <2>2
  <2> QED BY <1>1, <2>3
<1>8. Walk(walk)
  BY <1>7
<1>9. \A n : PlacedOver(stream, isn, n) = walk[n]
  BY DEF PlacedOver
<1> HIDE DEF walk
<1>10. /\ walk[0] = NewPlacer(isn)
       /\ \A n \in 1 .. k : walk[n] = Placed(walk[n - 1], stream[n])
  <2>1. \A n \in 0 .. k : walk[n] = IF n = 0 THEN NewPlacer(isn) ELSE Placed(walk[n - 1], stream[n])
    BY <1>1, <1>8
  <2> QED BY <2>1
<1>11. \A n \in 0 .. k : walk[n] \in D
  <2>1. walk[0] \in D /\ \A n \in 1 .. k : walk[n - 1] \in D => walk[n] \in D
    BY <1>4, <1>5, <1>10
  <2> QED BY <2>1, WalkStays
<1> QED BY <1>1, <1>9, <1>10, <1>11 DEF D

\* So is the ack walk.
LEMMA AcksOverWalks ==
    ASSUME NEW stream \in Seq(RecordType)
    PROVE  /\ AcksOver(stream, 0) = NewAckWalk
           /\ \A n \in 1 .. Len(stream) :
                 AcksOver(stream, n) = IF stream[n].ack = None THEN AcksOver(stream, n - 1)
                                       ELSE AckObserved(AcksOver(stream, n - 1), stream[n].ack)
           /\ \A n \in 0 .. Len(stream) : AcksOver(stream, n) \in AckWalkType
<1> DEFINE Heard(x, n) == IF stream[n].ack = None THEN x ELSE AckObserved(x, stream[n].ack)
<1>1. PICK k \in Nat : k = Len(stream)
  OBVIOUS
<1>2. ASSUME NEW n \in 1 .. k, NEW x \in AckWalkType PROVE Heard(x, n) \in AckWalkType
  <2>1. stream[n].ack \in SeqNum \cup {None}
    <3>1. stream[n] \in RecordType
      BY <1>1
    <3> QED BY <3>1 DEF RecordType
  <2> QED BY <2>1, AckObservedType
<1> DEFINE D == AckWalkType
<1>3. PICK step : step = [n \in 1 .. k |-> [x \in D |-> Heard(x, n)]]
  OBVIOUS
<1>4. \A n \in 1 .. k : \A x \in D : Heard(x, n) \in D
  BY <1>2
<1>5. NewAckWalk \in D
  BY DEF NewAckWalk, AckWalkType
<1> HIDE DEF D
<1>6. PICK f : LeadsFrom(NewAckWalk, step, k, D, f)
  <2> HIDE DEF Heard
  <2>1. step \in Steps(k, D)
    BY <1>3, <1>4 DEF Steps
  <2>2. k \in Nat
    BY <1>1
  <2> QED BY <1>5, <2>1, <2>2, WalkExists
<1> DEFINE Walk(g) == g = [i \in 0 .. Len(stream) |->
                             IF i = 0 THEN NewAckWalk ELSE IF stream[i].ack = None THEN g[i - 1]
                             ELSE AckObserved(g[i - 1], stream[i].ack)]
           walk == CHOOSE g : Walk(g)
<1>7. Walk(f)
  <2>1. \A n \in 0 .. k : f[n] = IF n = 0 THEN NewAckWalk ELSE Heard(f[n - 1], n)
    <3> HIDE DEF Heard
    <3> QED BY <1>1, <1>3, <1>6 DEF LeadsFrom
  <2>2. f = [n \in 0 .. k |-> f[n]]
    BY <1>6 DEF LeadsFrom
  <2>3. f = [n \in 0 .. k |-> IF n = 0 THEN NewAckWalk ELSE Heard(f[n - 1], n)]
    BY <2>1, <2>2
  <2> QED BY <1>1, <2>3
<1>8. Walk(walk)
  BY <1>7
<1>9. \A n : AcksOver(stream, n) = walk[n]
  BY DEF AcksOver
<1> HIDE DEF walk
<1>10. /\ walk[0] = NewAckWalk
       /\ \A n \in 1 .. k : walk[n] = Heard(walk[n - 1], n)
  <2>1. \A n \in 0 .. k : walk[n] = IF n = 0 THEN NewAckWalk ELSE Heard(walk[n - 1], n)
    BY <1>1, <1>8
  <2> QED BY <2>1
<1>11. \A n \in 0 .. k : walk[n] \in D
  <2> HIDE DEF Heard
  <2>1. walk[0] \in D /\ \A n \in 1 .. k : walk[n - 1] \in D => walk[n] \in D
    BY <1>4, <1>5, <1>10
  <2> QED BY <2>1, WalkStays
<1> QED BY <1>1, <1>9, <1>10, <1>11 DEF D

\* A record more in the merge is a record more of its participant.
LEMMA RecordsInWalks ==
    ASSUME NEW merged \in Seq(OutType), NEW p \in Pids
    PROVE  \E f \in [0 .. Len(merged) -> Seq(RecordType)] :
              /\ RecordsIn(merged, p) = f[Len(merged)]
              /\ f[0] = << >>
              /\ \A n \in 1 .. Len(merged) :
                    f[n] = IF merged[n].pid = p THEN Append(f[n - 1], merged[n].rec) ELSE f[n - 1]
<1> DEFINE D == Seq(RecordType)
           Taking(x, n) == IF merged[n].pid = p THEN Append(x, merged[n].rec) ELSE x
<1>1. PICK k \in Nat : k = Len(merged)
  OBVIOUS
<1>2. ASSUME NEW n \in 1 .. k, NEW x \in D PROVE Taking(x, n) \in D
  <2>1. merged[n].rec \in RecordType
    <3>1. merged[n] \in OutType
      BY <1>1
    <3> QED BY <3>1 DEF OutType
  <2> QED BY <2>1
<1>3. PICK step : step = [n \in 1 .. k |-> [x \in D |-> Taking(x, n)]]
  OBVIOUS
<1>4. \A n \in 1 .. k : \A x \in D : Taking(x, n) \in D
  BY <1>2
<1>5. << >> \in D
  OBVIOUS
<1> HIDE DEF D
<1>6. PICK f : LeadsFrom(<< >>, step, k, D, f)
  <2> HIDE DEF Taking
  <2>1. step \in Steps(k, D)
    BY <1>3, <1>4 DEF Steps
  <2>2. k \in Nat
    BY <1>1
  <2> QED BY <1>5, <2>1, <2>2, WalkExists
<1> DEFINE Walk(g) == g = [n \in 0 .. Len(merged) |->
                             IF n = 0 THEN << >>
                             ELSE IF merged[n].pid = p THEN Append(g[n - 1], merged[n].rec) ELSE g[n - 1]]
           walk == CHOOSE g : Walk(g)
<1>7. Walk(f)
  <2>1. \A n \in 0 .. k : f[n] = IF n = 0 THEN << >> ELSE Taking(f[n - 1], n)
    <3> HIDE DEF Taking
    <3> QED BY <1>1, <1>3, <1>6 DEF LeadsFrom
  <2>2. f = [n \in 0 .. k |-> f[n]]
    BY <1>6 DEF LeadsFrom
  <2>3. f = [n \in 0 .. k |-> IF n = 0 THEN << >> ELSE Taking(f[n - 1], n)]
    BY <2>1, <2>2
  <2> QED BY <1>1, <2>3
<1>8. Walk(walk)
  BY <1>7
<1>9. RecordsIn(merged, p) = walk[k]
  BY <1>1 DEF RecordsIn
<1> HIDE DEF walk
<1>10. /\ walk[0] = << >>
       /\ \A n \in 1 .. k : walk[n] = Taking(walk[n - 1], n)
       /\ walk = [n \in 0 .. k |-> walk[n]]
  <2>1. walk = [n \in 0 .. k |-> IF n = 0 THEN << >> ELSE Taking(walk[n - 1], n)]
    BY <1>1, <1>8
  <2>2. \A n \in 0 .. k : walk[n] = IF n = 0 THEN << >> ELSE Taking(walk[n - 1], n)
    BY <2>1
  <2>3. walk = [n \in 0 .. k |-> walk[n]]
    <3> HIDE DEF Taking
    <3> QED BY <2>1
  <2> HIDE DEF Taking
  <2> QED BY <1>1, <2>2, <2>3
<1>11. \A n \in 0 .. k : walk[n] \in D
  <2> HIDE DEF Taking
  <2>1. walk[0] \in D /\ \A n \in 1 .. k : walk[n - 1] \in D => walk[n] \in D
    BY <1>4, <1>5, <1>10
  <2> QED BY <2>1, WalkStays
<1>12. walk \in [0 .. k -> D]
  BY <1>10, <1>11
<1> QED BY <1>1, <1>9, <1>10, <1>12 DEF D

\* Yielding a record adds it to its participant's, and to no other's.
LEMMA RecordsInAppend ==
    ASSUME NEW merged \in Seq(OutType), NEW new \in OutType, NEW p \in Pids
    PROVE  /\ RecordsIn(Append(merged, new), p) =
                 IF new.pid = p THEN Append(RecordsIn(merged, p), new.rec) ELSE RecordsIn(merged, p)
           /\ RecordsIn(merged, p) \in Seq(RecordType)
<1>1. PICK longer \in Seq(OutType) : longer = Append(merged, new)
  <2>1. Append(merged, new) \in Seq(OutType)
    OBVIOUS
  <2> QED BY <2>1, Zenon
<1>2. PICK k \in Nat : k = Len(merged)
  OBVIOUS
<1>3. /\ Len(longer) = k + 1
      /\ longer[k + 1] = new
      /\ \A n \in 1 .. k : longer[n] = merged[n]
  BY <1>1, <1>2
<1>4. PICK f \in [0 .. Len(merged) -> Seq(RecordType)] :
        /\ RecordsIn(merged, p) = f[Len(merged)]
        /\ f[0] = << >>
        /\ \A n \in 1 .. Len(merged) :
              f[n] = IF merged[n].pid = p THEN Append(f[n - 1], merged[n].rec) ELSE f[n - 1]
  BY RecordsInWalks
<1>5. PICK g \in [0 .. Len(longer) -> Seq(RecordType)] :
        /\ RecordsIn(longer, p) = g[Len(longer)]
        /\ g[0] = << >>
        /\ \A n \in 1 .. Len(longer) :
              g[n] = IF longer[n].pid = p THEN Append(g[n - 1], longer[n].rec) ELSE g[n - 1]
  BY RecordsInWalks
<1>6. g[k] = f[k]
  <2> DEFINE T == { n \in 0 .. k : g[n] # f[n] }
  <2> SUFFICES ASSUME T # {} PROVE FALSE
    BY <1>2 DEF T
  <2>1. PICK m \in T : \A n \in T : m <= n
    <3>1. T \subseteq Nat
      BY <1>2
    <3> QED BY <3>1, LeastNatural
  <2>2. m # 0
    BY <1>4, <1>5, <2>1
  <2>3. m \in 1 .. k /\ m - 1 \in 0 .. k /\ m \in 1 .. Len(longer) /\ m - 1 < m
    BY <1>2, <1>3, <2>1, <2>2
  <2>4. g[m - 1] = f[m - 1]
    <3>1. m - 1 \notin T
      <4> HIDE DEF T
      <4> QED BY <2>1, <2>3
    <3> QED BY <2>3, <3>1
  <2>5. f[m] = IF merged[m].pid = p THEN Append(f[m - 1], merged[m].rec) ELSE f[m - 1]
    BY <1>2, <1>4, <2>3
  <2>6. g[m] = IF longer[m].pid = p THEN Append(g[m - 1], longer[m].rec) ELSE g[m - 1]
    BY <1>5, <2>3
  <2>7. longer[m] = merged[m] /\ g[m] # f[m]
    BY <1>3, <2>1, <2>3
  <2> HIDE DEF T
  <2> QED BY <2>4, <2>5, <2>6, <2>7
<1>7. g[k + 1] = IF new.pid = p THEN Append(g[k], new.rec) ELSE g[k]
  <2>1. k + 1 \in 1 .. Len(longer) /\ (k + 1) - 1 = k
    BY <1>2, <1>3
  <2> QED BY <1>3, <1>5, <2>1
<1>8. RecordsIn(merged, p) = g[k] /\ RecordsIn(longer, p) = g[k + 1]
  BY <1>2, <1>3, <1>4, <1>5, <1>6
<1>9. g[k] \in Seq(RecordType)
  BY <1>2, <1>3, <1>5
<1> QED BY <1>1, <1>7, <1>8, <1>9

\* Of nothing yielded, nothing is a participant's.
LEMMA RecordsInNone == \A p \in Pids : RecordsIn(<< >>, p) = << >>
<1> SUFFICES ASSUME NEW p \in Pids PROVE RecordsIn(<< >>, p) = << >>
  OBVIOUS
<1>1. PICK empty \in Seq(OutType) : empty = << >>
  <2>1. << >> \in Seq(OutType)
    OBVIOUS
  <2> QED BY <2>1, Zenon
<1>2. Len(empty) = 0
  BY <1>1
<1>3. PICK f : RecordsIn(empty, p) = f[Len(empty)] /\ f[0] = << >>
  BY RecordsInWalks
<1> QED BY <1>1, <1>2, <1>3

\* Once a stream's origin is known it stays, and its walk never goes back.
LEMMA PlacedKeeps ==
    ASSUME NEW stream \in Seq(RecordType), NEW isn \in SeqNum \cup {None},
           NEW i \in 0 .. Len(stream), PlacedOver(stream, isn, i).origin # None
    PROVE  \A n \in i .. Len(stream) :
              /\ PlacedOver(stream, isn, n).origin = PlacedOver(stream, isn, i).origin
              /\ PlacedOver(stream, isn, n).position >= PlacedOver(stream, isn, i).position
<1> DEFINE at(n) == PlacedOver(stream, isn, n)
           Kept(n) == at(n).origin = at(i).origin /\ at(n).position >= at(i).position
           T == { n \in i .. Len(stream) : ~ Kept(n) }
<1> SUFFICES ASSUME T # {} PROVE FALSE
  BY DEF T
<1>1. PICK k \in Nat : k = Len(stream)
  OBVIOUS
<1>2. /\ \A n \in 1 .. k : at(n) = Placed(at(n - 1), stream[n]) /\ stream[n] \in RecordType
      /\ \A n \in 0 .. k : at(n) \in PlacerType
  BY <1>1, PlacedOverWalks
<1> HIDE DEF at
<1>3. \A n \in 0 .. k : at(n).position \in Nat
  BY <1>2 DEF PlacerType
<1>4. PICK m \in T : \A n \in T : m <= n
  <2>1. T \subseteq Nat
    BY <1>1
  <2> QED BY <2>1, LeastNatural
<1>5. m \in i .. k /\ m # i /\ i \in 0 .. k
  BY <1>1, <1>3, <1>4
<1>6. m \in 1 .. k /\ m - 1 \in i .. k /\ m - 1 \in 0 .. k /\ m - 1 < m
  BY <1>1, <1>5
<1>7. Kept(m - 1)
  <2>1. m - 1 \notin T
    <3> HIDE DEF T
    <3> QED BY <1>4, <1>6
  <2> QED BY <1>1, <1>6, <2>1
<1>8. at(m - 1).origin # None
  BY <1>7 DEF at
<1>9. at(m - 1) \in PlacerType /\ stream[m] \in RecordType /\ at(m) = Placed(at(m - 1), stream[m])
  BY <1>2, <1>6
<1>10. Started(at(m - 1), stream[m]) = at(m - 1)
  BY <1>8, <1>9, StartedType
<1>11. at(m).origin = at(m - 1).origin
  BY <1>8, <1>9, PlacedType
<1>12. at(m).position >= at(m - 1).position
  <2>1. CASE OffsetOf(at(m - 1), stream[m]) = None
    BY <1>3, <1>6, <1>9, <1>10, <2>1, PlacedType
  <2>2. CASE OffsetOf(at(m - 1), stream[m]) # None
    BY <1>9, <1>10, <2>2, PlacedType, OffsetNotBelow
  <2> QED BY <2>1, <2>2
<1>13. at(m).position >= at(i).position
  BY <1>3, <1>5, <1>6, <1>7, <1>12
<1> QED BY <1>4, <1>7, <1>11, <1>13

\* A stream that starts at its origin knows it from its first record on.
LEMMA OriginSettled ==
    ASSUME NEW stream \in Seq(RecordType), NEW isn \in SeqNum \cup {None},
           OriginFirst(stream, isn), NEW i \in 1 .. Len(stream)
    PROVE  /\ PlacedOver(stream, isn, i).origin # None
           /\ PlacedOver(stream, isn, i).origin = PlacedOver(stream, isn, Len(stream)).origin
<1>1. PICK k \in Nat : k = Len(stream)
  OBVIOUS
<1>2. i \in 1 .. k /\ 1 \in 1 .. k /\ 0 \in 0 .. k /\ 1 \in 0 .. k /\ 1 - 1 = 0 /\ k \in 1 .. k
  BY <1>1
<1>3. /\ PlacedOver(stream, isn, 0) = NewPlacer(isn)
      /\ PlacedOver(stream, isn, 1) = Placed(PlacedOver(stream, isn, 0), stream[1])
      /\ PlacedOver(stream, isn, 0) \in PlacerType
      /\ stream[1] \in RecordType
  BY <1>1, <1>2, PlacedOverWalks
<1>4. PlacedOver(stream, isn, 1).origin # None
  <2>1. CASE isn # None
    <3>1. NewPlacer(isn).origin # None
      <4>1. (isn + 1) % SeqSpace \in SeqNum
        BY <2>1, SeqSpaceAssumption DEF SeqNum
      <4> QED BY <2>1, <4>1, NoneAssumption DEF NewPlacer, PlacerAt, SeqNum
    <3> QED BY <1>3, <3>1, PlacedType
  <2>2. CASE isn = None
    <3>1. stream[1].seq # None
      BY <1>1, <1>2, <2>2 DEF OriginFirst
    <3>2. Started(PlacedOver(stream, isn, 0), stream[1]).origin \in SeqNum
      BY <1>3, <3>1, StartedType
    <3>3. Started(PlacedOver(stream, isn, 0), stream[1]).origin # None
      BY <3>2, NoneAssumption DEF SeqNum
    <3>4. CASE OffsetOf(PlacedOver(stream, isn, 0), stream[1]) = None
      BY <1>3, <3>3, <3>4 DEF Placed
    <3>5. CASE OffsetOf(PlacedOver(stream, isn, 0), stream[1]) # None
      BY <1>3, <3>5, PlacedType
    <3> QED BY <3>4, <3>5
  <2> QED BY <2>1, <2>2
<1>5. \A n \in 1 .. k : PlacedOver(stream, isn, n).origin = PlacedOver(stream, isn, 1).origin
  BY <1>1, <1>2, <1>4, PlacedKeeps
<1> QED BY <1>1, <1>2, <1>4, <1>5

\* Offsets and ends over a whole stream are numbers, or None.
LEMMA EndInType ==
    ASSUME NEW stream \in Seq(RecordType), NEW isn \in SeqNum \cup {None}
    PROVE  \A i \in 1 .. Len(stream) :
              OffsetIn(stream, isn, i) \in Nat \cup {None} /\ EndIn(stream, isn, i) \in Nat \cup {None}
<1> SUFFICES ASSUME NEW i \in 1 .. Len(stream)
             PROVE  OffsetIn(stream, isn, i) \in Nat \cup {None} /\ EndIn(stream, isn, i) \in Nat \cup {None}
  OBVIOUS
<1>1. i - 1 \in 0 .. Len(stream) /\ stream[i] \in RecordType
  OBVIOUS
<1>2. PlacedOver(stream, isn, i - 1) \in PlacerType
  BY <1>1, PlacedOverWalks
<1>3. OffsetIn(stream, isn, i) \in Nat \cup {None}
  BY <1>1, <1>2, OffsetNotBelow DEF OffsetIn
<1> QED BY <1>1, <1>3, SequenceEndType DEF EndIn

\* What follows a placed record that has no end of its own ends past its offset.
LEMMA EndsAfter ==
    ASSUME NEW stream \in Seq(RecordType), NEW isn \in SeqNum \cup {None},
           SynsFirst(stream), NEW i \in 1 .. Len(stream), NEW j \in 1 .. Len(stream), i < j,
           OffsetIn(stream, isn, i) # None, EndIn(stream, isn, i) = None,
           EndIn(stream, isn, j) # None
    PROVE  OffsetIn(stream, isn, i) + 1 <= EndIn(stream, isn, j)
<1> DEFINE before == PlacedOver(stream, isn, i - 1)
           at == PlacedOver(stream, isn, i)
           later == PlacedOver(stream, isn, j - 1)
           x == OffsetIn(stream, isn, i)
           y == OffsetIn(stream, isn, j)
<1>1. /\ i - 1 \in 0 .. Len(stream) /\ i \in 0 .. Len(stream) /\ j - 1 \in 0 .. Len(stream)
      /\ j - 1 \in i .. Len(stream)
      /\ stream[i] \in RecordType /\ stream[j] \in RecordType
  OBVIOUS
<1>2. /\ before \in PlacerType /\ at \in PlacerType /\ later \in PlacerType
      /\ at = Placed(before, stream[i])
  BY <1>1, PlacedOverWalks
<1>3. x = OffsetOf(before, stream[i]) /\ y = OffsetOf(later, stream[j])
  BY DEF OffsetIn
<1>4. EndIn(stream, isn, i) = SequenceEnd(stream[i], x) /\ EndIn(stream, isn, j) = SequenceEnd(stream[j], y)
  BY DEF EndIn
<1>5. x \in Nat \cup {None} /\ y \in Nat \cup {None}
  BY EndInType
<1>6. at.position = x /\ at.origin # None
  BY <1>1, <1>2, <1>3, PlacedType
<1>7. later.origin # None /\ later.position >= x
  BY <1>1, <1>6, PlacedKeeps
<1>8. later.position \in Nat
  BY <1>2 DEF PlacerType
<1> HIDE DEF before, at, later, x, y
<1>9. ~ BareSyn(stream[j])
  <2> SUFFICES ASSUME BareSyn(stream[j]) PROVE FALSE
    OBVIOUS
  <2>1. BareSyn(stream[i])
    BY DEF SynsFirst
  <2>2. SequenceEnd(stream[i], x) = x
    BY <2>1, <1>4 DEF BareSyn, SequenceEnd, x
  <2> QED BY <1>4, <2>2 DEF x
<1>10. stream[j].len > 0 \/ stream[j].flag # "syn"
  BY <1>1, <1>9 DEF BareSyn, RecordType
<1>11. y # None /\ EndIn(stream, isn, j) > y /\ EndIn(stream, isn, j) \in Nat
  BY <1>1, <1>4, <1>5, <1>10, SequenceEndType
<1>12. Started(later, stream[j]) = later
  BY <1>1, <1>2, <1>7, StartedType
<1>13. y >= later.position
  BY <1>1, <1>2, <1>3, <1>11, <1>12, OffsetNotBelow
<1>14. x \in Nat
  BY <1>5 DEF x
<1>15. x + 1 <= EndIn(stream, isn, j)
  BY <1>5, <1>7, <1>8, <1>11, <1>13, <1>14
<1> QED BY <1>15 DEF x

\* Loading a record, or the end of the stream, keeps a frontier in step.
LEMMA LoadInStep ==
    ASSUME TypeOK, TypeOK', NEW p \in Pids, HeadPlaced(p), InStep(p),
           RisingEnds(streams[p], isns[p]), UNCHANGED <<streams, isns>>,
           frontier'[p] = AdvancedTo(frontier[p], NextOf(frontier[p], streams[p])),
           Len(YieldedBy(p)') = frontier[p].loaded
    PROVE  InStep(p)'
<1>1. PICK f \in FrontierType : f = frontier[p]
  BY DEF TypeOK
<1>2. PICK g \in FrontierType : g = frontier'[p]
  BY DEF TypeOK
<1>3. PICK s \in Seq(RecordType) : s = streams[p] /\ s = streams'[p]
  BY DEF TypeOK
<1>4. PICK isn \in SeqNum \cup {None} : isn = isns[p] /\ isn = isns'[p]
  BY DEF TypeOK
<1>5. PICK k \in Nat : k = Len(s)
  OBVIOUS
<1>6. PICK rec \in RecordType \cup {None} : rec = NextOf(f, s)
  BY <1>1, <1>3, NextOfType
<1>7. g = AdvancedTo(f, rec)
  BY <1>1, <1>2, <1>3, <1>6
<1>8. /\ f.loaded \in Nat /\ f.loaded <= k /\ f.reached \in Nat /\ f.end \in Nat \cup {None}
      /\ f.head = None => f.end = None
      /\ f.head # None => /\ f.loaded > 0
                          /\ f.head = s[f.loaded]
                          /\ f.end = SequenceEnd(f.head, f.offset)
  BY <1>1, <1>3, <1>5 DEF HeadPlaced, FrontierType
<1>9. /\ f.placer = PlacedOver(s, isn, f.loaded)
      /\ f.acks = AcksOver(s, f.loaded)
      /\ f.head # None => f.offset = OffsetIn(s, isn, f.loaded)
      /\ \A j \in 1 .. k :
            j > (IF f.head = None THEN f.loaded ELSE f.loaded - 1) /\ EndIn(s, isn, j) # None
            => f.reached <= EndIn(s, isn, j)
  BY <1>1, <1>3, <1>4, <1>5 DEF InStep, Released
<1>10. ReachedAfter(f) \in Nat
  BY <1>8, NoneAssumption DEF ReachedAfter
<1>11. \A j \in 1 .. k : j > f.loaded /\ EndIn(s, isn, j) # None => ReachedAfter(f) <= EndIn(s, isn, j)
  <2> SUFFICES ASSUME NEW j \in 1 .. k, j > f.loaded, EndIn(s, isn, j) # None
               PROVE  ReachedAfter(f) <= EndIn(s, isn, j)
    OBVIOUS
  <2>1. f.reached <= EndIn(s, isn, j)
    BY <1>8, <1>9
  <2>2. CASE f.end = None
    BY <2>1, <2>2 DEF ReachedAfter
  <2>3. CASE f.end # None
    <3>1. f.loaded \in 1 .. k /\ f.end = EndIn(s, isn, f.loaded)
      BY <1>8, <1>9, <2>3 DEF EndIn
    <3>2. EndIn(s, isn, f.loaded) <= EndIn(s, isn, j)
      <4>1. RisingEnds(s, isn)
        BY <1>3, <1>4
      <4> QED BY <1>5, <2>3, <3>1, <4>1 DEF RisingEnds
    <3> QED BY <2>1, <3>1, <3>2 DEF ReachedAfter
  <2> QED BY <2>2, <2>3
<1>12. g.reached = ReachedAfter(f)
  BY <1>7 DEF AdvancedTo, Advanced, Drained, FrontierType
<1>13. CASE rec = None
  <2>1. /\ g.head = None /\ g.loaded = f.loaded /\ g.placer = f.placer /\ g.acks = f.acks
    BY <1>7, <1>13 DEF AdvancedTo, Drained, FrontierType
  <2>2. ~ (f.loaded < k)
    <3> SUFFICES ASSUME f.loaded < k PROVE FALSE
      OBVIOUS
    <3>1. rec = s[f.loaded + 1] /\ f.loaded + 1 \in 1 .. k
      BY <1>5, <1>6, <1>8 DEF NextOf
    <3>2. rec \in RecordType
      BY <1>5, <3>1
    <3> QED BY <1>13, <3>2, NoRecordAssumption
  <2>3. g.loaded = k
    BY <1>8, <2>1, <2>2
  <2>4. Len(YieldedBy(p)') = g.loaded /\ Released(p)' = g.loaded
    BY <1>1, <1>2, <2>1 DEF Released
  <2> QED BY <1>2, <1>3, <1>4, <1>5, <1>9, <1>11, <1>12, <2>1, <2>3, <2>4 DEF InStep
<1>14. CASE rec # None
  <2>1. f.loaded < k /\ rec = s[f.loaded + 1] /\ rec \in RecordType
    BY <1>5, <1>6, <1>14 DEF NextOf
  <2>2. /\ g.loaded = f.loaded + 1 /\ g.head = rec
        /\ g.offset = OffsetOf(f.placer, rec)
        /\ g.placer = Placed(f.placer, rec)
        /\ g.acks = IF rec.ack = None THEN f.acks ELSE AckObserved(f.acks, rec.ack)
        /\ g.ack = IF rec.ack = None THEN None ELSE g.acks.position
    BY <1>7, <1>14 DEF AdvancedTo, Advanced
  <2>3. g.loaded \in 1 .. k /\ g.loaded - 1 = f.loaded
    <3>1. PICK n \in Nat : n = f.loaded
      BY <1>8
    <3>2. n < k /\ k \in Nat /\ g.loaded = n + 1
      BY <1>5, <2>1, <2>2, <3>1
    <3> QED BY ONLY <3>1, <3>2
  <2>4. g.placer = PlacedOver(s, isn, g.loaded)
    BY <1>5, <1>9, <2>1, <2>2, <2>3, PlacedOverWalks
  <2>5. g.acks = AcksOver(s, g.loaded)
    BY <1>5, <1>9, <2>1, <2>2, <2>3, AcksOverWalks
  <2>6. g.offset = OffsetIn(s, isn, g.loaded)
    BY <1>9, <2>1, <2>2, <2>3 DEF OffsetIn
  <2>7. Len(YieldedBy(p)') = f.loaded /\ Released(p)' = f.loaded
    BY <1>1, <1>2, <1>14, <2>2, <2>3 DEF Released
  <2> QED BY <1>2, <1>3, <1>4, <1>5, <1>11, <1>12, <1>14, <2>2, <2>4, <2>5, <2>6, <2>7 DEF InStep
<1> QED BY <1>13, <1>14

\* What is yielded is added to what its participant yielded.
LEMMA EmitYields ==
    ASSUME TypeOK, NEW p \in Pids, Emit(p), NEW q \in Pids
    PROVE  /\ YieldedBy(q) \in Seq(RecordType)
           /\ YieldedBy(q)' = IF q = p THEN Append(YieldedBy(p), frontier[p].head) ELSE YieldedBy(q)
           /\ frontier[p].head \in RecordType
<1> DEFINE f == frontier[p]
           new == [pid |-> p, rec |-> f.head, end |-> f.end, ack |-> f.ack]
<1>1. f \in FrontierType /\ f.head \in RecordType
  BY ReadyHasHead DEF TypeOK, Emit, IsBest, FrontierType
<1>2. new \in OutType
  BY <1>1 DEF FrontierType, OutType
<1>3. out \in Seq(OutType) /\ out' = Append(out, new)
  BY DEF TypeOK, Emit
<1>4. new.pid = p /\ new.rec = f.head
  OBVIOUS
<1>5. YieldedBy(q) = RecordsIn(out, q) /\ YieldedBy(q)' = RecordsIn(out', q)
  BY DEF YieldedBy
<1> HIDE DEF new
<1>6. /\ RecordsIn(Append(out, new), q) =
           IF new.pid = q THEN Append(RecordsIn(out, q), new.rec) ELSE RecordsIn(out, q)
      /\ RecordsIn(out, q) \in Seq(RecordType)
  BY <1>2, <1>3, RecordsInAppend
<1> QED BY <1>1, <1>3, <1>4, <1>5, <1>6

\* Before anything is read every frontier is in step.
LEMMA RefInit == Init /\ InTurn => RefInv
<1> SUFFICES ASSUME Init, InTurn, NEW p \in Pids PROVE InStep(p)
  BY InitPlaced DEF RefInv
<1>1. TypeOK
  BY InitType
<1>2. frontier[p] = NewFrontier(isns[p]) /\ status = "priming" /\ out = << >>
  BY DEF Init, Start
<1>3. PICK s \in Seq(RecordType) : s = streams[p]
  BY <1>1 DEF TypeOK
<1>4. PICK isn \in SeqNum \cup {None} : isn = isns[p]
  BY <1>1 DEF TypeOK
<1>5. PlacedOver(s, isn, 0) = NewPlacer(isn) /\ AcksOver(s, 0) = NewAckWalk
  BY PlacedOverWalks, AcksOverWalks
<1>6. YieldedBy(p) = << >> /\ Len(YieldedBy(p)) = 0 /\ Released(p) = 0
  BY <1>2, RecordsInNone DEF YieldedBy, Released, NewFrontier
<1>7. \A j \in 1 .. Len(s) : EndIn(s, isn, j) # None => 0 <= EndIn(s, isn, j)
  BY EndInType
<1>8. /\ frontier[p].placer = NewPlacer(isn) /\ frontier[p].acks = NewAckWalk
      /\ frontier[p].loaded = 0 /\ frontier[p].head = None /\ frontier[p].reached = 0
  BY <1>2, <1>4 DEF NewFrontier
<1> QED BY <1>2, <1>3, <1>4, <1>5, <1>6, <1>7, <1>8 DEF InStep

\* Frontiers stay in step.
LEMMA RefStep == TypeOK /\ TypeOK' /\ RefInv /\ [Next]_vars => RefInv'
<1> SUFFICES ASSUME TypeOK, TypeOK', RefInv, [Next]_vars PROVE RefInv'
  OBVIOUS
<1>1. \A q \in Pids : HeadPlaced(q) /\ InStep(q) /\ RisingEnds(streams[q], isns[q])
  BY DEF RefInv, InTurn
<1>2. (\A q \in Pids : HeadPlaced(q))'
  BY <1>1, HeadsStayPlaced
<1>3. UNCHANGED <<streams, isns>>
  BY DEF Next, Prime, Emit, Refuse, Begin, Stall, Finish, vars
<1>4. InTurn'
  BY <1>3 DEF RefInv, InTurn
<1>5. SUFFICES ASSUME NEW q \in Pids PROVE InStep(q)'
  BY <1>2, <1>4 DEF RefInv
<1>6. ASSUME NEW p \in Pids, Prime(p) PROVE InStep(q)'
  <2>1. /\ frontier'[p] = AdvancedTo(frontier[p], NextOf(frontier[p], streams[p]))
        /\ \A r \in Pids \ {p} : frontier'[r] = frontier[r]
        /\ YieldedBy(q)' = YieldedBy(q) /\ status' = status
    BY <1>6 DEF Prime, TypeOK, YieldedBy
  <2>2. CASE q = p
    <3>1. frontier[p].loaded \in Nat
      BY DEF TypeOK, FrontierType
    <3>2. frontier[p].loaded = 0 /\ frontier[p].head = None
      BY <1>1, <1>6, <3>1 DEF Prime, Primed, HeadPlaced
    <3>3. Len(YieldedBy(p)) = frontier[p].loaded
      BY <1>1, <3>2 DEF InStep, Released
    <3> QED BY <1>1, <1>3, <2>1, <2>2, <3>3, LoadInStep
  <2>3. CASE q # p
    BY <1>1, <1>3, <2>1, <2>3 DEF InStep, Released
  <2> QED BY <2>2, <2>3
<1>7. ASSUME NEW p \in Pids, Emit(p) PROVE InStep(q)'
  <2>1. /\ frontier'[p] = AdvancedTo(frontier[p], NextOf(frontier[p], streams[p]))
        /\ \A r \in Pids \ {p} : frontier'[r] = frontier[r]
        /\ status' = status
    BY <1>7 DEF Emit, TypeOK
  <2>2. CASE q = p
    <3>1. frontier[p].loaded \in Nat /\ frontier[p].head # None
      BY <1>7, ReadyHasHead DEF TypeOK, FrontierType, Emit, IsBest
    <3>2. Len(YieldedBy(p)) = frontier[p].loaded - 1
      BY <1>1, <3>1 DEF InStep, Released
    <3>3. /\ YieldedBy(p) \in Seq(RecordType)
          /\ YieldedBy(p)' = Append(YieldedBy(p), frontier[p].head)
      BY <1>7, EmitYields
    <3>4. Len(YieldedBy(p)') = frontier[p].loaded
      BY <3>1, <3>2, <3>3
    <3> QED BY <1>1, <1>3, <2>1, <2>2, <3>4, LoadInStep
  <2>3. CASE q # p
    <3>1. YieldedBy(q)' = YieldedBy(q)
      BY <1>7, <2>3, EmitYields
    <3> QED BY <1>1, <1>3, <2>1, <2>3, <3>1 DEF InStep, Released
  <2> QED BY <2>2, <2>3
<1>8. ASSUME UNCHANGED <<frontier, out>>, status' = status \/ ~ (status = "priming")
             \/ \A p \in Pids : Primed(p)
      PROVE  InStep(q)'
  <2>1. YieldedBy(q)' = YieldedBy(q) /\ Released(q)' = Released(q)
    BY <1>8 DEF YieldedBy, Released
  <2>2. frontier[q].head = None =>
           frontier[q].loaded = Len(streams[q]) \/ (status' = "priming" /\ frontier[q].loaded = 0)
    <3>1. frontier[q].loaded \in Nat
      BY DEF TypeOK, FrontierType
    <3>2. frontier[q].head = None =>
             frontier[q].loaded = Len(streams[q]) \/ (status = "priming" /\ frontier[q].loaded = 0)
      <4>1. InStep(q)
        BY <1>1
      <4> QED BY <4>1, Zenon DEF InStep
    <3>3. status' = status \/ status # "priming" \/ Primed(q)
      BY <1>8
    <3> QED BY <3>1, <3>2, <3>3 DEF Primed
  <2> QED BY <1>1, <1>3, <1>8, <2>1, <2>2 DEF InStep
<1>9. ASSUME NEW p \in Pids, Refuse(p) PROVE InStep(q)'
  BY <1>8, <1>9 DEF Refuse
<1>10. CASE Begin \/ Stall \/ Finish \/ UNCHANGED vars
  BY <1>8, <1>10 DEF Begin, Stall, Finish, vars
<1> QED BY <1>6, <1>7, <1>9, <1>10 DEF Next

\* The bound a peer is held to is a lower bound of the ends it has yet to release.
LEMMA PeerEndBounds ==
    ASSUME TypeOK, NEW q \in Pids, HeadPlaced(q), InStep(q), frontier[q].head # None,
           RisingEnds(streams[q], isns[q]), SynsFirst(streams[q]),
           NEW j \in 1 .. Len(streams[q]), j >= frontier[q].loaded,
           EndIn(streams[q], isns[q], j) # None
    PROVE  PeerEnd(frontier[q]) <= EndIn(streams[q], isns[q], j)
<1>1. PICK f \in FrontierType : f = frontier[q]
  BY DEF TypeOK
<1>2. PICK s \in Seq(RecordType) : s = streams[q]
  BY DEF TypeOK
<1>3. PICK isn \in SeqNum \cup {None} : isn = isns[q]
  BY DEF TypeOK
<1>4. /\ f.loaded \in Nat /\ f.loaded \in 1 .. Len(s) /\ f.reached \in Nat
      /\ f.head = s[f.loaded] /\ f.end = SequenceEnd(f.head, f.offset)
      /\ f.end \in Nat \cup {None} /\ f.offset \in Nat \cup {None}
  BY <1>1, <1>2 DEF HeadPlaced, FrontierType
<1>5. f.offset = OffsetIn(s, isn, f.loaded) /\ f.end = EndIn(s, isn, f.loaded)
  <2>1. f.offset = OffsetIn(s, isn, f.loaded)
    BY <1>1, <1>2, <1>3 DEF InStep
  <2> QED BY <1>4, <2>1 DEF EndIn
<1>6. f.reached <= EndIn(s, isn, j)
  <2>1. j > Released(q)
    BY <1>1, <1>4 DEF Released
  <2> QED BY <1>1, <1>2, <1>3, <2>1 DEF InStep
<1>7. /\ j \in 1 .. Len(s) /\ j >= f.loaded
      /\ EndIn(s, isn, j) \in Nat /\ EndIn(s, isn, j) # None
  BY <1>1, <1>2, <1>3, EndInType
<1>8. CASE f.end # None
  <2>1. CASE j = f.loaded
    BY <1>1, <1>2, <1>3, <1>4, <1>5, <1>8, <2>1 DEF PeerEnd
  <2>2. CASE j # f.loaded
    <3>1. f.loaded < j /\ RisingEnds(s, isn)
      BY <1>2, <1>3, <1>4, <1>7, <2>2
    <3>2. EndIn(s, isn, f.loaded) <= EndIn(s, isn, j)
      BY <1>4, <1>5, <1>7, <1>8, <3>1 DEF RisingEnds
    <3> QED BY <1>1, <1>2, <1>3, <1>5, <1>8, <3>2 DEF PeerEnd
  <2> QED BY <2>1, <2>2
<1>9. CASE f.end = None /\ f.offset # None
  <2>1. f.loaded < j /\ SynsFirst(s)
    <3>1. j # f.loaded
      BY <1>5, <1>7, <1>9
    <3>2. f.loaded < j
      BY <1>4, <1>7, <3>1
    <3> QED BY <1>2, <3>2
  <2>2. f.offset + 1 <= EndIn(s, isn, j)
    BY <1>4, <1>5, <1>7, <1>9, <2>1, EndsAfter
  <2> QED BY <1>1, <1>2, <1>3, <1>6, <1>9, <2>2 DEF PeerEnd
<1>10. CASE f.end = None /\ f.offset = None
  BY <1>1, <1>2, <1>3, <1>6, <1>10 DEF PeerEnd
<1> QED BY <1>8, <1>9, <1>10

\* What precedes a record that is ready has been taken.
LEMMA ReadyTakesAfter ==
    ASSUME Pairwise, TypeOK, RefInv, status = "merging",
           NEW p \in Pids, p \in Ready, NEW q \in Pids,
           NEW j \in 1 .. Len(streams[q]), Precedes(q, j, p, frontier[p].loaded)
    PROVE  j <= Len(YieldedBy(q))
<1>1. PICK f \in FrontierType : f = frontier[p]
  BY DEF TypeOK
<1>2. PICK g \in FrontierType : g = frontier[q]
  BY DEF TypeOK
<1>3. q # p /\ PairReady(f, g) /\ f.head # None
  BY <1>1, <1>2 DEF Precedes, Ready, PairReady
<1>4. /\ HeadPlaced(p) /\ InStep(p) /\ HeadPlaced(q) /\ InStep(q)
      /\ OriginFirst(streams[q], isns[q]) /\ RisingEnds(streams[q], isns[q])
      /\ SynsFirst(streams[q])
  BY DEF RefInv, InTurn
<1>5. g.loaded \in Nat /\ Len(YieldedBy(q)) = Released(q)
  BY <1>2, <1>4 DEF FrontierType, InStep
<1>6. CASE g.head = None
  <2>1. g.loaded = Len(streams[q])
    BY <1>2, <1>4, <1>6 DEF InStep
  <2> QED BY <1>2, <1>5, <1>6, <2>1 DEF Released
<1>7. CASE g.head # None
  <2>1. g.placer = PlacedOver(streams[q], isns[q], g.loaded) /\ g.loaded \in 1 .. Len(streams[q])
    BY <1>2, <1>4, <1>5, <1>7 DEF InStep, HeadPlaced
  <2>2. g.placer.origin # None /\ g.placer.origin = OriginOf(q)
    <3>1. streams[q] \in Seq(RecordType) /\ isns[q] \in SeqNum \cup {None}
      BY DEF TypeOK
    <3> QED BY <1>4, <2>1, <3>1, OriginSettled DEF OriginOf
  <2>3. f.head.ack # None /\ f.acks = AcksOver(streams[p], f.loaded) /\ f.ack = f.acks.position
    BY <1>1, <1>3, <1>4 DEF InStep, HeadPlaced, Precedes
  <2>4. f.acks \in AckWalkType /\ f.acks.position \in Int /\ f.acks.position # None
    BY NoneAssumption DEF FrontierType, AckWalkType
  <2> DEFINE a == AckPosition(f.acks, f.ack, g.placer.origin)
  <2>5. a = AckedIn(p, f.loaded, q)
    BY <2>2, <2>3 DEF AckedIn
  <2>6. a < PeerEnd(g)
    BY <1>3, <1>7, <2>2, <2>3, <2>4 DEF PairReady
  <2>7. EndIn(streams[q], isns[q], j) # None /\ EndIn(streams[q], isns[q], j) <= a
    BY <1>1, <2>5 DEF Precedes
  <2>8. a \in Int
    <3>1. f.acks.first # None
      BY <1>1, <1>4, <2>3, <2>4 DEF HeadPlaced
    <3>2. g.placer.origin \in SeqNum
      BY <2>2 DEF FrontierType, PlacerType
    <3> QED BY <2>3, <2>4, <3>1, <3>2, PositionInt
  <2> HIDE DEF a
  <2>9. ~ (j >= g.loaded)
    <3> SUFFICES ASSUME j >= g.loaded PROVE FALSE
      OBVIOUS
    <3>1. PeerEnd(g) <= EndIn(streams[q], isns[q], j)
      BY <1>2, <1>4, <1>7, <2>7, PeerEndBounds
    <3>2. EndIn(streams[q], isns[q], j) \in Nat
      <4>1. streams[q] \in Seq(RecordType) /\ isns[q] \in SeqNum \cup {None}
        BY DEF TypeOK
      <4> QED BY <2>7, <4>1, EndInType
    <3>3. PeerEnd(g) \in Int
      BY DEF PeerEnd, FrontierType
    <3> QED BY <2>6, <2>7, <2>8, <3>1, <3>2, <3>3
  <2> QED BY <1>2, <1>5, <1>7, <2>9 DEF Released
<1> QED BY <1>6, <1>7

\* Yielding a record takes it, in the causal order, from its stream.
LEMMA EmitTakes ==
    ASSUME Pairwise, TypeOK, RefInv, NEW p \in Pids, Emit(p)
    PROVE  Causal!Next
<1> DEFINE taken == [q \in Pids |-> YieldedBy(q)]
           i == Len(taken[p]) + 1
<1>1. PICK f \in FrontierType : f = frontier[p]
  BY DEF TypeOK
<1>2. status = "merging" /\ p \in Ready /\ status' = status /\ UNCHANGED <<streams, isns>>
  BY DEF Emit, IsBest
<1>3. HeadPlaced(p) /\ InStep(p) /\ f.head # None
  BY <1>1, <1>2, ReadyHasHead DEF RefInv
<1>4. f.loaded \in 1 .. Len(streams[p]) /\ f.head = streams[p][f.loaded]
  BY <1>1, <1>3 DEF HeadPlaced, FrontierType
<1>5. taken[p] = YieldedBy(p) /\ i = f.loaded
  <2>1. Len(YieldedBy(p)) = f.loaded - 1
    BY <1>1, <1>3 DEF InStep, Released
  <2> QED BY <1>4, <2>1
<1>6. ASSUME NEW place \in Precedence[p][i]
      PROVE  place[2] <= Len(taken[place[1]])
  <2>1. place \in Places /\ Precedes(place[1], place[2], p, f.loaded)
    BY <1>4, <1>5, <1>6 DEF Precedence
  <2>2. place[1] \in Pids /\ place[2] \in 1 .. Len(streams[place[1]])
    BY <2>1 DEF Places
  <2>3. PICK q \in Pids : q = place[1]
    BY <2>2
  <2>4. PICK j \in 1 .. Len(streams[q]) : j = place[2]
    BY <2>2, <2>3
  <2>5. j <= Len(YieldedBy(q))
    BY <1>1, <1>2, <2>1, <2>3, <2>4, ReadyTakesAfter
  <2> QED BY <2>3, <2>4, <2>5
<1>7. [q \in Pids |-> YieldedBy(q)]' = [taken EXCEPT ![p] = Append(@, streams[p][i])]
  <2>1. \A q \in Pids : YieldedBy(q)' =
           IF q = p THEN Append(YieldedBy(p), streams[p][i]) ELSE YieldedBy(q)
    BY <1>1, <1>4, <1>5, EmitYields
  <2> QED BY <1>5, <2>1
<1>8. i <= Len(streams[p])
  BY <1>4, <1>5
<1>9. Causal!Take(p)
  BY <1>2, <1>6, <1>7, <1>8 DEF Causal!Take
<1> QED BY <1>2, <1>9 DEF Causal!Next

\* The merge ends, without a stall, only once every record was taken.
LEMMA FinishCompletes ==
    ASSUME TypeOK, RefInv, Finish
    PROVE  Causal!Next
<1>1. ASSUME NEW p \in Pids PROVE Len(YieldedBy(p)) = Len(streams[p])
  <2>1. InStep(p) /\ frontier[p].head = None /\ status = "merging"
    BY DEF RefInv, Finish
  <2> QED BY <2>1 DEF InStep, Released
<1>2. /\ UNCHANGED <<streams, isns>> /\ status = "merging" /\ status' = "done"
      /\ [p \in Pids |-> YieldedBy(p)]' = [p \in Pids |-> YieldedBy(p)]
  BY DEF Finish, YieldedBy
<1>3. Causal!Complete
  BY <1>1, <1>2 DEF Causal!Complete
<1> QED BY <1>2, <1>3 DEF Causal!Next

\* Every step of the merge is one of the causal order's, or none.
LEMMA StepIsCausal ==
    Pairwise /\ TypeOK /\ RefInv /\ [Next]_vars
    => \/ Causal!Next
       \/ UNCHANGED <<streams, isns, [p \in Pids |-> YieldedBy(p)], status = "done">>
<1> SUFFICES ASSUME Pairwise, TypeOK, RefInv, [Next]_vars
             PROVE  \/ Causal!Next
                    \/ UNCHANGED <<streams, isns, [p \in Pids |-> YieldedBy(p)], status = "done">>
  OBVIOUS
<1>1. ASSUME UNCHANGED <<streams, isns, out>>, status' = "done" <=> status = "done"
      PROVE  UNCHANGED <<streams, isns, [p \in Pids |-> YieldedBy(p)], status = "done">>
  BY <1>1 DEF YieldedBy
<1>2. ASSUME NEW p \in Pids, Prime(p)
      PROVE  UNCHANGED <<streams, isns, [r \in Pids |-> YieldedBy(r)], status = "done">>
  BY <1>1, <1>2 DEF Prime
<1>3. ASSUME NEW p \in Pids, Refuse(p)
      PROVE  UNCHANGED <<streams, isns, [r \in Pids |-> YieldedBy(r)], status = "done">>
  BY <1>1, <1>3 DEF Refuse
<1>4. CASE Begin \/ Stall \/ UNCHANGED vars
  BY <1>1, <1>4 DEF Begin, Stall, vars
<1>5. ASSUME NEW p \in Pids, Emit(p) PROVE Causal!Next
  BY <1>5, EmitTakes
<1>6. CASE Finish
  BY <1>6, FinishCompletes
<1> QED BY <1>2, <1>3, <1>4, <1>5, <1>6 DEF Next

\* Two streams that keep what order.py takes for granted of each are merged in a
\* causal order of the two as wholes: though the merge sees one record ahead of
\* each, none it has not seen yet precedes one it yields, and none is lost.
THEOREM MergeImplementsOrder == Pairwise /\ Spec /\ InTurn => ImplementsCausalOrder
<1>1. Init => Causal!Init
  BY RecordsInNone DEF Init, Start, Causal!Init, YieldedBy
<1>2. Init /\ InTurn => RefInv
  BY RefInit
<1>3. TypeOK /\ TypeOK' /\ RefInv /\ [Next]_vars => RefInv'
  BY RefStep
<1>4. Pairwise /\ TypeOK /\ RefInv /\ [Next]_vars
      => [Causal!Next]_<<streams, isns, [p \in Pids |-> YieldedBy(p)], status = "done">>
  BY StepIsCausal
<1>5. Spec => []TypeOK
  BY TypeCorrect
<1>6. Pairwise => Pairwise'
  BY DEF Pairwise
<1> QED BY <1>1, <1>2, <1>3, <1>4, <1>5, <1>6, PTL DEF Spec, ImplementsCausalOrder, Causal!Spec

\* Frontiers in step with streams that are in turn never meet a head whose origin
\* is unknown, an end below one reached, or a late SYN.
LEMMA InStepWellFormed == TypeOK /\ RefInv => WellFormed
<1> SUFFICES ASSUME TypeOK, RefInv PROVE WellFormed
  OBVIOUS
<1>1. ASSUME NEW p \in Pids, frontier[p].head # None
      PROVE  /\ frontier[p].placer.origin # None
             /\ frontier[p].end # None => frontier[p].end >= frontier[p].reached
  <2>1. PICK f \in FrontierType : f = frontier[p]
    BY DEF TypeOK
  <2>2. PICK s \in Seq(RecordType) : s = streams[p]
    BY DEF TypeOK
  <2>3. PICK isn \in SeqNum \cup {None} : isn = isns[p]
    BY DEF TypeOK
  <2>4. HeadPlaced(p) /\ InStep(p) /\ OriginFirst(s, isn)
    BY <2>2, <2>3 DEF RefInv, InTurn
  <2>5. f.loaded \in 1 .. Len(s) /\ f.head = s[f.loaded] /\ f.end = SequenceEnd(f.head, f.offset)
    BY <1>1, <2>1, <2>2, <2>4 DEF HeadPlaced, FrontierType
  <2>6. /\ f.placer = PlacedOver(s, isn, f.loaded) /\ f.offset = OffsetIn(s, isn, f.loaded)
        /\ \A j \in 1 .. Len(s) :
              j > f.loaded - 1 /\ EndIn(s, isn, j) # None => f.reached <= EndIn(s, isn, j)
    BY <1>1, <2>1, <2>2, <2>3, <2>4 DEF InStep, Released
  <2>7. f.placer.origin # None
    BY <2>4, <2>5, <2>6, OriginSettled
  <2>8. f.end = EndIn(s, isn, f.loaded)
    BY <2>5, <2>6 DEF EndIn
  <2>9. f.end # None => f.end >= f.reached
    <3>1. f.loaded > f.loaded - 1 /\ f.reached \in Nat /\ f.end \in Nat \cup {None}
      BY <2>5 DEF FrontierType
    <3> QED BY <2>5, <2>6, <2>8, <3>1
  <2> QED BY <2>1, <2>7, <2>9
<1>2. \A p \in Pids : frontier[p].head = None => frontier[p].end = None
  BY DEF RefInv, HeadPlaced
<1>3. OriginsKnown /\ EndsRise
  BY <1>1, <1>2 DEF OriginsKnown, EndsRise
<1>4. SynsLead
  BY DEF RefInv, InTurn, SynsFirst, SynsLead
<1> QED BY <1>3, <1>4 DEF WellFormed

\* Two streams in turn meet, as the merge goes, every condition under which no
\* record is yielded after one that acknowledged it and the stored-order check
\* accepts the result: what the streams are decides it, not what was loaded.
THEOREM StreamsInTurnMerge ==
    Pairwise /\ Spec /\ InTurn => [](WellFormed /\ NoRecordAfterItsAck /\ MergeVerifies)
<1> SUFFICES ASSUME Pairwise
             PROVE  Spec /\ InTurn => [](WellFormed /\ NoRecordAfterItsAck /\ MergeVerifies)
  OBVIOUS
<1>1. Init /\ InTurn => RefInv
  BY RefInit
<1>2. TypeOK /\ TypeOK' /\ RefInv /\ [Next]_vars => RefInv'
  BY RefStep
<1>3. TypeOK /\ RefInv => WellFormed /\ (Pairwise => WellFormed)
  BY InStepWellFormed
<1>4. Spec => []TypeOK
  BY TypeCorrect
<1>5. Spec /\ []WellFormed => []NoRecordAfterItsAck
  BY MergeIsCausal
<1>6. Spec /\ [](Pairwise => WellFormed) => []MergeVerifies
  BY MergeAlwaysVerifies
<1>7. Spec /\ InTurn => []WellFormed /\ [](Pairwise => WellFormed)
  BY <1>1, <1>2, <1>3, <1>4, PTL DEF Spec
<1> QED BY <1>5, <1>6, <1>7, PTL

-------------------------------------------------------------------------------
(* A merge stalls only on a cycle *)

\* The two participants of a pair are all there are.
LEMMA PairIsAll ==
    ASSUME Pairwise, NEW p \in Pids, NEW q \in Pids, p # q
    PROVE  Pids = {p, q}
<1>1. IsFiniteSet({q}) /\ Cardinality({q}) = 1 /\ p \notin {q}
  BY FS_Singleton
<1>2. Cardinality({q} \cup {p}) = 2
  BY <1>1, FS_AddElement
<1>3. {q} \cup {p} \subseteq Pids /\ IsFiniteSet(Pids)
  BY PidsAssumption
<1>4. {q} \cup {p} = Pids
  BY <1>2, <1>3, FS_Subset DEF Pairwise
<1> QED BY <1>4

\* A head that is held back waits for a record its peer has not released.
LEMMA HeldBack ==
    ASSUME TypeOK, RefInv, NoKeepalives, HonestAcks,
           NEW p \in Pids, NEW q \in Pids, p # q,
           frontier[p].head # None, ~ PairReady(frontier[p], frontier[q])
    PROVE  /\ frontier[q].head # None
           /\ frontier[q].loaded \in 1 .. Len(streams[q])
           /\ \E j \in 1 .. Len(streams[q]) :
                 j >= frontier[q].loaded /\ Precedes(q, j, p, frontier[p].loaded)
<1>1. PICK f \in FrontierType : f = frontier[p]
  BY DEF TypeOK
<1>2. PICK g \in FrontierType : g = frontier[q]
  BY DEF TypeOK
<1>3. PICK s \in Seq(RecordType) : s = streams[q]
  BY DEF TypeOK
<1>4. PICK isn \in SeqNum \cup {None} : isn = isns[q]
  BY DEF TypeOK
<1>5. /\ HeadPlaced(p) /\ InStep(p) /\ HeadPlaced(q) /\ InStep(q)
      /\ OriginFirst(s, isn) /\ NoKeepalive(s, isn)
  BY <1>3, <1>4 DEF RefInv, InTurn, NoKeepalives
<1>6. /\ f.ack # None /\ g.head # None /\ g.placer.origin # None
      /\ ~ (AckPosition(f.acks, f.ack, g.placer.origin) < PeerEnd(g))
  BY <1>1, <1>2 DEF PairReady
<1>7. PICK i \in 1 .. Len(streams[p]) : i = f.loaded /\ f.head = streams[p][i]
  BY <1>1, <1>5 DEF HeadPlaced, FrontierType
<1>8. PICK n \in 1 .. Len(s) : n = g.loaded /\ g.head = s[n] /\ g.end = SequenceEnd(g.head, g.offset)
  BY <1>2, <1>3, <1>5, <1>6 DEF HeadPlaced, FrontierType
<1>9. g.offset = OffsetIn(s, isn, n) /\ g.end = EndIn(s, isn, n) /\ g.placer = PlacedOver(s, isn, n)
  <2>1. g.offset = OffsetIn(s, isn, n) /\ g.placer = PlacedOver(s, isn, n)
    BY <1>2, <1>3, <1>4, <1>5, <1>6, <1>8 DEF InStep
  <2> QED BY <1>8, <2>1 DEF EndIn
<1>10. g.placer.origin = OriginOf(q) /\ OriginOf(q) # None
  BY <1>3, <1>4, <1>5, <1>6, <1>9, OriginSettled DEF OriginOf
<1>11. /\ streams[p][i].ack # None /\ f.ack = f.acks.position /\ f.acks = AcksOver(streams[p], i)
  BY <1>1, <1>5, <1>6, <1>7 DEF InStep
<1> DEFINE a == AckedIn(p, i, q)
<1>12. a = AckPosition(f.acks, f.ack, g.placer.origin)
  BY <1>10, <1>11 DEF AckedIn
<1>13. a \in Int
  <2>1. f.acks \in AckWalkType /\ f.ack \in Int /\ g.placer.origin \in SeqNum
    BY <1>6 DEF FrontierType, PlacerType
  <2>2. f.acks.first # None
    BY <1>1, <1>5, <1>6 DEF HeadPlaced
  <2> QED BY <1>12, <2>1, <2>2, PositionInt
<1>14. g.offset \in Nat /\ g.offset # None /\ g.reached \in Nat /\ g.end \in Nat \cup {None}
  BY <1>3, <1>4, <1>8, <1>9 DEF HonestAcks, FrontierType
<1>15. a <= 0 \/ \E j \in 1 .. Len(s) : EndIn(s, isn, j) = a
  BY <1>3, <1>4, <1>10, <1>11 DEF HonestAcks
<1> HIDE DEF a
<1>16. ~ (a < PeerEnd(g))
  BY <1>6, <1>12
<1>17. \E j \in 1 .. Len(s) : j >= n /\ EndIn(s, isn, j) # None /\ EndIn(s, isn, j) <= a
  <2>1. CASE g.end # None
    <3>1. PeerEnd(g) = g.end
      BY <2>1 DEF PeerEnd
    <3> QED BY <1>9, <1>13, <1>14, <1>16, <2>1, <3>1
  <2>2. CASE g.end = None
    <3>1. PeerEnd(g) = IF g.offset + 1 > g.reached THEN g.offset + 1 ELSE g.reached
      BY <1>14, <2>2 DEF PeerEnd
    <3>2. g.offset + 1 <= a
      BY <1>13, <1>14, <1>16, <3>1
    <3>3. PICK j \in 1 .. Len(s) : EndIn(s, isn, j) = a
      BY <1>13, <1>14, <1>15, <3>2
    <3>4. EndIn(s, isn, j) # None
      BY <1>13, <3>3, NoneAssumption
    <3>5. ~ (j < n)
      <4> SUFFICES ASSUME j < n PROVE FALSE
        OBVIOUS
      <4>1. a <= g.offset
        BY <1>5, <1>9, <1>14, <2>2, <3>3, <3>4 DEF NoKeepalive
      <4> QED BY <1>13, <1>14, <3>2, <4>1
    <3> QED BY <1>13, <3>3, <3>4, <3>5
  <2> QED BY <2>1, <2>2
<1>18. PICK j \in 1 .. Len(s) : j >= n /\ EndIn(s, isn, j) # None /\ EndIn(s, isn, j) <= a
  BY <1>17
<1>19. Precedes(q, j, p, i)
  BY <1>3, <1>4, <1>11, <1>18 DEF Precedes, a
<1> QED BY <1>1, <1>2, <1>3, <1>6, <1>7, <1>8, <1>18, <1>19

\* Two heads held back are each other's cycle.
LEMMA StallIsCycle ==
    ASSUME Pairwise, TypeOK, RefInv, NoKeepalives, HonestAcks, Ready = {},
           NEW p \in Pids, frontier[p].head # None
    PROVE  ~ Causal!Orderable
<1>1. PICK q \in Pids \ {p} : ~ PairReady(frontier[p], frontier[q])
  BY DEF Ready
<1>2. /\ frontier[q].head # None /\ frontier[q].loaded \in 1 .. Len(streams[q])
      /\ \E j \in 1 .. Len(streams[q]) :
            j >= frontier[q].loaded /\ Precedes(q, j, p, frontier[p].loaded)
  BY <1>1, HeldBack
<1>3. ~ PairReady(frontier[q], frontier[p])
  <2>1. Pids \ {q} = {p}
    BY <1>1, PairIsAll
  <2>2. PICK r \in Pids \ {q} : ~ PairReady(frontier[q], frontier[r])
    BY <1>1 DEF Ready
  <2> QED BY <2>1, <2>2
<1>4. /\ frontier[p].loaded \in 1 .. Len(streams[p])
      /\ \E i \in 1 .. Len(streams[p]) :
            i >= frontier[p].loaded /\ Precedes(p, i, q, frontier[q].loaded)
  BY <1>1, <1>2, <1>3, HeldBack
<1>5. PICK m \in 1 .. Len(streams[p]) : m = frontier[p].loaded
  BY <1>4
<1>6. PICK n \in 1 .. Len(streams[q]) : n = frontier[q].loaded
  BY <1>2
<1>7. PICK j \in 1 .. Len(streams[q]) : j >= n /\ Precedes(q, j, p, m)
  BY <1>2, <1>5, <1>6
<1>8. PICK i \in 1 .. Len(streams[p]) : i >= m /\ Precedes(p, i, q, n)
  BY <1>4, <1>5, <1>6
<1>9. <<q, j>> \in Precedence[p][m]
  <2>1. <<q, j>> \in Places
    BY <1>1 DEF Places
  <2> QED BY <1>7, <2>1 DEF Precedence
<1>10. <<p, i>> \in Precedence[q][n]
  <2>1. <<p, i>> \in Places
    BY DEF Places
  <2> QED BY <1>1, <1>8, <2>1 DEF Precedence
<1>11. n \in 1 .. j /\ m <= i
  BY <1>7, <1>8
<1> QED BY <1>9, <1>10, <1>11 DEF Causal!Orderable

\* A merge that stalled stands as it stalled.
StalledInv ==
    status = "stalled" => Ready = {} /\ \E p \in Pids : frontier[p].head # None

LEMMA StalledStep == StalledInv /\ [Next]_vars => StalledInv'
<1> SUFFICES ASSUME StalledInv, [Next]_vars, status' = "stalled"
             PROVE  Ready' = {} /\ \E p \in Pids : frontier'[p].head # None
  BY DEF StalledInv
<1>1. ASSUME UNCHANGED frontier, Ready = {}, \E p \in Pids : frontier[p].head # None
      PROVE  Ready' = {} /\ \E p \in Pids : frontier'[p].head # None
  BY <1>1 DEF Ready
<1>2. CASE Stall
  BY <1>1, <1>2 DEF Stall
<1>3. CASE UNCHANGED vars
  BY <1>1, <1>3 DEF StalledInv, vars
<1>4. CASE Begin \/ Finish \/ \E p \in Pids : Prime(p) \/ Emit(p) \/ Refuse(p)
  BY <1>4 DEF Begin, Finish, Prime, Emit, Refuse
<1> QED BY <1>2, <1>3, <1>4 DEF Next

\* With honest acks and no keepalives, two streams in turn stall the merge only
\* if no causal order of the two would do: it gives up on no file a reader with
\* both streams whole before it could have ordered.
THEOREM StallsAlwaysOnCycles ==
    Pairwise /\ Spec /\ InTurn /\ NoKeepalives => []StallsOnlyOnCycles
<1>1. Init /\ InTurn => RefInv
  BY RefInit
<1>2. TypeOK /\ TypeOK' /\ RefInv /\ [Next]_vars => RefInv'
  BY RefStep
<1>3. Init => StalledInv
  BY DEF Init, Start, StalledInv
<1>4. StalledInv /\ [Next]_vars => StalledInv'
  BY StalledStep
<1>5. NoKeepalives /\ [Next]_vars => NoKeepalives'
  <2>1. [Next]_vars => UNCHANGED <<streams, isns>>
    BY DEF Next, Prime, Emit, Refuse, Begin, Stall, Finish, vars
  <2> QED BY <2>1 DEF NoKeepalives
<1>6. Pairwise /\ TypeOK /\ RefInv /\ NoKeepalives /\ StalledInv => StallsOnlyOnCycles
  BY StallIsCycle DEF StalledInv, StallsOnlyOnCycles
<1>7. Spec => []TypeOK
  BY TypeCorrect
<1>8. Pairwise => Pairwise'
  BY DEF Pairwise
<1> QED BY <1>1, <1>2, <1>3, <1>4, <1>5, <1>6, <1>7, <1>8, PTL DEF Spec

===============================================================================
