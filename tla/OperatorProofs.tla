---------------------------- MODULE OperatorProofs ----------------------------
(***************************************************************************)
(* Facts about the operators the other modules are built from: the walks   *)
(* of StreamWalk and the stored-order check that drives them; what a fold  *)
(* comes to; the functions on lists of ranges; and what a block does to    *)
(* the checker of Conformance, which readers and writers share.            *)
(***************************************************************************)
EXTENDS Conformance, Intervals, SequenceTheorems, FiniteSetTheorems, WellFoundedInduction, TLAPS

\* A set of natural numbers that is not empty has a least element.
LEMMA LeastNatural ==
    ASSUME NEW T, T \subseteq Nat, T # {}
    PROVE  \E n \in T : \A m \in T : n <= m
<1> DEFINE R == { ss \in Nat \X Nat : ss[1] < ss[2] }
<1>1. OpToRel(<, Nat) = R
  BY DEF OpToRel
<1>2. IsWellFoundedOn(R, Nat)
  BY <1>1, NatLessThanWellFounded, Zenon
<1> HIDE DEF R
<1>3. PICK n \in T : \A m \in T : ~ (<<m, n>> \in R)
  BY <1>2, WFMin
<1>4. ASSUME NEW m \in T
      PROVE  n <= m
  <2>1. m \in Nat /\ n \in Nat /\ <<m, n>> \notin R
    BY <1>3, <1>4
  <2>2. ~ (<<m, n>>[1] < <<m, n>>[2])
    BY <2>1 DEF R
  <2> QED BY <2>1, <2>2
<1> QED BY <1>4

\* What holds ahead of a loop, and behind each pass of it that it held ahead of,
\* holds behind the last.
LEMMA Throughout ==
    ASSUME NEW n \in Nat, NEW T, 0 \in T, \A k \in 1 .. n : k - 1 \in T => k \in T
    PROVE  \A k \in 0 .. n : k \in T
<1> DEFINE Bad == { k \in 0 .. n : k \notin T }
<1> SUFFICES ASSUME Bad # {} PROVE FALSE
  OBVIOUS
<1>1. Bad \subseteq Nat
  OBVIOUS
<1>2. PICK k \in Bad : \A m \in Bad : k <= m
  BY <1>1, LeastNatural
<1>3. k \in 1 .. n /\ k - 1 \in 0 .. n /\ k - 1 \notin Bad
  BY <1>2
<1> QED BY <1>2, <1>3

-------------------------------------------------------------------------------
(* Placing records, observing acks, and the check that does both *)

\* The signed step between two sequence numbers is an integer.
LEMMA SerialDeltaInt ==
    ASSUME NEW a \in SeqNum, NEW b \in SeqNum
    PROVE  SerialDelta(a, b) \in Int
  BY SeqSpaceAssumption DEF SerialDelta, SeqNum, SeqHighBit

\* The origin a declared isn fixes is a sequence number.
LEMMA NewPlacerType ==
    ASSUME NEW isn \in SeqNum \cup {None}
    PROVE  NewPlacer(isn) \in PlacerType
<1>1. CASE isn = None
  BY <1>1 DEF NewPlacer, PlacerAt, PlacerType
<1>2. CASE isn # None
  <2>1. (isn + 1) % SeqSpace \in SeqNum
    BY <1>2, SeqSpaceAssumption DEF SeqNum
  <2> QED BY <1>2, <2>1, NoneAssumption DEF NewPlacer, PlacerAt, PlacerType, SeqNum
<1> QED BY <1>1, <1>2

\* Whatever record comes, a started placer is a placer, and knows its origin if
\* the record has a seq_start.
LEMMA StartedType ==
    ASSUME NEW placer \in PlacerType, NEW rec \in RecordType
    PROVE  /\ Started(placer, rec) \in PlacerType
           /\ rec.seq # None => /\ Started(placer, rec).origin \in SeqNum
                                /\ Started(placer, rec).value \in SeqNum
           /\ placer.origin # None => Started(placer, rec) = placer
  BY NoneAssumption DEF Started, PlacerAt, PlacerType, RecordType, SeqNum

\* A record's offset is a natural number, never below the position of the record
\* placed last: the walk never steps backwards.
LEMMA OffsetNotBelow ==
    ASSUME NEW placer \in PlacerType, NEW rec \in RecordType
    PROVE  /\ OffsetOf(placer, rec) \in Nat \cup {None}
           /\ OffsetOf(placer, rec) # None =>
                 /\ rec.seq # None
                 /\ OffsetOf(placer, rec) >= Started(placer, rec).position
<1> DEFINE at == Started(placer, rec)
<1>1. CASE rec.seq = None
  BY <1>1 DEF OffsetOf
<1>2. CASE rec.seq # None
  <2>1. at \in PlacerType /\ at.value \in SeqNum /\ rec.seq \in SeqNum
    BY <1>2, StartedType DEF RecordType
  <2>2. at.position \in Nat
    BY <2>1 DEF PlacerType
  <2>3. SerialDelta(rec.seq, at.value) \in Int
    BY <2>1, SerialDeltaInt
  <2> QED BY <1>2, <2>2, <2>3, NoneAssumption DEF OffsetOf
<1> QED BY <1>1, <1>2

\* Placing a record leaves a placer whose position is the record's offset, or
\* where it was; a known origin never changes.
LEMMA PlacedType ==
    ASSUME NEW placer \in PlacerType, NEW rec \in RecordType
    PROVE  /\ Placed(placer, rec) \in PlacerType
           /\ placer.origin # None => Placed(placer, rec).origin = placer.origin
           /\ OffsetOf(placer, rec) # None =>
                 /\ Placed(placer, rec).position = OffsetOf(placer, rec)
                 /\ Placed(placer, rec).origin # None
           /\ OffsetOf(placer, rec) = None =>
                 Placed(placer, rec).position = Started(placer, rec).position
<1> DEFINE at == Started(placer, rec)
           offset == OffsetOf(placer, rec)
<1>1. at \in PlacerType /\ (placer.origin # None => at = placer)
  BY StartedType
<1>2. CASE offset = None
  BY <1>1, <1>2 DEF Placed
<1>3. CASE offset # None
  <2>1. offset \in Nat /\ rec.seq \in SeqNum
    BY <1>3, OffsetNotBelow DEF RecordType
  <2>2. at.origin \in SeqNum
    BY <1>3, OffsetNotBelow, StartedType
  <2>3. Placed(placer, rec) = [at EXCEPT !.value = rec.seq, !.position = offset]
    BY <1>3 DEF Placed
  <2>4. rec.seq # None /\ at.origin # None
    BY <2>1, <2>2, NoneAssumption DEF SeqNum
  <2> HIDE DEF at, offset
  <2>5. /\ [at EXCEPT !.value = rec.seq, !.position = offset] \in PlacerType
        /\ [at EXCEPT !.value = rec.seq, !.position = offset].position = offset
        /\ [at EXCEPT !.value = rec.seq, !.position = offset].origin = at.origin
    BY <1>1, <2>1, <2>2, <2>4 DEF PlacerType
  <2> QED BY <1>1, <1>3, <2>3, <2>4, <2>5 DEF offset, at
<1> QED BY <1>2, <1>3

\* Where a record ends: nowhere, or at its offset (a bare SYN), or past it.
LEMMA SequenceEndType ==
    ASSUME NEW rec \in RecordType, NEW offset \in Nat \cup {None}
    PROVE  /\ SequenceEnd(rec, offset) \in Nat \cup {None}
           /\ SequenceEnd(rec, offset) # None =>
                 /\ offset # None
                 /\ SequenceEnd(rec, offset) >= offset
                 /\ rec.len > 0 \/ rec.flag # "syn" => SequenceEnd(rec, offset) > offset
<1>1. rec.len \in Nat /\ rec.flag \in {"none", "syn", "fin"}
  BY DEF RecordType
<1>2. CASE offset = None
  BY <1>2 DEF SequenceEnd
<1>3. CASE offset # None /\ rec.len > 0
  BY <1>1, <1>3, NoneAssumption DEF SequenceEnd
<1>4. CASE offset # None /\ rec.len = 0
  BY <1>1, <1>4, NoneAssumption DEF SequenceEnd
<1> QED BY <1>1, <1>2, <1>3, <1>4

\* Observing an ack keeps the first ack, and the walk an ack walk.
LEMMA AckObservedType ==
    ASSUME NEW walk \in AckWalkType, NEW ack \in SeqNum
    PROVE  /\ AckObserved(walk, ack) \in AckWalkType
           /\ AckObserved(walk, ack).first # None
           /\ AckObserved(walk, ack).position \in Int
           /\ walk.first # None => AckObserved(walk, ack).first = walk.first
<1>1. ack # None
  BY NoneAssumption DEF SeqNum
<1>2. CASE walk.first = None
  BY <1>1, <1>2 DEF AckObserved, AckWalkType
<1>3. CASE walk.first # None
  <2>1. walk.value \in SeqNum /\ walk.position \in Int
    BY <1>3 DEF AckWalkType
  <2>2. SerialDelta(ack, walk.value) \in Int
    BY <2>1, SerialDeltaInt
  <2> DEFINE position == walk.position + SerialDelta(ack, walk.value)
  <2>3. position \in Int
    BY <2>1, <2>2
  <2>4. AckObserved(walk, ack) =
          [walk EXCEPT !.value = ack, !.position = position,
                       !.highest = IF position > @ THEN position ELSE @]
    BY <1>3 DEF AckObserved
  <2> HIDE DEF position
  <2> QED BY <1>1, <1>3, <2>3, <2>4 DEF AckWalkType
<1> QED BY <1>2, <1>3

\* A fresh order check is well typed.
LEMMA NewOrderType ==
    ASSUME NEW count, NEW ds \in [Pids -> SeqNum \cup {None}]
    PROVE  NewOrder(count, ds) \in OrderType
<1>1. \A p \in Pids : NewPlacer(ds[p]) \in PlacerType
  BY NewPlacerType
<1>2. NewAckWalk \in AckWalkType
  BY DEF NewAckWalk, AckWalkType
<1> QED BY <1>1, <1>2 DEF NewOrder, OrderType

\* Observing a record leaves a well-typed order check, whether or not it raises.
LEMMA OrderObservedType ==
    ASSUME NEW order \in OrderType, NEW count, NEW p \in Pids, NEW rec \in RecordType
    PROVE  OrderObserved(order, count, p, rec) \in OrderType
<1> DEFINE scoped == [order EXCEPT !.senders = @ \cup {p},
                                   !.ackChecks = AckChecksAfter(order, count, p)]
           placed == [scoped EXCEPT
                        !.lastSeq[p] = IF rec.seq = None THEN @ ELSE rec.seq,
                        !.placers[p] = Placed(@, rec)]
           acked  == [placed EXCEPT !.acks[p] = AckObserved(@, rec.ack)]
<1>1. AckChecksAfter(order, count, p) \in BOOLEAN
  BY DEF AckChecksAfter, OrderType
<1>2. scoped \in OrderType
  BY <1>1 DEF OrderType
<1>3. placed \in OrderType
  <2>1. Placed(scoped.placers[p], rec) \in PlacerType
    BY <1>2, PlacedType DEF OrderType
  <2> HIDE DEF scoped
  <2> QED BY <1>2, <2>1 DEF OrderType, RecordType
<1>4. ASSUME rec.ack # None PROVE acked \in OrderType
  <2>1. AckObserved(placed.acks[p], rec.ack) \in AckWalkType
    BY <1>3, <1>4, AckObservedType DEF OrderType, RecordType
  <2> HIDE DEF placed
  <2> QED BY <1>3, <2>1 DEF OrderType
<1> HIDE DEF scoped, placed, acked
<1> QED BY <1>2, <1>3, <1>4 DEF OrderObserved, scoped, placed, acked

-------------------------------------------------------------------------------
(* Walks over a whole sequence *)

\* k steps, each from a value of D to another.
Steps(k, D) == [1 .. k -> [D -> D]]

\* f is where they lead from start.
LeadsFrom(start, step, k, D, f) ==
    f \in [0 .. k -> D] /\ f[0] = start /\ \A n \in 1 .. k : f[n] = step[n][f[n - 1]]

\* A walk that takes each step from the one before it can be made.
LEMMA WalkExists ==
    ASSUME NEW k \in Nat, NEW D, NEW start \in D, NEW step \in Steps(k, D)
    PROVE  \E f : LeadsFrom(start, step, k, D, f)
<1> USE DEF Steps, LeadsFrom
<1> DEFINE Walk(m, f) == f[0] = start /\ \A n \in 1 .. m : f[n] = step[n][f[n - 1]]
           T == { m \in 0 .. k : ~ \E f \in [0 .. m -> D] : Walk(m, f) }
<1> SUFFICES ASSUME T # {} PROVE FALSE
  BY DEF T
<1>1. PICK m \in T : \A n \in T : m <= n
  <2>1. T \subseteq Nat
    OBVIOUS
  <2> QED BY <2>1, LeastNatural
<1>2. CASE m = 0
  <2>1. [n \in 0 .. 0 |-> start] \in [0 .. 0 -> D] /\ Walk(0, [n \in 0 .. 0 |-> start])
    OBVIOUS
  <2> QED BY <1>1, <1>2, <2>1
<1>3. CASE m # 0
  <2>1. m \in 1 .. k /\ m - 1 \in 0 .. k /\ m - 1 \notin T
    <3>1. m \in 0 .. k
      BY <1>1
    <3> HIDE DEF T
    <3>2. m \in 1 .. k /\ m - 1 \in 0 .. k /\ m - 1 < m
      BY <1>3, <3>1
    <3> QED BY <1>1, <3>2
  <2>2. PICK f \in [0 .. m - 1 -> D] : Walk(m - 1, f)
    BY <2>1
  <2>3. f[m - 1] \in D /\ step[m] \in [D -> D]
    BY <2>1
  <2>4. step[m][f[m - 1]] \in D
    BY <2>3
  <2> DEFINE g == [n \in 0 .. m |-> IF n = m THEN step[m][f[m - 1]] ELSE f[n]]
  <2>5. g \in [0 .. m -> D]
    BY <2>1, <2>4
  <2>6. g[m] = step[m][f[m - 1]] /\ \A n \in 0 .. m - 1 : g[n] = f[n]
    BY <2>1
  <2> HIDE DEF g
  <2>7. Walk(m, g)
    <3>1. g[0] = start
      BY <2>1, <2>2, <2>6
    <3>2. ASSUME NEW n \in 1 .. m PROVE g[n] = step[n][g[n - 1]]
      <4>1. g[n - 1] = f[n - 1]
        BY <2>1, <2>6
      <4>2. CASE n = m
        BY <2>6, <4>1, <4>2
      <4>3. CASE n # m
        <5>1. n \in 1 .. m - 1
          BY <2>1, <4>3
        <5> QED BY <2>1, <2>2, <2>6, <4>1, <5>1
      <4> QED BY <4>2, <4>3
    <3> QED BY <3>1, <3>2
  <2> QED BY <1>1, <2>5, <2>7
<1> QED BY <1>2, <1>3

\* And never leaves its type.
LEMMA WalkStays ==
    ASSUME NEW k \in Nat, NEW D, NEW f, f[0] \in D,
           \A n \in 1 .. k : f[n - 1] \in D => f[n] \in D
    PROVE  \A n \in 0 .. k : f[n] \in D
<1> DEFINE T == { n \in 0 .. k : f[n] \notin D }
<1> SUFFICES ASSUME T # {} PROVE FALSE
  BY DEF T
<1>1. PICK m \in T : \A n \in T : m <= n
  <2>1. T \subseteq Nat
    OBVIOUS
  <2> QED BY <2>1, LeastNatural
<1>2. m # 0
  BY <1>1
<1>3. m \in 1 .. k /\ m - 1 \in 0 .. k /\ m - 1 \notin T
  BY <1>1, <1>2
<1> QED BY <1>1, <1>3

-------------------------------------------------------------------------------
(* add *)

\* bisect_left by end: the ranges before the position end before start, and the
\* one behind it does not.
LEMMA BeforeSplits ==
    ASSUME NEW into \in Seq(Ranges), NEW start \in Nat
    PROVE  LET n == BisectLeft(into, start)
           IN  /\ n \in 0 .. Len(into)
               /\ n = Len(into) \/ into[n + 1][2] >= start
               /\ \A i \in 1 .. n : into[i][2] < start
<1> DEFINE T == { n \in 0 .. Len(into) : n = Len(into) \/ into[n + 1][2] >= start }
<1>1. T \subseteq Nat /\ T # {}
  OBVIOUS
<1>2. PICK n \in T : \A m \in T : n <= m
  BY <1>1, LeastNatural
<1>3. ASSUME NEW i \in 1 .. n
      PROVE  into[i][2] < start
  <2>1. i - 1 \notin T
    <3>1. n \in Nat /\ i - 1 < n
      BY <1>1, <1>3
    <3>2. i - 1 \in T => n <= i - 1
      BY <1>2
    <3>3. i \in Int
      BY <1>3
    <3> HIDE DEF T
    <3> QED BY <3>1, <3>2, <3>3
  <2>2. i - 1 \in 0 .. Len(into) /\ i - 1 # Len(into) /\ i \in 1 .. Len(into)
    BY <1>2, <1>3
  <2>3. ~ (into[(i - 1) + 1][2] >= start)
    BY <2>1, <2>2
  <2> QED BY <2>2, <2>3, SMTT(30) DEF Ranges
<1>4. \E k \in 0 .. Len(into) :
        /\ k = Len(into) \/ into[k + 1][2] >= start
        /\ \A i \in 1 .. k : into[i][2] < start
  BY <1>2, <1>3
<1> QED BY <1>4 DEF BisectLeft

\* bisect_right by start: the ranges up to it start at or before end, and the
\* one behind it does not.
LEMMA UpToSplits ==
    ASSUME NEW into \in Seq(Ranges), NEW end \in Nat
    PROVE  LET n == BisectRight(into, end)
           IN  /\ n \in 0 .. Len(into)
               /\ n = Len(into) \/ into[n + 1][1] > end
               /\ \A i \in 1 .. n : into[i][1] <= end
<1> DEFINE T == { n \in 0 .. Len(into) : n = Len(into) \/ into[n + 1][1] > end }
<1>1. T \subseteq Nat /\ T # {}
  OBVIOUS
<1>2. PICK n \in T : \A m \in T : n <= m
  BY <1>1, LeastNatural
<1>3. ASSUME NEW i \in 1 .. n
      PROVE  into[i][1] <= end
  <2>1. i - 1 \notin T
    <3>1. n \in Nat /\ i - 1 < n
      BY <1>1, <1>3
    <3>2. i - 1 \in T => n <= i - 1
      BY <1>2
    <3>3. i \in Int
      BY <1>3
    <3> HIDE DEF T
    <3> QED BY <3>1, <3>2, <3>3
  <2>2. i - 1 \in 0 .. Len(into) /\ i - 1 # Len(into) /\ i \in 1 .. Len(into)
    BY <1>2, <1>3
  <2>3. ~ (into[(i - 1) + 1][1] > end)
    BY <2>1, <2>2
  <2> QED BY <2>2, <2>3, SMTT(30) DEF Ranges
<1>4. \E k \in 0 .. Len(into) :
        /\ k = Len(into) \/ into[k + 1][1] > end
        /\ \A i \in 1 .. k : into[i][1] <= end
  BY <1>2, <1>3
<1> QED BY <1>4 DEF BisectRight

\* The ranges of a list are ranges of natural numbers.
LEMMA RangeOf ==
    ASSUME NEW into \in Seq(Ranges), NEW i \in 1 .. Len(into)
    PROVE  into[i] \in Ranges /\ into[i][1] \in Nat /\ into[i][2] \in Nat /\ into[i][1] < into[i][2]
  BY DEF Ranges

\* In a coalesced list starts and ends rise together.
LEMMA RangesRise ==
    ASSUME NEW into \in Seq(Ranges), Coalesced(into),
           NEW i \in 1 .. Len(into), NEW j \in 1 .. Len(into), j <= i
    PROVE  into[j][1] <= into[i][1] /\ into[j][2] <= into[i][2]
<1>1. CASE j = i
  BY <1>1, RangeOf
<1>2. CASE j < i
  <2>1. into[j][2] < into[i][1]
    BY <1>2 DEF Coalesced
  <2> QED BY <2>1, RangeOf
<1> QED BY <1>1, <1>2

\* The ranges a new one touches are those behind bisect_left and up to bisect_right.
LEMMA TouchedRanges ==
    ASSUME NEW into \in Seq(Ranges), Coalesced(into),
           NEW start \in Nat, NEW end \in Nat, start < end
    PROVE  /\ BisectLeft(into, start) <= BisectRight(into, end)
           /\ \A i \in 1 .. Len(into) : i > BisectLeft(into, start) => into[i][2] >= start
           /\ \A i \in 1 .. Len(into) : i > BisectRight(into, end) => into[i][1] > end
<1> DEFINE lo == BisectLeft(into, start)
           hi == BisectRight(into, end)
<1>1. /\ lo \in 0 .. Len(into)
      /\ lo = Len(into) \/ into[lo + 1][2] >= start
      /\ \A i \in 1 .. lo : into[i][2] < start
  BY BeforeSplits
<1>2. /\ hi \in 0 .. Len(into)
      /\ hi = Len(into) \/ into[hi + 1][1] > end
      /\ \A i \in 1 .. hi : into[i][1] <= end
  BY UpToSplits
<1> HIDE DEF lo, hi
<1>3. ASSUME NEW i \in 1 .. Len(into), i > lo
      PROVE  into[i][2] >= start
  <2>1. lo + 1 \in 1 .. Len(into) /\ lo + 1 <= i /\ into[lo + 1][2] >= start
    BY <1>1, <1>3
  <2>2. into[lo + 1][2] <= into[i][2]
    BY <2>1, RangesRise
  <2> QED BY <2>1, <2>2, RangeOf
<1>4. ASSUME NEW i \in 1 .. Len(into), i > hi
      PROVE  into[i][1] > end
  <2>1. hi + 1 \in 1 .. Len(into) /\ hi + 1 <= i /\ into[hi + 1][1] > end
    BY <1>2, <1>4
  <2>2. into[hi + 1][1] <= into[i][1]
    BY <2>1, RangesRise
  <2> QED BY <2>1, <2>2, RangeOf
<1>5. lo <= hi
  <2> SUFFICES ASSUME lo > hi PROVE FALSE
    BY <1>1, <1>2
  <2>1. lo \in 1 .. Len(into)
    BY <1>1, <1>2
  <2>2. into[lo][2] < start /\ into[lo][1] > end
    BY <2>1, <1>1, <1>4
  <2> QED BY <2>1, <2>2, RangeOf
<1> QED BY <1>3, <1>4, <1>5 DEF lo, hi

\* Fused: the ranges before the new one, one that spans it and all it touches,
\* and the ranges behind it.
LEMMA FusedShape ==
    ASSUME NEW into \in Seq(Ranges), Coalesced(into),
           NEW start \in Nat, NEW end \in Nat, start < end
    PROVE  \E lo, hi \in 0 .. Len(into), fused \in Ranges :
             /\ lo <= hi
             /\ \A i \in 1 .. lo : into[i][2] < start
             /\ \A i \in 1 .. hi : into[i][1] <= end
             /\ \A i \in 1 .. Len(into) : i > lo => into[i][2] >= start
             /\ \A i \in 1 .. Len(into) : i > hi => into[i][1] > end
             /\ fused[1] <= start /\ end <= fused[2]
             /\ IF lo = hi THEN fused[1] = start /\ fused[2] = end
                ELSE /\ fused[1] <= into[lo + 1][1] /\ into[hi][2] <= fused[2]
                     /\ fused[1] = start \/ fused[1] = into[lo + 1][1]
                     /\ fused[2] = end \/ fused[2] = into[hi][2]
             /\ Fused(into, start, end) =
                   SubSeq(into, 1, lo) \o <<fused>> \o SubSeq(into, hi + 1, Len(into))
<1> DEFINE lo == BisectLeft(into, start)
           hi == BisectRight(into, end)
           fused == IF lo = hi THEN <<start, end>>
                    ELSE <<Smaller(start, into[lo + 1][1]), Larger(end, into[hi][2])>>
<1>1. Fused(into, start, end) =
        SubSeq(into, 1, lo) \o <<fused>> \o SubSeq(into, hi + 1, Len(into))
  BY DEF Fused
<1>2. lo \in 0 .. Len(into) /\ \A i \in 1 .. lo : into[i][2] < start
  BY BeforeSplits
<1>3. hi \in 0 .. Len(into) /\ \A i \in 1 .. hi : into[i][1] <= end
  BY UpToSplits
<1>4. /\ lo <= hi
      /\ \A i \in 1 .. Len(into) : i > lo => into[i][2] >= start
      /\ \A i \in 1 .. Len(into) : i > hi => into[i][1] > end
  BY TouchedRanges
<1>5. /\ fused \in Ranges
      /\ fused[1] <= start /\ end <= fused[2]
      /\ IF lo = hi THEN fused[1] = start /\ fused[2] = end
         ELSE /\ fused[1] <= into[lo + 1][1] /\ into[hi][2] <= fused[2]
              /\ fused[1] = start \/ fused[1] = into[lo + 1][1]
              /\ fused[2] = end \/ fused[2] = into[hi][2]
  <2> HIDE DEF lo, hi
  <2>1. CASE lo = hi
    BY <2>1 DEF Ranges
  <2>2. CASE lo # hi
    <3>1. lo + 1 \in 1 .. Len(into) /\ hi \in 1 .. Len(into)
      BY <1>2, <1>3, <1>4, <2>2
    <3>2. /\ into[lo + 1][1] \in Nat /\ into[hi][2] \in Nat
      BY <3>1, RangeOf
    <3>3. fused = <<Smaller(start, into[lo + 1][1]), Larger(end, into[hi][2])>>
      BY <2>2
    <3> HIDE DEF fused
    <3> QED BY <2>2, <3>2, <3>3, SMTT(30) DEF Ranges, Smaller, Larger
  <2> QED BY <2>1, <2>2
<1> HIDE DEF lo, hi, fused
<1> QED BY <1>1, <1>2, <1>3, <1>4, <1>5

\* What stands at the places of a list that has one member in the place of some.
Spliced(T, list, into, lo, hi, fused) ==
    /\ list \in Seq(T)
    /\ Len(list) = lo + 1 + (Len(into) - hi)
    /\ \A i \in 1 .. lo : list[i] = into[i]
    /\ list[lo + 1] = fused
    /\ \A i \in 1 .. Len(into) - hi : list[lo + 1 + i] = into[hi + i]

\* The elements of such a list, by place.
LEMMA SplicedList ==
    ASSUME NEW T, NEW into \in Seq(T), NEW lo \in 0 .. Len(into), NEW hi \in 0 .. Len(into),
           lo <= hi, NEW fused \in T
    PROVE  Spliced(T, SubSeq(into, 1, lo) \o <<fused>> \o SubSeq(into, hi + 1, Len(into)),
                   into, lo, hi, fused)
<1> DEFINE left == SubSeq(into, 1, lo)
           right == SubSeq(into, hi + 1, Len(into))
<1>1. /\ left \in Seq(T) /\ Len(left) = lo
      /\ \A i \in 1 .. lo : left[i] = into[i]
  <2>1. \A i \in 1 .. lo : into[i] \in T
    OBVIOUS
  <2> QED BY <2>1, SubSeqProperties
<1>2. /\ right \in Seq(T) /\ Len(right) = Len(into) - hi
      /\ \A i \in 1 .. Len(into) - hi : right[i] = into[hi + i]
  <2>1. \A i \in hi + 1 .. Len(into) : into[i] \in T
    OBVIOUS
  <2> QED BY <2>1, SubSeqProperties
<1> DEFINE front == left \o <<fused>>
           list == front \o right
<1>3. list = front \o right
  OBVIOUS
<1> HIDE DEF list
<1>4. front = left \o <<fused>>
  OBVIOUS
<1> HIDE DEF front, left, right
<1>5. <<fused>> \in Seq(T) /\ Len(<<fused>>) = 1 /\ <<fused>>[1] = fused
  OBVIOUS
<1>6. /\ front \in Seq(T)
      /\ Len(front) = lo + 1
      /\ \A i \in 1 .. lo : front[i] = into[i]
      /\ front[lo + 1] = fused
  <2> DEFINE one == <<fused>>
  <2>1. one \in Seq(T) /\ Len(one) = 1 /\ one[1] = fused /\ front = left \o one
    BY <1>4, <1>5
  <2> HIDE DEF one
  <2>2. /\ front \in Seq(T)
        /\ Len(front) = Len(left) + Len(one)
        /\ \A i \in 1 .. Len(left) : front[i] = left[i]
        /\ \A i \in 1 .. Len(one) : front[Len(left) + i] = one[i]
    <3>1. left \in Seq(T) /\ one \in Seq(T)
      BY <1>1, <2>1
    <3>2. front = left \o one
      BY <2>1
    <3> QED BY ONLY <3>1, <3>2, SMT
  <2> QED BY <1>1, <2>1, <2>2
<1>7. /\ list \in Seq(T)
      /\ Len(list) = Len(front) + Len(right)
      /\ \A i \in 1 .. Len(front) : list[i] = front[i]
      /\ \A i \in 1 .. Len(right) : list[Len(front) + i] = right[i]
  <2>1. front \in Seq(T) /\ right \in Seq(T)
    BY <1>2, <1>6
  <2> QED BY ONLY <1>3, <2>1, SMT
<1>8. /\ list \in Seq(T)
      /\ Len(list) = lo + 1 + (Len(into) - hi)
      /\ \A i \in 1 .. lo : list[i] = into[i]
      /\ list[lo + 1] = fused
      /\ \A i \in 1 .. Len(into) - hi : list[lo + 1 + i] = into[hi + i]
  BY <1>1, <1>2, <1>6, <1>7
<1> QED BY <1>8 DEF list, front, left, right, Spliced

-------------------------------------------------------------------------------

\* What add owes its caller: list is coalesced, and stands for what into stood
\* for and the new range.
Holds(list, into, start, end) ==
    /\ list \in Seq(Ranges)
    /\ Coalesced(list)
    /\ Offsets(list) = Offsets(into) \cup start .. end - 1

\* An offset is in a list when it is in one of its ranges.
LEMMA OffsetInRange ==
    ASSUME NEW list \in Seq(Ranges), NEW o
    PROVE  o \in Offsets(list) <=>
             /\ o \in Nat
             /\ \E i \in 1 .. Len(list) : list[i][1] <= o /\ o < list[i][2]
<1>1. ASSUME NEW i \in 1 .. Len(list)
      PROVE  o \in list[i][1] .. list[i][2] - 1 <=>
               o \in Nat /\ list[i][1] <= o /\ o < list[i][2]
  BY RangeOf
<1> QED BY <1>1 DEF Offsets

\* The case in which the new range starts before the last one.
LEMMA FusedHolds ==
    ASSUME NEW into \in Seq(Ranges), Coalesced(into),
           NEW start \in Nat, NEW end \in Nat, start < end
    PROVE  Holds(Fused(into, start, end), into, start, end)
<1> DEFINE list == Fused(into, start, end)
<1>1. PICK lo \in 0 .. Len(into), hi \in 0 .. Len(into), fused \in Ranges :
        /\ lo <= hi
        /\ \A i \in 1 .. lo : into[i][2] < start
        /\ \A i \in 1 .. hi : into[i][1] <= end
        /\ \A i \in 1 .. Len(into) : i > lo => into[i][2] >= start
        /\ \A i \in 1 .. Len(into) : i > hi => into[i][1] > end
        /\ fused[1] <= start /\ end <= fused[2]
        /\ IF lo = hi THEN fused[1] = start /\ fused[2] = end
           ELSE /\ fused[1] <= into[lo + 1][1] /\ into[hi][2] <= fused[2]
                /\ fused[1] = start \/ fused[1] = into[lo + 1][1]
                /\ fused[2] = end \/ fused[2] = into[hi][2]
        /\ list = SubSeq(into, 1, lo) \o <<fused>> \o SubSeq(into, hi + 1, Len(into))
  BY FusedShape
<1>2. /\ list \in Seq(Ranges)
      /\ Len(list) = lo + 1 + (Len(into) - hi)
      /\ \A i \in 1 .. lo : list[i] = into[i]
      /\ list[lo + 1] = fused
      /\ \A i \in 1 .. Len(into) - hi : list[lo + 1 + i] = into[hi + i]
  <2> DEFINE spliced == SubSeq(into, 1, lo) \o <<fused>> \o SubSeq(into, hi + 1, Len(into))
  <2>1. lo <= hi /\ list = spliced
    BY <1>1
  <2>2. Spliced(Ranges, spliced, into, lo, hi, fused)
    BY <2>1, SplicedList
  <2> HIDE DEF spliced, list
  <2> QED BY <2>1, <2>2 DEF Spliced
<1> HIDE DEF list
<1>3. Len(into) \in Nat /\ lo \in Nat /\ hi \in Nat /\ lo <= hi /\ hi <= Len(into)
  BY <1>1
<1>4. fused[1] \in Nat /\ fused[2] \in Nat /\ fused[1] < fused[2]
  BY DEF Ranges
\* What a place of the new list holds.
<1>5. ASSUME NEW i \in 1 .. Len(list)
      PROVE  \/ i <= lo /\ list[i] = into[i]
             \/ i = lo + 1 /\ list[i] = fused
             \/ \E k \in 1 .. Len(into) - hi : i = lo + 1 + k /\ list[i] = into[hi + k]
  <2>1. CASE i <= lo
    BY <1>2, <2>1
  <2>2. CASE i = lo + 1
    BY <1>2, <2>2
  <2>3. CASE i > lo + 1
    <3>1. i - (lo + 1) \in 1 .. Len(into) - hi /\ i = lo + 1 + (i - (lo + 1))
      BY <1>2, <1>3, <2>3
    <3> QED BY <1>2, <3>1
  <2> QED BY <1>3, <2>1, <2>2, <2>3
<1>6. ASSUME NEW i \in 1 .. Len(list), NEW j \in 1 .. i - 1
      PROVE  list[j][2] < list[i][1]
  <2>1. j \in 1 .. Len(list) /\ j < i
    BY <1>2, <1>3
  <2>2. CASE i <= lo /\ list[i] = into[i]
    <3>1. list[j] = into[j] /\ i \in 1 .. Len(into)
      BY <1>2, <1>3, <2>1, <2>2
    <3> QED BY <2>2, <3>1 DEF Coalesced
  <2>3. CASE i = lo + 1 /\ list[i] = fused
    <3>1. j \in 1 .. lo /\ j \in 1 .. Len(into) /\ list[j] = into[j]
      BY <1>2, <1>3, <2>1, <2>3
    <3>2. into[j][2] < start
      BY <1>1, <3>1
    <3>3. CASE fused[1] = start
      BY <2>3, <3>1, <3>2, <3>3
    <3>4. CASE lo # hi /\ fused[1] = into[lo + 1][1]
      <4>1. lo + 1 \in 1 .. Len(into) /\ j \in 1 .. (lo + 1) - 1
        BY <1>3, <3>1, <3>4
      <4>2. into[j][2] < into[lo + 1][1]
        BY <4>1 DEF Coalesced
      <4> QED BY <2>3, <3>1, <3>4, <4>2
    <3> QED BY <1>1, <3>3, <3>4
  <2>4. ASSUME NEW k \in 1 .. Len(into) - hi, i = lo + 1 + k, list[i] = into[hi + k]
        PROVE  list[j][2] < list[i][1]
    <3>1. hi + k \in 1 .. Len(into) /\ hi + k > hi
      BY <1>3
    <3>2. into[hi + k][1] > end /\ into[hi + k][1] \in Nat
      BY <1>1, <3>1, RangeOf
    <3>3. CASE j <= lo /\ list[j] = into[j]
      <4>1. j \in 1 .. (hi + k) - 1
        BY <1>3, <3>3
      <4>2. into[j][2] < into[hi + k][1]
        BY <3>1, <4>1 DEF Coalesced
      <4> QED BY <2>4, <3>3, <4>2
    <3>4. CASE j = lo + 1 /\ list[j] = fused
      <4>1. CASE fused[2] = end
        BY <2>4, <3>2, <3>4, <4>1
      <4>2. CASE lo # hi /\ fused[2] = into[hi][2]
        <5>1. hi \in 1 .. (hi + k) - 1
          BY <1>3, <4>2
        <5>2. into[hi][2] < into[hi + k][1]
          BY <3>1, <5>1 DEF Coalesced
        <5> QED BY <2>4, <3>4, <4>2, <5>2
      <4> QED BY <1>1, <4>1, <4>2
    <3>5. ASSUME NEW m \in 1 .. Len(into) - hi, j = lo + 1 + m, list[j] = into[hi + m]
          PROVE  list[j][2] < list[i][1]
      <4>1. hi + m \in 1 .. (hi + k) - 1
        BY <1>3, <2>1, <2>4, <3>5
      <4>2. into[hi + m][2] < into[hi + k][1]
        BY <3>1, <4>1 DEF Coalesced
      <4> QED BY <2>4, <3>5, <4>2
    <3> QED BY <1>5, <2>1, <3>3, <3>4, <3>5
  <2> QED BY <1>5, <2>2, <2>3, <2>4
<1>7. Coalesced(list)
  <2>1. ASSUME NEW i \in 1 .. Len(list)
        PROVE  list[i][1] < list[i][2]
    BY <1>2, RangeOf
  <2> QED BY <1>6, <2>1 DEF Coalesced
<1>8. ASSUME NEW o \in Nat, NEW i \in 1 .. Len(list), list[i][1] <= o, o < list[i][2]
      PROVE  \/ o \in start .. end - 1
             \/ \E h \in 1 .. Len(into) : into[h][1] <= o /\ o < into[h][2]
  <2>1. CASE i <= lo /\ list[i] = into[i]
    <3>1. i \in 1 .. Len(into)
      BY <1>3, <2>1
    <3> QED BY <1>8, <2>1, <3>1
  <2>2. CASE i = lo + 1 /\ list[i] = fused
    <3>1. CASE lo = hi
      <4>1. fused[1] = start /\ fused[2] = end
        BY <1>1, <3>1
      <4> QED BY <1>8, <2>2, <4>1
    <3>2. CASE lo # hi
      <4>1. lo + 1 \in 1 .. Len(into) /\ hi \in 1 .. Len(into)
        BY <1>3, <3>2
      <4>2. into[lo + 1][2] >= start /\ into[hi][1] <= end
        BY <1>1, <1>3, <4>1
      <4>3. CASE o < start
        <5>1. into[lo + 1][1] <= o /\ o < into[lo + 1][2]
          BY <1>1, <1>8, <2>2, <3>2, <4>1, <4>2, <4>3, RangeOf, SMTT(30)
        <5> QED BY <4>1, <5>1
      <4>4. CASE o >= end
        <5>1. into[hi][1] <= o /\ o < into[hi][2]
          BY <1>1, <1>8, <2>2, <3>2, <4>1, <4>2, <4>4, RangeOf
        <5> QED BY <4>1, <5>1
      <4>5. CASE start <= o /\ o < end
        BY <4>5
      <4> QED BY <4>3, <4>4, <4>5
    <3> QED BY <3>1, <3>2
  <2>3. ASSUME NEW k \in 1 .. Len(into) - hi, list[i] = into[hi + k]
        PROVE  \E h \in 1 .. Len(into) : into[h][1] <= o /\ o < into[h][2]
    <3>1. hi + k \in 1 .. Len(into)
      BY <1>3
    <3> QED BY <1>8, <2>3, <3>1
  <2> QED BY <1>5, <2>1, <2>2, <2>3
<1>9. ASSUME NEW o \in start .. end - 1
      PROVE  \E i \in 1 .. Len(list) : list[i][1] <= o /\ o < list[i][2]
  <2>1. lo + 1 \in 1 .. Len(list) /\ list[lo + 1] = fused
    BY <1>2, <1>3
  <2>2. fused[1] <= o /\ o < fused[2]
    BY <1>1, <1>4, SMTT(30)
  <2> QED BY <2>1, <2>2
<1>10. ASSUME NEW o \in Nat, NEW h \in 1 .. Len(into), into[h][1] <= o, o < into[h][2]
       PROVE  \E i \in 1 .. Len(list) : list[i][1] <= o /\ o < list[i][2]
  <2>1. CASE h <= lo
    <3>1. h \in 1 .. Len(list) /\ list[h] = into[h]
      BY <1>2, <1>3, <2>1
    <3> QED BY <1>10, <3>1
  <2>2. CASE lo < h /\ h <= hi
    <3>1. /\ lo + 1 \in 1 .. Len(into) /\ hi \in 1 .. Len(into)
          /\ lo + 1 <= h /\ h <= hi /\ lo # hi
      BY <1>3, <2>2
    <3>2. into[lo + 1][1] <= into[h][1] /\ into[h][2] <= into[hi][2]
      BY <3>1, RangesRise
    <3>3. fused[1] <= into[lo + 1][1] /\ into[hi][2] <= fused[2]
      BY <1>1, <3>1
    <3>4. fused[1] <= o /\ o < fused[2]
      <4>1. /\ into[h][1] \in Nat /\ into[h][2] \in Nat
            /\ into[lo + 1][1] \in Nat /\ into[hi][2] \in Nat
        BY <3>1, RangeOf
      <4>2. o \in Nat /\ into[h][1] <= o /\ o < into[h][2]
        BY <1>10
      <4>3. fused[1] <= o
        BY ONLY <1>4, <3>2, <3>3, <4>1, <4>2, SMTT(30)
      <4>4. o < fused[2]
        BY ONLY <1>4, <3>2, <3>3, <4>1, <4>2, SMTT(30)
      <4> QED BY <4>3, <4>4
    <3>5. lo + 1 \in 1 .. Len(list) /\ list[lo + 1] = fused
      BY <1>2, <1>3
    <3> QED BY <3>4, <3>5
  <2>3. CASE h > hi
    <3>1. PICK k \in 1 .. Len(into) - hi : h = hi + k
      <4>1. h - hi \in 1 .. Len(into) - hi /\ h = hi + (h - hi)
        BY <1>3, <2>3
      <4> QED BY <4>1
    <3>2. lo + 1 + k \in 1 .. Len(list)
      <4>1. Len(list) = lo + 1 + (Len(into) - hi)
        BY <1>2
      <4> QED BY ONLY k \in 1 .. Len(into) - hi, <1>3, <4>1, SMT
    <3>3. list[lo + 1 + k] = into[h]
      BY <1>2, <3>1
    <3> QED BY <1>10, <3>2, <3>3
  <2> QED BY <1>3, <2>1, <2>2, <2>3
<1>11. ASSUME NEW o
       PROVE  o \in Offsets(list) <=> o \in Offsets(into) \cup start .. end - 1
  <2>1. o \in Offsets(list) <=>
          o \in Nat /\ \E i \in 1 .. Len(list) : list[i][1] <= o /\ o < list[i][2]
    BY <1>2, OffsetInRange
  <2>2. o \in Offsets(into) <=>
          o \in Nat /\ \E i \in 1 .. Len(into) : into[i][1] <= o /\ o < into[i][2]
    BY OffsetInRange
  <2>3. o \in start .. end - 1 => o \in Nat
    OBVIOUS
  <2> QED BY <1>8, <1>9, <1>10, <2>1, <2>2, <2>3
<1>12. Offsets(list) = Offsets(into) \cup start .. end - 1
  BY <1>11
<1>13. Holds(list, into, start, end)
  BY <1>2, <1>7, <1>12 DEF Holds
<1> QED BY <1>13 DEF list

\* The case in which it starts within or behind the last one.
LEMMA ExtendedHolds ==
    ASSUME NEW into \in Seq(Ranges), Coalesced(into), into # << >>,
           NEW start \in Nat, NEW end \in Nat, start < end, start >= into[Len(into)][1]
    PROVE  Holds(Extended(into, start, end), into, start, end)
<1> DEFINE n == Len(into)
           list == Extended(into, start, end)
<1>1. n \in Nat /\ n \in 1 .. n
  OBVIOUS
<1>2. into[n][1] \in Nat /\ into[n][2] \in Nat /\ into[n][1] < into[n][2] /\ into[n][1] <= start
  BY <1>1, RangeOf
<1>3. CASE start <= into[n][2]
  <2> DEFINE last == <<into[n][1], Larger(into[n][2], end)>>
  <2>1. list = [into EXCEPT ![n] = last]
    BY <1>3 DEF Extended
  <2>2. /\ last \in Ranges
        /\ last[1] = into[n][1]
        /\ into[n][2] <= last[2] /\ end <= last[2]
        /\ last[2] = into[n][2] \/ last[2] = end
    BY <1>2 DEF Larger, Ranges
  <2> HIDE DEF last, list
  <2>3. /\ list \in Seq(Ranges) /\ Len(list) = n
        /\ list[n] = last
        /\ \A i \in 1 .. n : i # n => list[i] = into[i]
    BY <1>1, <2>1, <2>2
  <2>4. \A i \in 1 .. n : list[i][1] = into[i][1]
    BY <2>2, <2>3
  <2>5. ASSUME NEW i \in 1 .. n, NEW j \in 1 .. i - 1
        PROVE  list[j][2] < list[i][1]
    <3>1. j \in 1 .. n /\ j # n /\ list[j] = into[j]
      BY <1>1, <2>3
    <3>2. into[j][2] < into[i][1]
      BY DEF Coalesced
    <3> QED BY <2>4, <3>1, <3>2
  <2>6. Coalesced(list)
    <3>1. ASSUME NEW i \in 1 .. Len(list)
          PROVE  list[i][1] < list[i][2]
      BY <2>3, RangeOf
    <3> QED BY <2>3, <2>5, <3>1 DEF Coalesced
  <2>7. ASSUME NEW o
        PROVE  o \in Offsets(list) <=> o \in Offsets(into) \cup start .. end - 1
    <3>1. o \in Offsets(list) <=>
            o \in Nat /\ \E i \in 1 .. n : list[i][1] <= o /\ o < list[i][2]
      BY <2>3, OffsetInRange
    <3>2. o \in Offsets(into) <=>
            o \in Nat /\ \E i \in 1 .. n : into[i][1] <= o /\ o < into[i][2]
      BY OffsetInRange
    <3>3. ASSUME o \in Nat, NEW i \in 1 .. n, list[i][1] <= o, o < list[i][2]
          PROVE  \/ o \in start .. end - 1
                 \/ into[i][1] <= o /\ o < into[i][2]
      <4>1. CASE i # n
        BY <2>3, <3>3, <4>1
      <4>2. CASE i = n
        <5>1. into[n][1] <= o /\ o < last[2]
          BY <2>2, <2>3, <3>3, <4>2
        <5> QED BY <1>2, <1>3, <2>2, <3>3, <4>2, <5>1
      <4> QED BY <4>1, <4>2
    <3>4. ASSUME o \in Nat, NEW i \in 1 .. n, into[i][1] <= o, o < into[i][2]
          PROVE  list[i][1] <= o /\ o < list[i][2]
      <4>1. CASE i # n
        BY <2>3, <3>4, <4>1
      <4>2. CASE i = n
        <5>1. last[2] \in Nat
          BY <2>2 DEF Ranges
        <5> QED BY <1>2, <2>2, <2>3, <3>4, <4>2, <5>1
      <4> QED BY <4>1, <4>2
    <3>5. ASSUME o \in start .. end - 1
          PROVE  o \in Nat /\ list[n][1] <= o /\ o < list[n][2]
      <4>1. last[2] \in Nat
        BY <2>2 DEF Ranges
      <4> QED BY <1>2, <2>2, <2>3, <3>5, <4>1
    <3> QED BY <1>1, <3>1, <3>2, <3>3, <3>4, <3>5
  <2>8. Offsets(list) = Offsets(into) \cup start .. end - 1
    BY <2>7
  <2>9. Holds(list, into, start, end)
    BY <2>3, <2>6, <2>8 DEF Holds
  <2> QED BY <2>9 DEF list
<1>4. CASE start > into[n][2]
  <2> DEFINE last == <<start, end>>
  <2>1. list = Append(into, last)
    BY <1>2, <1>4 DEF Extended
  <2>2. last \in Ranges /\ last[1] = start /\ last[2] = end
    BY DEF Ranges
  <2> HIDE DEF last, list
  <2>3. /\ list \in Seq(Ranges) /\ Len(list) = n + 1
        /\ list[n + 1] = last
        /\ \A i \in 1 .. n : list[i] = into[i]
    BY <1>1, <2>1, <2>2
  <2>4. ASSUME NEW i \in 1 .. n + 1, NEW j \in 1 .. i - 1
        PROVE  list[j][2] < list[i][1]
    <3>1. j \in 1 .. n /\ list[j] = into[j]
      BY <1>1, <2>3
    <3>2. CASE i \in 1 .. n
      <4>1. into[j][2] < into[i][1]
        BY <3>2 DEF Coalesced
      <4> QED BY <2>3, <3>1, <3>2, <4>1
    <3>3. CASE i = n + 1
      <4>1. into[j][2] <= into[n][2]
        BY <1>1, <3>1, RangesRise
      <4>2. into[j][2] \in Nat
        BY <3>1, RangeOf
      <4> QED BY <1>2, <1>4, <2>2, <2>3, <3>1, <3>3, <4>1, <4>2
    <3> QED BY <1>1, <3>2, <3>3
  <2>5. Coalesced(list)
    <3>1. ASSUME NEW i \in 1 .. Len(list)
          PROVE  list[i][1] < list[i][2]
      BY <2>3, RangeOf
    <3> QED BY <2>3, <2>4, <3>1 DEF Coalesced
  <2>6. ASSUME NEW o
        PROVE  o \in Offsets(list) <=> o \in Offsets(into) \cup start .. end - 1
    <3>1. o \in Offsets(list) <=>
            o \in Nat /\ \E i \in 1 .. n + 1 : list[i][1] <= o /\ o < list[i][2]
      BY <2>3, OffsetInRange
    <3>2. o \in Offsets(into) <=>
            o \in Nat /\ \E i \in 1 .. n : into[i][1] <= o /\ o < into[i][2]
      BY OffsetInRange
    <3>3. o \in start .. end - 1 <=>
            o \in Nat /\ list[n + 1][1] <= o /\ o < list[n + 1][2]
      BY <2>2, <2>3
    <3>4. \A i \in 1 .. n + 1 : i \in 1 .. n \/ i = n + 1
      BY <1>1
    <3>5. n + 1 \in 1 .. n + 1 /\ \A i \in 1 .. n : i \in 1 .. n + 1
      BY <1>1
    <3> QED BY <2>3, <3>1, <3>2, <3>3, <3>4, <3>5
  <2>7. Offsets(list) = Offsets(into) \cup start .. end - 1
    BY <2>6
  <2>8. Holds(list, into, start, end)
    BY <2>3, <2>5, <2>7 DEF Holds
  <2> QED BY <2>8 DEF list
<1> QED BY <1>2, <1>3, <1>4

\* add, for every coalesced list and every range: the list it leaves is
\* coalesced again, and stands for exactly the offsets the list stood for and
\* those of the range (_intervals.py:40-75).
THEOREM AddIsUnion ==
    ASSUME NEW into \in Seq(Ranges), Coalesced(into), NEW start \in Nat, NEW end \in Nat
    PROVE  /\ Add(into, start, end) \in Seq(Ranges)
           /\ Coalesced(Add(into, start, end))
           /\ Offsets(Add(into, start, end)) = Offsets(into) \cup start .. end - 1
<1>1. CASE start >= end
  <2>1. Add(into, start, end) = into /\ start .. end - 1 = {}
    BY <1>1 DEF Add
  <2> QED BY <2>1
<1>2. CASE start < end /\ into = << >>
  <2> DEFINE list == <<<<start, end>>>>
  <2>1. Add(into, start, end) = list
    BY <1>2 DEF Add
  <2>2. list \in Seq(Ranges) /\ Len(list) = 1 /\ list[1][1] = start /\ list[1][2] = end
    BY <1>2 DEF Ranges
  <2> HIDE DEF list
  <2>3. Coalesced(list)
    BY <1>2, <2>2 DEF Coalesced
  <2>4. ASSUME NEW o
        PROVE  o \in Offsets(list) <=> o \in Offsets(into) \cup start .. end - 1
    <3>1. o \in Offsets(list) <=>
            o \in Nat /\ \E i \in 1 .. 1 : list[i][1] <= o /\ o < list[i][2]
      BY <2>2, OffsetInRange
    <3>2. o \notin Offsets(into)
      <4>1. Len(into) = 0
        BY <1>2
      <4>2. ~ \E i \in 1 .. Len(into) : TRUE
        BY <4>1
      <4> QED BY <4>2, OffsetInRange
    <3> QED BY <2>2, <3>1, <3>2
  <2>5. Offsets(list) = Offsets(into) \cup start .. end - 1
    BY <2>4
  <2> QED BY <2>1, <2>2, <2>3, <2>5
<1>3. CASE start < end /\ into # << >> /\ start >= into[Len(into)][1]
  <2>1. Add(into, start, end) = Extended(into, start, end)
    BY <1>3 DEF Add
  <2>2. Holds(Extended(into, start, end), into, start, end)
    BY <1>3, ExtendedHolds
  <2> QED BY <2>1, <2>2 DEF Holds
<1>4. CASE start < end /\ into # << >> /\ ~ (start >= into[Len(into)][1])
  <2>1. Add(into, start, end) = Fused(into, start, end)
    BY <1>4 DEF Add
  <2>2. Holds(Fused(into, start, end), into, start, end)
    BY <1>4, FusedHolds
  <2> QED BY <2>1, <2>2 DEF Holds
<1> QED BY <1>1, <1>2, <1>3, <1>4

-------------------------------------------------------------------------------
(* What a fold comes to: the induction TLAPS lacks, by least counterexample *)

\* iter goes from a set to one element less, up to sets of size n, and from none to base.
Iterates(iter, S, n, base, step, pick) ==
    iter = [T \in { U \in SUBSET S : Cardinality(U) <= n } |->
              IF T = {} THEN base ELSE step[pick[T], iter[T \ {pick[T]}]]]

\* The recursion of a fold: over the members of S, one after another as pick has
\* them, and over the positions of a list, the last of them first.
FoldsSet(iter, S, V, base, step, pick) ==
    /\ iter \in [SUBSET S -> V]
    /\ iter = [T \in SUBSET S |-> IF T = {} THEN base ELSE step[pick[T], iter[T \ {pick[T]}]]]

FoldsList(iter, n, V, base, step) ==
    /\ iter \in [SUBSET (1 .. n) -> V]
    /\ \A U \in SUBSET (1 .. n) :
          iter[U] = IF U = {} THEN base ELSE step[Max(U), iter[U \ {Max(U)}]]

\* The recursion of a fold over a finite set has a solution.
LEMMA FoldExists ==
    ASSUME NEW S, IsFiniteSet(S), NEW V, NEW base \in V, NEW step \in [S \X V -> V],
           NEW pick, \A T \in SUBSET S : T # {} => pick[T] \in T
    PROVE  \E iter : FoldsSet(iter, S, V, base, step, pick)
<1> DEFINE Small(n) == { U \in SUBSET S : Cardinality(U) <= n }
           Good(n) == \E iter \in [Small(n) -> V] : Iterates(iter, S, n, base, step, pick)
           Bad == { n \in Nat : ~ Good(n) }
<1>1. \A U \in SUBSET S : /\ IsFiniteSet(U) /\ Cardinality(U) \in Nat /\ Cardinality(U) <= Cardinality(S)
                          /\ Cardinality(U) = 0 <=> U = {}
  BY FS_Subset, FS_CardinalityType, FS_EmptySet
<1>2. \A U \in SUBSET S : U # {} =>
        /\ U \ {pick[U]} \in SUBSET S
        /\ Cardinality(U \ {pick[U]}) = Cardinality(U) - 1
  BY <1>1, FS_RemoveElement
<1>3. Good(0)
  <2> DEFINE iter == [T \in Small(0) |-> base]
  <2>1. \A T \in Small(0) : T = {}
    BY <1>1
  <2>2. iter = [T \in Small(0) |-> IF T = {} THEN base ELSE step[pick[T], iter[T \ {pick[T]}]]]
    BY <2>1
  <2>3. iter \in [Small(0) -> V]
    OBVIOUS
  <2> QED BY <2>2, <2>3 DEF Iterates
<1>4. ASSUME NEW n \in Nat, Good(n)
      PROVE  Good(n + 1)
  <2>1. PICK old \in [Small(n) -> V] : Iterates(old, S, n, base, step, pick)
    BY <1>4
  <2> DEFINE iter == [T \in Small(n + 1) |->
                        IF T = {} THEN base ELSE step[pick[T], old[T \ {pick[T]}]]]
  <2>2. \A T \in Small(n) : T \in Small(n + 1) /\ iter[T] = old[T]
    <3>1. \A T \in Small(n) : T \in Small(n + 1)
      BY <1>1
    <3>2. \A T \in Small(n) : old[T] = IF T = {} THEN base ELSE step[pick[T], old[T \ {pick[T]}]]
      BY <2>1 DEF Iterates
    <3> QED BY <3>1, <3>2
  <2>3. \A T \in Small(n + 1) : T # {} => T \ {pick[T]} \in Small(n) /\ pick[T] \in S
    BY <1>1, <1>2
  <2>4. iter \in [Small(n + 1) -> V]
    <3>1. \A T \in Small(n + 1) : T # {} => step[pick[T], old[T \ {pick[T]}]] \in V
      BY <2>3
    <3> QED BY <3>1
  <2>5. iter = [T \in Small(n + 1) |-> IF T = {} THEN base ELSE step[pick[T], iter[T \ {pick[T]}]]]
    <3>1. \A T \in Small(n + 1) : T # {} => iter[T \ {pick[T]}] = old[T \ {pick[T]}]
      BY <2>2, <2>3
    <3> HIDE DEF Small
    <3>2. \A T \in Small(n + 1) : iter[T] = IF T = {} THEN base ELSE step[pick[T], old[T \ {pick[T]}]]
      OBVIOUS
    <3> QED BY <3>1, <3>2
  <2> HIDE DEF iter
  <2> QED BY <2>4, <2>5 DEF Iterates
<1>5. Bad = {}
  <2> HIDE DEF Good
  <2> SUFFICES ASSUME Bad # {} PROVE FALSE
    OBVIOUS
  <2>1. PICK n \in Bad : \A m \in Bad : n <= m
    BY LeastNatural
  <2>2. n # 0
    BY <1>3, <2>1
  <2>3. n - 1 \in Nat /\ n - 1 \notin Bad /\ (n - 1) + 1 = n
    BY <2>1, <2>2
  <2>4. Good((n - 1) + 1)
    BY <1>4, <2>3
  <2> QED BY <2>1, <2>3, <2>4
<1>6. Cardinality(S) \in Nat /\ Small(Cardinality(S)) = SUBSET S
  BY <1>1, FS_CardinalityType
<1>7. Good(Cardinality(S))
  BY <1>5, <1>6
<1>8. PICK iter \in [SUBSET S -> V] : Iterates(iter, S, Cardinality(S), base, step, pick)
  BY <1>6, <1>7
<1>9. iter = [T \in SUBSET S |-> IF T = {} THEN base ELSE step[pick[T], iter[T \ {pick[T]}]]]
  <2>1. { U \in SUBSET S : Cardinality(U) <= Cardinality(S) } = SUBSET S
    BY <1>6
  <2> QED BY <1>8, <2>1 DEF Iterates
<1> QED BY <1>9 DEF FoldsSet

\* The greatest number of a beginning of a list's positions.
LEMMA LastPosition ==
    ASSUME NEW n \in Nat
    PROVE  /\ IsFiniteSet(1 .. n)
           /\ \A T \in SUBSET (1 .. n) : T # {} => Max(T) \in T
           /\ \A k \in 1 .. n : Max(1 .. k) = k /\ (1 .. k) \ {k} = 1 .. k - 1
           /\ \A k \in 1 .. n : /\ 1 .. k \in SUBSET (1 .. n) /\ 1 .. k # {}
                                /\ k \in 0 .. n /\ k - 1 \in 0 .. n
<1>1. IsFiniteSet(1 .. n)
  BY FS_Interval
<1>2. ASSUME NEW T \in SUBSET (1 .. n), T # {}
      PROVE  \E x \in T : \A y \in T : x >= y
  <2> DEFINE Back == { m \in Nat : \E x \in T : m = n - x }
  <2>1. Back # {} /\ Back \subseteq Nat
    <3>1. PICK x \in T : TRUE
      BY <1>2
    <3>2. n - x \in Nat
      BY <3>1
    <3> QED BY <3>2
  <2>2. PICK m \in Back : \A k \in Back : m <= k
    BY <2>1, LeastNatural
  <2>3. PICK x \in T : m = n - x
    BY <2>2
  <2>4. ASSUME NEW y \in T
        PROVE  x >= y
    <3>1. n - y \in Back
      OBVIOUS
    <3>2. n - x <= n - y /\ x \in Nat /\ y \in Nat
      BY <2>2, <2>3, <3>1
    <3> QED BY <3>2
  <2> QED BY <2>4
<1>3. \A T \in SUBSET (1 .. n) : T # {} => Max(T) \in T /\ \A y \in T : Max(T) >= y
  BY <1>2 DEF Max
<1>4. ASSUME NEW k \in 1 .. n
      PROVE  Max(1 .. k) = k /\ (1 .. k) \ {k} = 1 .. k - 1
  <2>1. 1 .. k \in SUBSET (1 .. n) /\ k \in 1 .. k
    OBVIOUS
  <2>2. Max(1 .. k) \in 1 .. k /\ Max(1 .. k) >= k
    BY <1>3, <2>1
  <2> QED BY <2>2
<1>5. ASSUME NEW k \in 1 .. n
      PROVE  1 .. k \in SUBSET (1 .. n) /\ 1 .. k # {} /\ k \in 0 .. n /\ k - 1 \in 0 .. n
  <2>1. k \in 1 .. k
    OBVIOUS
  <2>2. 1 .. k \subseteq 1 .. n
    OBVIOUS
  <2>3. k \in 0 .. n /\ k - 1 \in 0 .. n
    OBVIOUS
  <2> QED BY <2>1, <2>2, <2>3
<1> QED BY <1>1, <1>3, <1>4, <1>5

\* So has that of a fold over the positions of a list, the last of them first.
LEMMA LoopExists ==
    ASSUME NEW n \in Nat, NEW V, NEW base \in V, NEW step \in [(1 .. n) \X V -> V]
    PROVE  \E iter : FoldsList(iter, n, V, base, step)
<1> DEFINE S == 1 .. n
           pick == [U \in SUBSET S |-> Max(U)]
<1>1. IsFiniteSet(S) /\ \A U \in SUBSET S : U # {} => pick[U] \in U
  BY LastPosition
<1>2. \A U \in SUBSET S : pick[U] = Max(U)
  OBVIOUS
<1> HIDE DEF S, pick
<1>3. step \in [S \X V -> V]
  BY DEF S
<1>4. PICK iter : FoldsSet(iter, S, V, base, step, pick)
  BY <1>1, <1>3, FoldExists
<1>5. iter \in [SUBSET S -> V]
  BY <1>4 DEF FoldsSet
<1>6. \A U \in SUBSET S : iter[U] = IF U = {} THEN base ELSE step[pick[U], iter[U \ {pick[U]}]]
  BY <1>4 DEF FoldsSet
<1>7. \A U \in SUBSET S : iter[U] = IF U = {} THEN base ELSE step[Max(U), iter[U \ {Max(U)}]]
  BY <1>2, <1>6
<1> QED BY <1>5, <1>7 DEF S, FoldsList

-------------------------------------------------------------------------------

\* A range finds one place in a list.
LEMMA SetInType ==
    ASSUME NEW T, NEW list \in Seq(T), NEW r \in T
    PROVE  /\ SetIn(list, r) \in Seq(T)
           /\ ToSet(SetIn(list, r)) = ToSet(list) \cup {r}
<1> DEFINE B == { i \in DOMAIN list : Sorts(list[i], r) }
           n == Cardinality(B)
<1>1. Len(list) \in Nat /\ DOMAIN list = 1 .. Len(list)
  OBVIOUS
<1>2. n \in 0 .. Len(list)
  <2>1. IsFiniteSet(1 .. Len(list)) /\ Cardinality(1 .. Len(list)) = Len(list)
    BY <1>1, FS_Interval
  <2>2. B \subseteq 1 .. Len(list)
    BY <1>1
  <2> QED BY <2>1, <2>2, FS_Subset, FS_CardinalityType
<1>3. SetIn(list, r) = SubSeq(list, 1, (n + 1) - 1) \o <<r>> \o SubSeq(list, n + 1, Len(list))
  BY DEF SetIn, InsertAt
<1> HIDE DEF n
<1> DEFINE new == SetIn(list, r)
<1>4. Spliced(T, new, list, n, n, r)
  <2>1. (n + 1) - 1 = n /\ n <= n
    BY <1>2
  <2> QED BY <1>2, <1>3, <2>1, SplicedList
<1>5. /\ new \in Seq(T) /\ Len(new) = Len(list) + 1
      /\ \A i \in 1 .. n : new[i] = list[i]
      /\ new[n + 1] = r
      /\ \A i \in 1 .. Len(list) - n : new[n + 1 + i] = list[n + i]
  BY <1>1, <1>2, <1>4 DEF Spliced
<1> HIDE DEF new
<1>6. ASSUME NEW i \in 1 .. Len(new)
      PROVE  new[i] \in ToSet(list) \cup {r}
  <2>1. CASE i \in 1 .. n
    BY <1>1, <1>2, <1>5, <2>1 DEF ToSet
  <2>2. CASE i = n + 1
    BY <1>5, <2>2
  <2>3. CASE i > n + 1
    <3>1. i - (n + 1) \in 1 .. Len(list) - n /\ n + 1 + (i - (n + 1)) = i
      BY <1>1, <1>2, <1>5, <2>3
    <3>2. n + (i - (n + 1)) \in 1 .. Len(list)
      BY <1>1, <1>2, <1>5, <2>3
    <3>3. new[i] = list[n + (i - (n + 1))]
      BY <1>5, <3>1
    <3> QED BY <1>1, <3>2, <3>3 DEF ToSet
  <2> QED BY <1>2, <2>1, <2>2, <2>3
<1>7. ASSUME NEW i \in 1 .. Len(list)
      PROVE  list[i] \in ToSet(new)
  <2>1. CASE i \in 1 .. n
    BY <1>1, <1>2, <1>5, <2>1 DEF ToSet
  <2>2. CASE i > n
    <3>1. i - n \in 1 .. Len(list) - n /\ n + (i - n) = i /\ n + 1 + (i - n) \in DOMAIN new
      BY <1>1, <1>2, <1>5, <2>2
    <3> QED BY <1>5, <3>1 DEF ToSet
  <2> QED BY <1>2, <2>1, <2>2
<1>8. r \in ToSet(new)
  BY <1>1, <1>2, <1>5 DEF ToSet
<1>9. ToSet(new) = ToSet(list) \cup {r}
  BY <1>1, <1>5, <1>6, <1>7, <1>8 DEF ToSet
<1> QED BY <1>5, <1>9 DEF new

\* A loop over the list: what it has after each position.
LEMMA SortedRuns ==
    ASSUME NEW T, NEW list \in Seq(T)
    PROVE  \E run : /\ run[0] = << >> /\ run[Len(list)] = Sorted(list)
                    /\ \A k \in 1 .. Len(list) : run[k] = SetIn(run[k - 1], list[k])
<1> DEFINE n == Len(list)
           V == Seq(T)
           step == [p \in (1 .. n) \X V |-> SetIn(p[2], list[p[1]])]
           Solves(iter) == iter = [U \in SUBSET DOMAIN list |->
                              IF U = {} THEN << >> ELSE SetIn(iter[U \ {Max(U)}], list[Max(U)])]
<1>1. n \in Nat /\ DOMAIN list = 1 .. n /\ << >> \in V /\ \A i \in 1 .. n : list[i] \in T
  OBVIOUS
<1>2. \A i \in 1 .. n, st \in V : SetIn(st, list[i]) \in V
  BY <1>1, SetInType
<1>3. /\ step \in [(1 .. n) \X V -> V]
      /\ \A i \in 1 .. n, st \in V : step[i, st] = SetIn(st, list[i])
  BY <1>2
<1>4. /\ \A U \in SUBSET (1 .. n) : U # {} => Max(U) \in U
      /\ \A k \in 1 .. n : Max(1 .. k) = k /\ (1 .. k) \ {k} = 1 .. k - 1
      /\ \A k \in 1 .. n : 1 .. k \in SUBSET (1 .. n) /\ 1 .. k # {} /\ k \in 0 .. n /\ k - 1 \in 0 .. n
  BY <1>1, LastPosition
<1>5. \E iter : Solves(iter)
  <2> HIDE DEF step, V, n
  <2>1. PICK iter : FoldsList(iter, n, V, << >>, step)
    BY <1>1, <1>3, LoopExists
  <2>2. ASSUME NEW U \in SUBSET (1 .. n), U # {}
        PROVE  step[Max(U), iter[U \ {Max(U)}]] = SetIn(iter[U \ {Max(U)}], list[Max(U)])
    <3>1. Max(U) \in 1 .. n /\ iter[U \ {Max(U)}] \in V
      BY <1>4, <2>1, <2>2 DEF FoldsList
    <3> QED BY <1>3, <3>1
  <2>3. iter = [U \in SUBSET (1 .. n) |->
                  IF U = {} THEN << >> ELSE SetIn(iter[U \ {Max(U)}], list[Max(U)])]
    BY <2>1, <2>2 DEF FoldsList
  <2> QED BY <1>1, <2>3
<1> DEFINE iter == CHOOSE iter : Solves(iter)
<1>6. Solves(iter)
  BY <1>5
<1>7. Sorted(list) = iter[DOMAIN list]
  BY DEF Sorted, FoldLeft, MapThenFoldSet
<1> HIDE DEF iter
<1>8. \A U \in SUBSET (1 .. n) :
        iter[U] = IF U = {} THEN << >> ELSE SetIn(iter[U \ {Max(U)}], list[Max(U)])
  BY <1>1, <1>6
<1> HIDE DEF n
<1> DEFINE run == [k \in 0 .. n |-> iter[1 .. k]]
<1>9. ASSUME NEW k \in 1 .. n
      PROVE  run[k] = SetIn(run[k - 1], list[k])
  <2>1. 1 .. k \in SUBSET (1 .. n) /\ 1 .. k # {} /\ k \in 0 .. n /\ k - 1 \in 0 .. n
    BY <1>4, Zenon
  <2>2. iter[1 .. k] = SetIn(iter[1 .. k - 1], list[k])
    BY <1>4, <1>8, <2>1
  <2> QED BY <2>1, <2>2
<1>10. run[0] = << >> /\ run[n] = Sorted(list)
  <2>1. 1 .. 0 = {} /\ {} \in SUBSET (1 .. n) /\ 0 \in 0 .. n /\ n \in 0 .. n
    BY <1>1
  <2> QED BY <1>1, <1>7, <1>8, <2>1
<1> QED BY <1>9, <1>10 DEF n

\* Sorting keeps the members of a list.
LEMMA SortedHolds ==
    ASSUME NEW T, NEW list \in Seq(T)
    PROVE  Sorted(list) \in Seq(T) /\ ToSet(Sorted(list)) = ToSet(list)
<1> DEFINE n == Len(list)
<1>1. PICK run : /\ run[0] = << >> /\ run[n] = Sorted(list)
                 /\ \A k \in 1 .. n : run[k] = SetIn(run[k - 1], list[k])
  BY SortedRuns
<1> DEFINE Upto(k) == { list[i] : i \in 1 .. k }
           P == { k \in 0 .. n : run[k] \in Seq(T) /\ ToSet(run[k]) = Upto(k) }
<1>2. n \in Nat /\ \A k \in 1 .. n : list[k] \in T
  OBVIOUS
<1>3. 0 \in P
  <2>1. << >> \in Seq(T) /\ ToSet(<< >>) = {} /\ Upto(0) = {}
    BY DEF ToSet
  <2>2. run[0] = << >>
    BY <1>1
  <2>3. run[0] \in Seq(T) /\ ToSet(run[0]) = Upto(0)
    BY <2>1, <2>2, Zenon
  <2> QED BY <1>2, <2>3
<1>4. ASSUME NEW k \in 1 .. n, k - 1 \in P
      PROVE  k \in P
  <2>1. PICK old : old = run[k - 1]
    OBVIOUS
  <2>2. PICK new : new = run[k]
    OBVIOUS
  <2>3. old \in Seq(T) /\ ToSet(old) = Upto(k - 1) /\ new = SetIn(old, list[k]) /\ list[k] \in T
    BY <1>1, <1>2, <1>4, <2>1, <2>2
  <2>4. new \in Seq(T) /\ ToSet(new) = ToSet(old) \cup {list[k]}
    <3>1. PICK s \in Seq(T), r \in T : s = old /\ r = list[k]
      BY <2>3
    <3>2. SetIn(s, r) \in Seq(T) /\ ToSet(SetIn(s, r)) = ToSet(s) \cup {r}
      BY SetInType
    <3> QED BY <2>3, <3>1, <3>2, Zenon
  <2>5. Upto(k) = Upto(k - 1) \cup {list[k]}
    BY <1>2
  <2> HIDE DEF Upto
  <2>6. k \in 0 .. n /\ run[k] \in Seq(T) /\ ToSet(run[k]) = Upto(k)
    <3>1. k \in 0 .. n
      BY <1>2
    <3> QED BY <2>2, <2>3, <2>4, <2>5, <3>1, Zenon
  <2> QED BY <2>6, Zenon
<1> HIDE DEF P
<1>5. \A k \in 0 .. n : k \in P
  BY <1>2, <1>3, <1>4, Throughout
<1>6. n \in P
  BY <1>2, <1>5
<1>7. Upto(n) = ToSet(list)
  BY <1>2 DEF ToSet
<1> HIDE DEF Upto
<1> QED BY <1>1, <1>6, <1>7 DEF P

\* The loop of coalesce over the sorted ranges.
LEMMA CoalesceRuns ==
    ASSUME NEW list \in Seq(Nat \X Nat)
    PROVE  \E run : /\ run[0] = << >> /\ run[Len(list)] = FoldLeft(Added, << >>, list)
                    /\ \A k \in 1 .. Len(list) : run[k] = Added(run[k - 1], list[k])
<1> DEFINE n == Len(list)
           V == { l \in Seq(Ranges) : Coalesced(l) }
           step == [p \in (1 .. n) \X V |-> Added(p[2], list[p[1]])]
           Solves(iter) == iter = [U \in SUBSET DOMAIN list |->
                              IF U = {} THEN << >> ELSE Added(iter[U \ {Max(U)}], list[Max(U)])]
<1>1. n \in Nat /\ DOMAIN list = 1 .. n /\ << >> \in V /\ \A i \in 1 .. n : list[i] \in Nat \X Nat
  BY DEF Coalesced
<1>2. \A i \in 1 .. n, st \in V : Added(st, list[i]) \in V
  BY <1>1, AddIsUnion DEF Added
<1>3. /\ step \in [(1 .. n) \X V -> V]
      /\ \A i \in 1 .. n, st \in V : step[i, st] = Added(st, list[i])
  BY <1>2
<1>4. /\ \A U \in SUBSET (1 .. n) : U # {} => Max(U) \in U
      /\ \A k \in 1 .. n : Max(1 .. k) = k /\ (1 .. k) \ {k} = 1 .. k - 1
      /\ \A k \in 1 .. n : 1 .. k \in SUBSET (1 .. n) /\ 1 .. k # {} /\ k \in 0 .. n /\ k - 1 \in 0 .. n
  BY <1>1, LastPosition
<1>5. \E iter : Solves(iter)
  <2> HIDE DEF step, V, n
  <2>1. PICK iter : FoldsList(iter, n, V, << >>, step)
    BY <1>1, <1>3, LoopExists
  <2>2. ASSUME NEW U \in SUBSET (1 .. n), U # {}
        PROVE  step[Max(U), iter[U \ {Max(U)}]] = Added(iter[U \ {Max(U)}], list[Max(U)])
    <3>1. Max(U) \in 1 .. n /\ iter[U \ {Max(U)}] \in V
      BY <1>4, <2>1, <2>2 DEF FoldsList
    <3> QED BY <1>3, <3>1
  <2>3. iter = [U \in SUBSET (1 .. n) |->
                  IF U = {} THEN << >> ELSE Added(iter[U \ {Max(U)}], list[Max(U)])]
    BY <2>1, <2>2 DEF FoldsList
  <2> QED BY <1>1, <2>3
<1> DEFINE iter == CHOOSE iter : Solves(iter)
<1>6. Solves(iter)
  BY <1>5
<1>7. FoldLeft(Added, << >>, list) = iter[DOMAIN list]
  BY DEF FoldLeft, MapThenFoldSet
<1> HIDE DEF iter
<1>8. \A U \in SUBSET (1 .. n) :
        iter[U] = IF U = {} THEN << >> ELSE Added(iter[U \ {Max(U)}], list[Max(U)])
  BY <1>1, <1>6
<1> HIDE DEF n
<1> DEFINE run == [k \in 0 .. n |-> iter[1 .. k]]
<1>9. ASSUME NEW k \in 1 .. n
      PROVE  run[k] = Added(run[k - 1], list[k])
  <2>1. 1 .. k \in SUBSET (1 .. n) /\ 1 .. k # {} /\ k \in 0 .. n /\ k - 1 \in 0 .. n
    BY <1>4, Zenon
  <2>2. iter[1 .. k] = Added(iter[1 .. k - 1], list[k])
    BY <1>4, <1>8, <2>1
  <2> QED BY <2>1, <2>2
<1>10. run[0] = << >> /\ run[n] = FoldLeft(Added, << >>, list)
  <2>1. 1 .. 0 = {} /\ {} \in SUBSET (1 .. n) /\ 0 \in 0 .. n /\ n \in 0 .. n
    <3>1. n \in Nat
      BY <1>1
    <3> QED BY ONLY <3>1
  <2> QED BY <1>1, <1>7, <1>8, <2>1
<1> QED BY <1>9, <1>10 DEF n

\* coalesce, for every list of ranges in any order, overlapping, touching and
\* empty ones among them: what it returns is coalesced, and stands for exactly the
\* offsets the list stands for (_intervals.py coalesce).
THEOREM CoalesceIsUnion ==
    ASSUME NEW intervals \in Seq(Nat \X Nat)
    PROVE  /\ Coalesce(intervals) \in Seq(Ranges)
           /\ Coalesced(Coalesce(intervals))
           /\ Offsets(Coalesce(intervals)) = Offsets(intervals)
<1> DEFINE list == Sorted(intervals)
           n == Len(list)
<1>1. list \in Seq(Nat \X Nat) /\ ToSet(list) = ToSet(intervals)
  BY SortedHolds
<1> HIDE DEF list
<1>2. PICK run : /\ run[0] = << >> /\ run[n] = FoldLeft(Added, << >>, list)
                 /\ \A k \in 1 .. n : run[k] = Added(run[k - 1], list[k])
  BY <1>1, CoalesceRuns
<1> DEFINE Upto(k) == UNION { list[i][1] .. list[i][2] - 1 : i \in 1 .. k }
           P == { k \in 0 .. n : /\ run[k] \in Seq(Ranges) /\ Coalesced(run[k])
                                 /\ Offsets(run[k]) = Upto(k) }
<1>3. n \in Nat /\ \A k \in 1 .. n : list[k][1] \in Nat /\ list[k][2] \in Nat
  BY <1>1
<1>4. 0 \in P
  <2>1. << >> \in Seq(Ranges) /\ Coalesced(<< >>) /\ Offsets(<< >>) = {} /\ Upto(0) = {}
    BY DEF Coalesced, Offsets
  <2>2. run[0] = << >>
    BY <1>2
  <2>3. run[0] \in Seq(Ranges) /\ Coalesced(run[0]) /\ Offsets(run[0]) = Upto(0)
    BY <2>1, <2>2, Zenon
  <2> QED BY <1>3, <2>3
<1>5. ASSUME NEW k \in 1 .. n, k - 1 \in P
      PROVE  k \in P
  <2>1. PICK old : old = run[k - 1]
    OBVIOUS
  <2>2. PICK new : new = run[k]
    OBVIOUS
  <2>3. /\ old \in Seq(Ranges) /\ Coalesced(old) /\ Offsets(old) = Upto(k - 1)
        /\ new = Add(old, list[k][1], list[k][2])
    BY <1>2, <1>5, <2>1, <2>2 DEF Added
  <2>4. /\ new \in Seq(Ranges) /\ Coalesced(new)
        /\ Offsets(new) = Offsets(old) \cup list[k][1] .. list[k][2] - 1
    <3>1. PICK start \in Nat, end \in Nat : start = list[k][1] /\ end = list[k][2]
      BY <1>3
    <3>2. /\ Add(old, start, end) \in Seq(Ranges) /\ Coalesced(Add(old, start, end))
          /\ Offsets(Add(old, start, end)) = Offsets(old) \cup start .. end - 1
      BY <2>3, AddIsUnion
    <3> QED BY <2>3, <3>1, <3>2
  <2>5. Upto(k) = Upto(k - 1) \cup list[k][1] .. list[k][2] - 1
    <3>1. 1 .. k = (1 .. k - 1) \cup {k}
      BY <1>3
    <3> QED BY <3>1
  <2> HIDE DEF Upto
  <2>6. k \in 0 .. n /\ run[k] \in Seq(Ranges) /\ Coalesced(run[k]) /\ Offsets(run[k]) = Upto(k)
    <3>1. k \in 0 .. n
      BY <1>3
    <3> QED BY <2>2, <2>3, <2>4, <2>5, <3>1, Zenon
  <2> QED BY <2>6, Zenon
<1> HIDE DEF P
<1>6. \A k \in 0 .. n : k \in P
  BY <1>3, <1>4, <1>5, Throughout
<1>7. n \in P
  BY <1>3, <1>6
<1>8. Coalesce(intervals) = run[n]
  BY <1>2 DEF Coalesce, list
<1>9. Upto(n) = Offsets(intervals)
  <2>1. Upto(n) = UNION { r[1] .. r[2] - 1 : r \in ToSet(list) }
    <3>1. ToSet(list) = { list[i] : i \in 1 .. n }
      BY <1>1 DEF ToSet
    <3> HIDE DEF n
    <3> QED BY <3>1
  <2>2. Offsets(intervals) = UNION { r[1] .. r[2] - 1 : r \in ToSet(intervals) }
    <3>1. ToSet(intervals) = { intervals[i] : i \in 1 .. Len(intervals) }
      BY DEF ToSet
    <3> QED BY <3>1 DEF Offsets
  <2> QED BY <1>1, <2>1, <2>2
<1> QED BY <1>7, <1>8, <1>9 DEF P

-------------------------------------------------------------------------------
(* complement and intersections *)

Passing == [gaps : Seq(Ranges), position : Nat]

AtStart == [gaps |-> << >>, position |-> 0]

LEMMA PassedType ==
    ASSUME NEW extent \in Nat
    PROVE  \A st \in Passing, r \in Ranges : Passed(st, r, extent) \in Passing
<1> SUFFICES ASSUME NEW st \in Passing, NEW r \in Ranges PROVE Passed(st, r, extent) \in Passing
  OBVIOUS
<1>1. PICK gaps \in Seq(Ranges), position \in Nat : gaps = st.gaps /\ position = st.position
  BY DEF Passing
<1>2. PICK start \in Nat, end \in Nat : start = r[1] /\ end = r[2] /\ start < end
  BY DEF Ranges
<1>3. Larger(position, end) \in Nat
  BY DEF Larger
<1>4. start > position /\ position < extent => <<position, Smaller(start, extent)>> \in Ranges
  BY DEF Smaller, Ranges
<1>5. (IF start > position /\ position < extent
       THEN Append(gaps, <<position, Smaller(start, extent)>>) ELSE gaps) \in Seq(Ranges)
  BY <1>4
<1> QED BY <1>1, <1>2, <1>3, <1>5 DEF Passed, Passing

\* A range behind the last one.
LEMMA AppendHolds ==
    ASSUME NEW into \in Seq(Ranges), Coalesced(into), NEW start \in Nat, NEW end \in Nat,
           start < end, \A i \in 1 .. Len(into) : into[i][2] < start
    PROVE  Holds(Append(into, <<start, end>>), into, start, end)
<1>1. Len(into) \in Nat /\ \A i \in 1 .. Len(into) : into[i] \in Ranges
  OBVIOUS
<1>2. Append(into, <<start, end>>) = Add(into, start, end)
  <2>1. CASE into = << >>
    BY <2>1 DEF Add
  <2>2. CASE into # << >>
    <3>1. Len(into) \in 1 .. Len(into) /\ into[Len(into)] \in Ranges
      BY <1>1, <2>2
    <3>2. into[Len(into)][2] < start /\ into[Len(into)][1] < into[Len(into)][2]
          /\ into[Len(into)][1] \in Nat /\ into[Len(into)][2] \in Nat
      BY <3>1 DEF Ranges
    <3>3. ~ (start >= end) /\ start >= into[Len(into)][1] /\ ~ (start <= into[Len(into)][2])
      BY <3>2
    <3> QED BY <2>2, <3>3 DEF Add, Extended
  <2> QED BY <2>1, <2>2
<1> QED BY <1>2, AddIsUnion DEF Holds

\* What the loop of complement knows when it has passed what ends at its position:
\* its gaps are what is left of the offsets below it.
Leaves(state, covered, extent) ==
    /\ state.gaps \in Seq(Ranges) /\ Coalesced(state.gaps)
    /\ state.position \in Nat
    /\ \A i \in 1 .. Len(state.gaps) : state.gaps[i][2] < state.position
    /\ covered \subseteq 0 .. state.position - 1
    /\ Offsets(state.gaps) = (0 .. Smaller(state.position, extent) - 1) \ covered

\* One pass of it, over a range that starts behind the position or right at it.
LEMMA PassedLeaves ==
    ASSUME NEW extent \in Nat, NEW state, NEW covered, Leaves(state, covered, extent),
           NEW r \in Ranges, state.position <= r[1]
    PROVE  /\ Leaves(Passed(state, r, extent), covered \cup r[1] .. r[2] - 1, extent)
           /\ Passed(state, r, extent).position = r[2]
<1>1. PICK gaps \in Seq(Ranges), position \in Nat : gaps = state.gaps /\ position = state.position
  BY DEF Leaves
<1>2. PICK start \in Nat, end \in Nat : start = r[1] /\ end = r[2] /\ start < end
  BY DEF Ranges
<1>3. position <= start /\ Larger(position, end) = end
  BY <1>1, <1>2 DEF Larger
<1>4. /\ Coalesced(gaps) /\ covered \subseteq 0 .. position - 1
      /\ \A i \in 1 .. Len(gaps) : gaps[i][2] < position
      /\ Offsets(gaps) = (0 .. Smaller(position, extent) - 1) \ covered
  BY <1>1 DEF Leaves
<1>5. /\ Len(gaps) \in Nat
      /\ \A i \in 1 .. Len(gaps) : gaps[i][2] \in Nat
  BY DEF Ranges
<1> DEFINE new == Passed(state, r, extent)
<1>6. CASE start > position /\ position < extent
  <2>1. PICK upto \in Nat : upto = Smaller(start, extent)
    BY DEF Smaller
  <2>2. position < upto /\ upto <= start /\ upto <= extent /\ (upto = start \/ upto = extent)
    BY <1>6, <2>1 DEF Smaller
  <2>3. new = [gaps |-> Append(gaps, <<position, upto>>), position |-> end]
    BY <1>1, <1>2, <1>3, <1>6, <2>1 DEF Passed
  <2>4. PICK more : more = Append(gaps, <<position, upto>>)
    OBVIOUS
  <2>5. Holds(more, gaps, position, upto)
    BY <1>4, <1>5, <2>2, <2>4, AppendHolds
  <2>6. more \in Seq(Ranges) /\ Coalesced(more) /\ Offsets(more) = Offsets(gaps) \cup position .. upto - 1
    BY <2>5 DEF Holds
  <2>7. \A i \in 1 .. Len(more) : more[i][2] < end
    <3>1. ASSUME NEW i \in 1 .. Len(more) PROVE more[i][2] < end
      <4>1. CASE i \in 1 .. Len(gaps)
        <5>1. more[i] = gaps[i] /\ gaps[i][2] < position
          BY <1>4, <1>5, <2>4, <4>1
        <5> QED BY <1>2, <1>3, <1>5, <4>1, <5>1
      <4>2. CASE i \notin 1 .. Len(gaps)
        <5>1. more[i] = <<position, upto>>
          BY <1>5, <2>4, <4>2
        <5> QED BY <1>2, <2>2, <5>1
      <4> QED BY <4>1, <4>2
    <3> QED BY <3>1
  <2>8. covered \cup start .. end - 1 \subseteq 0 .. end - 1
    <3>1. 0 .. position - 1 \subseteq 0 .. end - 1 /\ start .. end - 1 \subseteq 0 .. end - 1
      BY <1>2, <1>3
    <3> QED BY <1>4, <3>1
  <2>9. Offsets(more) = (0 .. Smaller(end, extent) - 1) \ (covered \cup start .. end - 1)
    <3>1. Smaller(position, extent) = position
      BY <1>6 DEF Smaller
    <3>2. Offsets(more) = ((0 .. position - 1) \ covered) \cup position .. upto - 1
      BY <1>4, <2>6, <3>1
    <3>3. PICK top \in Nat : top = Smaller(end, extent) /\ top <= end /\ top <= extent
                             /\ (top = end \/ top = extent)
      BY DEF Smaller
    <3>4. ASSUME NEW o \in Nat
          PROVE  o \in Offsets(more) <=> o \in (0 .. top - 1) \ (covered \cup start .. end - 1)
      BY <1>2, <1>3, <1>4, <1>6, <2>2, <3>2, <3>3
    <3>5. Offsets(more) \subseteq Nat
      BY <3>2
    <3> QED BY <3>3, <3>4, <3>5
  <2> HIDE DEF new
  <2>10. new.gaps = more /\ new.position = end
    BY <2>3, <2>4
  <2>11. Leaves(new, covered \cup start .. end - 1, extent)
    BY <2>6, <2>7, <2>8, <2>9, <2>10 DEF Leaves
  <2> QED BY <1>2, <2>10, <2>11 DEF new
<1>7. CASE ~ (start > position /\ position < extent)
  <2>1. new = [gaps |-> gaps, position |-> end]
    BY <1>1, <1>2, <1>3, <1>7 DEF Passed
  <2>2. \A i \in 1 .. Len(gaps) : gaps[i][2] < end
    BY <1>2, <1>3, <1>4, <1>5
  <2>3. covered \cup start .. end - 1 \subseteq 0 .. end - 1
    <3>1. 0 .. position - 1 \subseteq 0 .. end - 1 /\ start .. end - 1 \subseteq 0 .. end - 1
      BY <1>2, <1>3
    <3> QED BY <1>4, <3>1
  <2>4. Offsets(gaps) = (0 .. Smaller(end, extent) - 1) \ (covered \cup start .. end - 1)
    <3>1. PICK top \in Nat : top = Smaller(end, extent) /\ top <= end /\ top <= extent
                             /\ (top = end \/ top = extent)
      BY DEF Smaller
    <3>2. PICK low \in Nat : low = Smaller(position, extent) /\ low <= position /\ low <= extent
                             /\ (low = position \/ low = extent)
      BY DEF Smaller
    <3>3. ASSUME NEW o \in Nat
          PROVE  o \in Offsets(gaps) <=> o \in (0 .. top - 1) \ (covered \cup start .. end - 1)
      BY <1>2, <1>3, <1>4, <1>7, <3>1, <3>2
    <3>4. Offsets(gaps) \subseteq Nat
      BY <1>4, <3>2
    <3> QED BY <3>1, <3>3, <3>4
  <2> HIDE DEF new
  <2>5. new.gaps = gaps /\ new.position = end
    BY <2>1
  <2>6. Leaves(new, covered \cup start .. end - 1, extent)
    BY <1>2, <1>4, <2>2, <2>3, <2>4, <2>5 DEF Leaves
  <2> QED BY <1>2, <2>5, <2>6 DEF new
<1> QED BY <1>6, <1>7

\* The loop of complement.
LEMMA ComplementRuns ==
    ASSUME NEW list \in Seq(Ranges), NEW extent \in Nat
    PROVE  \E run : /\ run[0] = AtStart /\ run[Len(list)] = FoldLeft(LAMBDA state, r : Passed(state, r, extent), AtStart, list)
                    /\ \A k \in 1 .. Len(list) : run[k] = Passed(run[k - 1], list[k], extent)
<1> DEFINE n == Len(list)
           V == Passing
           step == [p \in (1 .. n) \X V |-> Passed(p[2], list[p[1]], extent)]
           Solves(iter) == iter = [U \in SUBSET DOMAIN list |->
                              IF U = {} THEN AtStart ELSE Passed(iter[U \ {Max(U)}], list[Max(U)], extent)]
<1>1. n \in Nat /\ DOMAIN list = 1 .. n /\ AtStart \in V /\ \A i \in 1 .. n : list[i] \in Ranges
  BY DEF Passing, AtStart
<1>2. \A i \in 1 .. n, st \in V : Passed(st, list[i], extent) \in V
  BY <1>1, PassedType
<1>3. /\ step \in [(1 .. n) \X V -> V]
      /\ \A i \in 1 .. n, st \in V : step[i, st] = Passed(st, list[i], extent)
  BY <1>2
<1>4. /\ \A U \in SUBSET (1 .. n) : U # {} => Max(U) \in U
      /\ \A k \in 1 .. n : Max(1 .. k) = k /\ (1 .. k) \ {k} = 1 .. k - 1
      /\ \A k \in 1 .. n : 1 .. k \in SUBSET (1 .. n) /\ 1 .. k # {} /\ k \in 0 .. n /\ k - 1 \in 0 .. n
  BY <1>1, LastPosition
<1>5. \E iter : Solves(iter)
  <2> HIDE DEF step, V, n
  <2>1. PICK iter : FoldsList(iter, n, V, AtStart, step)
    BY <1>1, <1>3, LoopExists
  <2>2. ASSUME NEW U \in SUBSET (1 .. n), U # {}
        PROVE  step[Max(U), iter[U \ {Max(U)}]] = Passed(iter[U \ {Max(U)}], list[Max(U)], extent)
    <3>1. Max(U) \in 1 .. n /\ iter[U \ {Max(U)}] \in V
      BY <1>4, <2>1, <2>2 DEF FoldsList
    <3> QED BY <1>3, <3>1
  <2>3. iter = [U \in SUBSET (1 .. n) |->
                  IF U = {} THEN AtStart ELSE Passed(iter[U \ {Max(U)}], list[Max(U)], extent)]
    BY <2>1, <2>2 DEF FoldsList
  <2> QED BY <1>1, <2>3
<1> DEFINE iter == CHOOSE iter : Solves(iter)
<1>6. Solves(iter)
  BY <1>5
<1>7. FoldLeft(LAMBDA state, r : Passed(state, r, extent), AtStart, list) = iter[DOMAIN list]
  BY DEF FoldLeft, MapThenFoldSet
<1> HIDE DEF iter
<1>8. \A U \in SUBSET (1 .. n) :
        iter[U] = IF U = {} THEN AtStart ELSE Passed(iter[U \ {Max(U)}], list[Max(U)], extent)
  BY <1>1, <1>6
<1> HIDE DEF n
<1> DEFINE run == [k \in 0 .. n |-> iter[1 .. k]]
<1>9. ASSUME NEW k \in 1 .. n
      PROVE  run[k] = Passed(run[k - 1], list[k], extent)
  <2>1. 1 .. k \in SUBSET (1 .. n) /\ 1 .. k # {} /\ k \in 0 .. n /\ k - 1 \in 0 .. n
    BY <1>4, Zenon
  <2>2. iter[1 .. k] = Passed(iter[1 .. k - 1], list[k], extent)
    BY <1>4, <1>8, <2>1
  <2> QED BY <2>1, <2>2
<1>10. run[0] = AtStart /\ run[n] = FoldLeft(LAMBDA state, r : Passed(state, r, extent), AtStart, list)
  <2>1. 1 .. 0 = {} /\ {} \in SUBSET (1 .. n) /\ 0 \in 0 .. n /\ n \in 0 .. n
    <3>1. n \in Nat
      BY <1>1
    <3> QED BY ONLY <3>1
  <2> QED BY <1>1, <1>7, <1>8, <2>1
<1> QED BY <1>9, <1>10 DEF n

\* complement, for every coalesced list and every extent: what it returns is
\* coalesced, and stands for exactly the offsets below the extent that the list
\* leaves out (_intervals.py complement).
THEOREM ComplementIsRest ==
    ASSUME NEW intervals \in Seq(Ranges), Coalesced(intervals), NEW extent \in Nat
    PROVE  /\ Complement(intervals, extent) \in Seq(Ranges)
           /\ Coalesced(Complement(intervals, extent))
           /\ Offsets(Complement(intervals, extent)) = (0 .. extent - 1) \ Offsets(intervals)
<1> DEFINE n == Len(intervals)
           Upto(k) == UNION { intervals[i][1] .. intervals[i][2] - 1 : i \in 1 .. k }
<1>1. PICK run : /\ run[0] = AtStart
                 /\ run[n] = FoldLeft(LAMBDA state, r : Passed(state, r, extent), AtStart, intervals)
                 /\ \A k \in 1 .. n : run[k] = Passed(run[k - 1], intervals[k], extent)
  BY ComplementRuns
<1> DEFINE P == { k \in 0 .. n : /\ Leaves(run[k], Upto(k), extent)
                                 /\ run[k].position = IF k = 0 THEN 0 ELSE intervals[k][2] }
<1>2. n \in Nat /\ \A k \in 1 .. n : /\ intervals[k] \in Ranges
                                      /\ intervals[k][1] \in Nat /\ intervals[k][2] \in Nat
  <2>1. n \in Nat /\ \A k \in 1 .. n : intervals[k] \in Ranges
    OBVIOUS
  <2> QED BY <2>1 DEF Ranges
<1>3. 0 \in P
  <2>1. Upto(0) = {}
    OBVIOUS
  <2>2. AtStart.gaps = << >> /\ AtStart.position = 0
    BY DEF AtStart
  <2>3. << >> \in Seq(Ranges) /\ Coalesced(<< >>) /\ Offsets(<< >>) = {} /\ Len(<< >>) = 0
    BY DEF Coalesced, Offsets
  <2>4. 0 .. Smaller(0, extent) - 1 = {}
    BY DEF Smaller
  <2>5. Leaves(AtStart, {}, extent)
    <3>1. PICK gaps \in Seq(Ranges), position \in Nat : gaps = << >> /\ position = 0
      BY <2>3
    <3>2. /\ Coalesced(gaps) /\ Offsets(gaps) = {}
          /\ \A i \in 1 .. Len(gaps) : gaps[i][2] < position
      BY <2>3, <3>1
    <3>3. 0 .. Smaller(position, extent) - 1 = {}
      BY <2>4, <3>1
    <3>4. AtStart.gaps = gaps /\ AtStart.position = position
      BY <2>2, <3>1
    <3> QED BY <3>2, <3>3, <3>4 DEF Leaves
  <2> HIDE DEF Upto
  <2>6. Leaves(run[0], Upto(0), extent) /\ run[0].position = IF 0 = 0 THEN 0 ELSE intervals[0][2]
    BY <1>1, <2>1, <2>2, <2>5, Zenon
  <2>7. 0 \in 0 .. n
    BY <1>2
  <2> QED BY <2>6, <2>7, Zenon
<1>4. ASSUME NEW k \in 1 .. n, k - 1 \in P
      PROVE  k \in P
  <2>1. PICK old : old = run[k - 1]
    OBVIOUS
  <2>2. PICK new : new = run[k]
    OBVIOUS
  <2>3. PICK r \in Ranges : r = intervals[k]
    BY <1>2
  <2>4. /\ Leaves(old, Upto(k - 1), extent) /\ new = Passed(old, r, extent)
        /\ old.position = IF k - 1 = 0 THEN 0 ELSE intervals[k - 1][2]
    BY <1>1, <1>4, <2>1, <2>2, <2>3
  <2>5. old.position <= r[1]
    <3>1. CASE k - 1 = 0
      BY <1>2, <2>3, <2>4, <3>1
    <3>2. CASE k - 1 # 0
      <4>1. k - 1 \in 1 .. k - 1 /\ k - 1 \in 1 .. n
        BY <1>2, <3>2
      <4>2. intervals[k - 1][2] < intervals[k][1]
        BY <1>2, <4>1 DEF Coalesced
      <4> QED BY <1>2, <2>3, <2>4, <3>2, <4>1, <4>2
    <3> QED BY <3>1, <3>2
  <2>6. Upto(k) = Upto(k - 1) \cup r[1] .. r[2] - 1
    <3>1. 1 .. k = (1 .. k - 1) \cup {k}
      BY <1>2
    <3> QED BY <2>3, <3>1
  <2> HIDE DEF Upto
  <2>7. Leaves(new, Upto(k - 1) \cup r[1] .. r[2] - 1, extent) /\ new.position = r[2]
    BY <2>4, <2>5, PassedLeaves
  <2>8. Leaves(run[k], Upto(k), extent) /\ run[k].position = IF k = 0 THEN 0 ELSE intervals[k][2]
    <3>1. k # 0
      BY <1>2
    <3> QED BY <2>2, <2>3, <2>6, <2>7, <3>1
  <2>9. k \in 0 .. n
    BY <1>2
  <2> QED BY <2>8, <2>9, Zenon
<1> HIDE DEF P
<1>5. \A k \in 0 .. n : k \in P
  BY <1>2, <1>3, <1>4, Throughout
<1>6. PICK last : last = run[n]
  OBVIOUS
<1>7. Leaves(last, Offsets(intervals), extent)
  <2>1. n \in P
    BY <1>2, <1>5
  <2>2. Upto(n) = Offsets(intervals)
    BY DEF Offsets
  <2> QED BY <1>6, <2>1, <2>2 DEF P
<1>8. Complement(intervals, extent) = IF last.position < extent
                                     THEN Append(last.gaps, <<last.position, extent>>)
                                     ELSE last.gaps
  BY <1>1, <1>6 DEF Complement, AtStart
<1> HIDE DEF Upto
<1>9. PICK gaps \in Seq(Ranges), position \in Nat : gaps = last.gaps /\ position = last.position
  BY <1>7 DEF Leaves
<1>10. /\ Coalesced(gaps) /\ Offsets(intervals) \subseteq 0 .. position - 1
       /\ \A i \in 1 .. Len(gaps) : gaps[i][2] < position
       /\ Offsets(gaps) = (0 .. Smaller(position, extent) - 1) \ Offsets(intervals)
  BY <1>7, <1>9 DEF Leaves
<1>11. CASE position < extent
  <2>1. PICK more : more = Append(gaps, <<position, extent>>)
    OBVIOUS
  <2>2. Holds(more, gaps, position, extent)
    BY <1>10, <1>11, <2>1, AppendHolds
  <2>3. more \in Seq(Ranges) /\ Coalesced(more) /\ Offsets(more) = Offsets(gaps) \cup position .. extent - 1
    BY <2>2 DEF Holds
  <2>4. Offsets(more) = (0 .. extent - 1) \ Offsets(intervals)
    <3>1. Smaller(position, extent) = position
      BY <1>11 DEF Smaller
    <3>2. Offsets(more) = ((0 .. position - 1) \ Offsets(intervals)) \cup position .. extent - 1
      BY <1>10, <2>3, <3>1
    <3>3. 0 .. extent - 1 = (0 .. position - 1) \cup position .. extent - 1
      BY <1>11
    <3>4. (position .. extent - 1) \cap Offsets(intervals) = {}
      BY <1>10
    <3> QED BY <3>2, <3>3, <3>4
  <2>5. Complement(intervals, extent) = more
    BY <1>8, <1>9, <1>11, <2>1
  <2> QED BY <2>3, <2>4, <2>5, Zenon
<1>12. CASE ~ (position < extent)
  <2>1. Smaller(position, extent) = extent
    BY <1>12 DEF Smaller
  <2>2. Complement(intervals, extent) = gaps
    BY <1>8, <1>9, <1>12
  <2> QED BY <1>10, <2>1, <2>2
<1> QED BY <1>11, <1>12

\* The ranges of a list are in the order of their starts, as sorted() leaves them.
Rising(list) == \A a, b \in 1 .. Len(list) : a <= b => list[a][1] <= list[b][1]

\* So are those of a coalesced list.
LEMMA CoalescedRises ==
    ASSUME NEW list \in Seq(Ranges), Coalesced(list)
    PROVE  Rising(list)
  BY RangesRise DEF Rising

\* The offsets that a range of one list and a range of the other share.
Shared(r, s) == (r[1] .. r[2] - 1) \cap (s[1] .. s[2] - 1)

Sweep == [i : Nat \ {0}, j : Nat \ {0}, found : Seq(Ranges)]

AtFirst == [i |-> 1, j |-> 1, found |-> << >>]

\* What the loop of intersections knows of the pairs it has passed: none of them
\* shares an offset if nothing was found, and what coalesced lists share was found.
Sweeping(state, first, second) ==
    /\ state \in Sweep
    /\ Offsets(state.found) \subseteq Offsets(first) \cap Offsets(second)
    /\ \A a \in 1 .. Len(first), b \in 1 .. Len(second) : a < state.i \/ b < state.j =>
          /\ Shared(first[a], second[b]) # {} => state.found # << >>
          /\ Coalesced(first) /\ Coalesced(second) =>
                Shared(first[a], second[b]) \subseteq Offsets(state.found)

\* A turn of it.
LEMMA SweptType ==
    ASSUME NEW first \in Seq(Ranges), NEW second \in Seq(Ranges), NEW st \in Sweep
    PROVE  Swept(st, first, second) \in Sweep
<1>1. PICK i, j, found : /\ i \in Nat \ {0} /\ j \in Nat \ {0} /\ found \in Seq(Ranges)
                         /\ i = st.i /\ j = st.j /\ found = st.found
  BY DEF Sweep
<1>2. CASE i > Len(first) \/ j > Len(second)
  BY <1>1, <1>2 DEF Swept
<1>3. CASE i <= Len(first) /\ j <= Len(second)
  <2>1. i \in 1 .. Len(first) /\ j \in 1 .. Len(second)
    BY <1>1, <1>3
  <2>2. PICK p \in Nat, q \in Nat : p = first[i][1] /\ q = first[i][2] /\ p < q
    BY <2>1, RangeOf
  <2>3. PICK c \in Nat, d \in Nat : c = second[j][1] /\ d = second[j][2] /\ c < d
    BY <2>1, RangeOf
  <2>4. Larger(p, c) < Smaller(q, d) => <<Larger(p, c), Smaller(q, d)>> \in Ranges
    BY DEF Larger, Smaller, Ranges
  <2>5. PICK x, y : x = Larger(p, c) /\ y = Smaller(q, d)
    OBVIOUS
  <2>6. (IF x < y THEN Append(found, <<x, y>>) ELSE found) \in Seq(Ranges)
    BY <1>1, <2>4, <2>5
  <2>7. Swept(st, first, second) =
          [i     |-> IF q <= d THEN i + 1 ELSE i,
           j     |-> IF q <= d THEN j ELSE j + 1,
           found |-> IF x < y THEN Append(found, <<x, y>>) ELSE found]
    <3>1. ~ (i > Len(first) \/ j > Len(second))
      BY <2>1
    <3>2. <<x, y>>[1] = x /\ <<x, y>>[2] = y
      OBVIOUS
    <3> QED BY <1>1, <2>2, <2>3, <2>5, <3>1, <3>2 DEF Swept
  <2> QED BY <1>1, <2>6, <2>7 DEF Sweep
<1> QED BY <1>1, <1>2, <1>3

\* A range that ends within the j-th of a list has, of the ranges behind that, at most
\* what it shares with the j-th itself, and nothing where the list is coalesced.
LEMMA PassedShares ==
    ASSUME NEW list \in Seq(Ranges), Rising(list), NEW r \in Ranges,
           NEW j \in 1 .. Len(list), NEW b \in 1 .. Len(list), j < b, r[2] <= list[j][2]
    PROVE  /\ Shared(r, list[b]) \subseteq Shared(r, list[j])
           /\ Coalesced(list) => Shared(r, list[b]) = {}
<1>1. PICK p \in Nat, q \in Nat : p = r[1] /\ q = r[2]
  BY DEF Ranges
<1>2. PICK c \in Nat, d \in Nat : c = list[j][1] /\ d = list[j][2]
  BY RangeOf
<1>3. PICK e \in Nat, f \in Nat : e = list[b][1] /\ f = list[b][2]
  BY RangeOf
<1>4. c <= e /\ q <= d
  <2>1. list[j][1] <= list[b][1]
    <3>1. j \in 1 .. Len(list) /\ b \in 1 .. Len(list) /\ j <= b
      OBVIOUS
    <3> QED BY <3>1, Zenon DEF Rising
  <2> QED BY <1>1, <1>2, <1>3, <2>1
<1>5. Coalesced(list) => d < e
  <2>1. b \in 1 .. Len(list) /\ j \in 1 .. b - 1
    OBVIOUS
  <2> QED BY <1>2, <1>3, <2>1 DEF Coalesced
<1>6. /\ Shared(r, list[b]) = (p .. q - 1) \cap (e .. f - 1)
      /\ Shared(r, list[j]) = (p .. q - 1) \cap (c .. d - 1)
  BY <1>1, <1>2, <1>3 DEF Shared
<1> QED BY <1>4, <1>5, <1>6

\* A turn, as long as neither list is through: another pair has been passed.
LEMMA SweptKeeps ==
    ASSUME NEW first \in Seq(Ranges), NEW second \in Seq(Ranges), Rising(first), Rising(second),
           NEW st, Sweeping(st, first, second), st.i <= Len(first), st.j <= Len(second)
    PROVE  /\ Sweeping(Swept(st, first, second), first, second)
           /\ Swept(st, first, second).i + Swept(st, first, second).j = st.i + st.j + 1
<1>1. PICK i, j, found : /\ i \in Nat \ {0} /\ j \in Nat \ {0} /\ found \in Seq(Ranges)
                         /\ i = st.i /\ j = st.j /\ found = st.found
  BY DEF Sweeping, Sweep
<1>2. i \in 1 .. Len(first) /\ j \in 1 .. Len(second)
  BY <1>1
<1>3. PICK new : new = Swept(st, first, second)
  OBVIOUS
<1>4. PICK p \in Nat, q \in Nat : p = first[i][1] /\ q = first[i][2] /\ p < q
  BY <1>2, RangeOf
<1>5. PICK c \in Nat, d \in Nat : c = second[j][1] /\ d = second[j][2] /\ c < d
  BY <1>2, RangeOf
<1>6. PICK x, y : x = Larger(p, c) /\ y = Smaller(q, d)
  OBVIOUS
<1>7. /\ new.i = IF q <= d THEN i + 1 ELSE i
      /\ new.j = IF q <= d THEN j ELSE j + 1
      /\ new.found = IF x < y THEN Append(found, <<x, y>>) ELSE found
  <2>1. ~ (i > Len(first) \/ j > Len(second))
    BY <1>2
  <2>2. <<x, y>>[1] = x /\ <<x, y>>[2] = y
    OBVIOUS
  <2> QED BY <1>1, <1>3, <1>4, <1>5, <1>6, <2>1, <2>2 DEF Swept
<1>8. x \in Nat /\ y \in Nat /\ Shared(first[i], second[j]) = x .. y - 1
  <2>1. Shared(first[i], second[j]) = (p .. q - 1) \cap (c .. d - 1)
    BY <1>4, <1>5 DEF Shared
  <2>2. x \in Nat /\ y \in Nat
    BY <1>6 DEF Larger, Smaller
  <2>3. (p .. q - 1) \cap (c .. d - 1) = x .. y - 1
    BY <1>6 DEF Larger, Smaller
  <2> QED BY <2>1, <2>2, <2>3
<1>9. PICK more \in Seq(Ranges) : /\ more = new.found
                                  /\ Offsets(more) = Offsets(found) \cup Shared(first[i], second[j])
                                  /\ found # << >> => more # << >>
                                  /\ Shared(first[i], second[j]) # {} => more # << >>
  <2>1. CASE x < y
    <3>1. <<x, y>> \in Ranges
      BY <1>8, <2>1 DEF Ranges
    <3>2. PICK longer \in Seq(Ranges) : longer = Append(found, <<x, y>>)
      <4>1. Append(found, <<x, y>>) \in Seq(Ranges)
        BY <1>1, <3>1, AppendProperties
      <4> QED BY <4>1
    <3>3. /\ Len(longer) = Len(found) + 1 /\ Len(found) \in Nat
          /\ longer[Len(found) + 1] = <<x, y>> /\ \A a \in 1 .. Len(found) : longer[a] = found[a]
      BY <1>1, <3>2
    <3>4. 1 .. Len(longer) = (1 .. Len(found)) \cup {Len(found) + 1}
      BY <3>3
    <3>5. Offsets(longer) = Offsets(found) \cup x .. y - 1
      <4>1. /\ longer[Len(found) + 1][1] = x /\ longer[Len(found) + 1][2] = y
            /\ Len(found) + 1 \in 1 .. Len(longer)
        BY <3>3
      <4>2. ASSUME NEW o \in Offsets(longer) PROVE o \in Offsets(found) \cup x .. y - 1
        <5>1. PICK a \in 1 .. Len(longer) : o \in longer[a][1] .. longer[a][2] - 1
          BY DEF Offsets
        <5> QED BY <3>3, <3>4, <4>1, <5>1 DEF Offsets
      <4>3. ASSUME NEW o \in Offsets(found) PROVE o \in Offsets(longer)
        <5>1. PICK a \in 1 .. Len(found) : o \in found[a][1] .. found[a][2] - 1
          BY DEF Offsets
        <5> QED BY <3>3, <3>4, <5>1 DEF Offsets
      <4>4. ASSUME NEW o \in x .. y - 1 PROVE o \in Offsets(longer)
        BY <4>1 DEF Offsets
      <4> QED BY <4>2, <4>3, <4>4
    <3>6. longer # << >>
      BY <3>3
    <3> QED BY <1>7, <1>8, <2>1, <3>2, <3>5, <3>6
  <2>2. CASE ~ (x < y)
    <3>1. x .. y - 1 = {}
      BY <1>8, <2>2
    <3> QED BY <1>1, <1>7, <1>8, <2>2, <3>1
  <2> QED BY <2>1, <2>2
<1>10. Shared(first[i], second[j]) \subseteq Offsets(first) \cap Offsets(second)
  BY <1>2 DEF Shared, Offsets
<1>11. new \in Sweep
  <2>1. st \in Sweep
    BY DEF Sweeping
  <2> QED BY <1>3, <2>1, SweptType
<1>12. Offsets(new.found) \subseteq Offsets(first) \cap Offsets(second)
  BY <1>1, <1>9, <1>10 DEF Sweeping
<1>13. ASSUME NEW a \in 1 .. Len(first), NEW b \in 1 .. Len(second), a < new.i \/ b < new.j
       PROVE  /\ Shared(first[a], second[b]) # {} => more # << >>
              /\ Coalesced(first) /\ Coalesced(second) => Shared(first[a], second[b]) \subseteq Offsets(more)
  <2>1. CASE a < i \/ b < j
    BY <1>1, <1>9, <2>1 DEF Sweeping
  <2>2. CASE a = i /\ b = j
    BY <1>9, <2>2
  <2>3. CASE q <= d /\ a = i /\ j < b
    <3>1. first[i] \in Ranges /\ first[i][2] <= second[j][2]
      BY <1>2, <1>4, <1>5, <2>3, RangeOf
    <3>2. /\ Shared(first[i], second[b]) \subseteq Shared(first[i], second[j])
          /\ Coalesced(second) => Shared(first[i], second[b]) = {}
      BY <1>2, <2>3, <3>1, PassedShares
    <3> QED BY <1>9, <2>3, <3>2
  <2>4. CASE ~ (q <= d) /\ b = j /\ i < a
    <3>1. second[j] \in Ranges /\ second[j][2] <= first[i][2]
      BY <1>2, <1>4, <1>5, <2>4, RangeOf
    <3>2. /\ Shared(second[j], first[a]) \subseteq Shared(second[j], first[i])
          /\ Coalesced(first) => Shared(second[j], first[a]) = {}
      BY <1>2, <2>4, <3>1, PassedShares
    <3>3. /\ Shared(second[j], first[a]) = Shared(first[a], second[j])
          /\ Shared(second[j], first[i]) = Shared(first[i], second[j])
      BY DEF Shared
    <3> QED BY <1>9, <2>4, <3>2, <3>3
  <2>5. \/ a < i \/ b < j
        \/ a = i /\ b = j
        \/ q <= d /\ a = i /\ j < b
        \/ ~ (q <= d) /\ b = j /\ i < a
    BY <1>2, <1>7, <1>13
  <2> QED BY <2>1, <2>2, <2>3, <2>4, <2>5
<1>14. new.i + new.j = i + j + 1
  BY <1>1, <1>7
<1> QED BY <1>1, <1>3, <1>9, <1>11, <1>12, <1>13, <1>14 DEF Sweeping

\* The loop of intersections.
LEMMA SweepRuns ==
    ASSUME NEW first \in Seq(Ranges), NEW second \in Seq(Ranges), NEW turns \in Seq(Ranges)
    PROVE  \E run : /\ run[0] = AtFirst
                    /\ run[Len(turns)] =
                         FoldLeft(LAMBDA state, passed : Swept(state, first, second), AtFirst, turns)
                    /\ \A k \in 1 .. Len(turns) : run[k] = Swept(run[k - 1], first, second)
<1> DEFINE n == Len(turns)
           V == Sweep
           step == [p \in (1 .. n) \X V |-> Swept(p[2], first, second)]
           Solves(iter) == iter = [U \in SUBSET DOMAIN turns |->
                              IF U = {} THEN AtFirst ELSE Swept(iter[U \ {Max(U)}], first, second)]
<1>1. n \in Nat /\ DOMAIN turns = 1 .. n /\ AtFirst \in V
  BY DEF Sweep, AtFirst
<1>2. \A st \in V : Swept(st, first, second) \in V
  BY SweptType
<1>3. /\ step \in [(1 .. n) \X V -> V]
      /\ \A i \in 1 .. n, st \in V : step[i, st] = Swept(st, first, second)
  BY <1>2
<1>4. /\ \A U \in SUBSET (1 .. n) : U # {} => Max(U) \in U
      /\ \A k \in 1 .. n : Max(1 .. k) = k /\ (1 .. k) \ {k} = 1 .. k - 1
      /\ \A k \in 1 .. n : 1 .. k \in SUBSET (1 .. n) /\ 1 .. k # {} /\ k \in 0 .. n /\ k - 1 \in 0 .. n
  BY <1>1, LastPosition
<1>5. \E iter : Solves(iter)
  <2> HIDE DEF step, V, n
  <2>1. PICK iter : FoldsList(iter, n, V, AtFirst, step)
    BY <1>1, <1>3, LoopExists
  <2>2. ASSUME NEW U \in SUBSET (1 .. n), U # {}
        PROVE  step[Max(U), iter[U \ {Max(U)}]] = Swept(iter[U \ {Max(U)}], first, second)
    <3>1. Max(U) \in 1 .. n /\ iter[U \ {Max(U)}] \in V
      BY <1>4, <2>1, <2>2 DEF FoldsList
    <3> QED BY <1>3, <3>1
  <2>3. iter = [U \in SUBSET (1 .. n) |->
                  IF U = {} THEN AtFirst ELSE Swept(iter[U \ {Max(U)}], first, second)]
    BY <2>1, <2>2 DEF FoldsList
  <2> QED BY <1>1, <2>3
<1> DEFINE iter == CHOOSE iter : Solves(iter)
<1>6. Solves(iter)
  BY <1>5
<1>7. FoldLeft(LAMBDA state, passed : Swept(state, first, second), AtFirst, turns) = iter[DOMAIN turns]
  BY DEF FoldLeft, MapThenFoldSet
<1> HIDE DEF iter
<1>8. \A U \in SUBSET (1 .. n) :
        iter[U] = IF U = {} THEN AtFirst ELSE Swept(iter[U \ {Max(U)}], first, second)
  BY <1>1, <1>6
<1> HIDE DEF n
<1> DEFINE run == [k \in 0 .. n |-> iter[1 .. k]]
<1>9. ASSUME NEW k \in 1 .. n
      PROVE  run[k] = Swept(run[k - 1], first, second)
  <2>1. 1 .. k \in SUBSET (1 .. n) /\ 1 .. k # {} /\ k \in 0 .. n /\ k - 1 \in 0 .. n
    BY <1>4, Zenon
  <2>2. iter[1 .. k] = Swept(iter[1 .. k - 1], first, second)
    BY <1>4, <1>8, <2>1
  <2> QED BY <2>1, <2>2
<1>10. /\ run[0] = AtFirst
       /\ run[n] = FoldLeft(LAMBDA state, passed : Swept(state, first, second), AtFirst, turns)
  <2>1. 1 .. 0 = {} /\ {} \in SUBSET (1 .. n) /\ 0 \in 0 .. n /\ n \in 0 .. n
    <3>1. n \in Nat
      BY <1>1
    <3> QED BY ONLY <3>1
  <2> QED BY <1>1, <1>7, <1>8, <2>1
<1> QED BY <1>9, <1>10 DEF n

\* intersections, for all lists sorted by their starts, as check_coverage passes them
\* with overlaps among their own ranges: the sweep, which passes one range a turn and
\* never looks back, names only offsets of both and comes out empty exactly when there
\* are none; and of coalesced lists, as the ledger keeps them, it names every one
\* (_intervals.py intersections).
THEOREM IntersectionsMeet ==
    ASSUME NEW first \in Seq(Ranges), NEW second \in Seq(Ranges), Rising(first), Rising(second)
    PROVE  LET both == Offsets(first) \cap Offsets(second)
           IN  /\ Intersections(first, second) \in Seq(Ranges)
               /\ Offsets(Intersections(first, second)) \subseteq both
               /\ Intersections(first, second) = << >> <=> both = {}
               /\ Coalesced(first) /\ Coalesced(second) => Offsets(Intersections(first, second)) = both
<1> DEFINE both == Offsets(first) \cap Offsets(second)
<1>1. PICK turns \in Seq(Ranges) : turns = first \o second
  <2>1. first \o second \in Seq(Ranges)
    BY ConcatProperties
  <2> QED BY <2>1
<1>2. PICK n \in Nat, m \in Nat, l \in Nat : n = Len(turns) /\ m = Len(first) /\ l = Len(second) /\ n = m + l
  BY <1>1
<1>3. PICK run : /\ run[0] = AtFirst
                 /\ run[n] = FoldLeft(LAMBDA state, passed : Swept(state, first, second), AtFirst, turns)
                 /\ \A k \in 1 .. n : run[k] = Swept(run[k - 1], first, second)
  <2>1. \E run : /\ run[0] = AtFirst
                 /\ run[Len(turns)] =
                      FoldLeft(LAMBDA state, passed : Swept(state, first, second), AtFirst, turns)
                 /\ \A k \in 1 .. Len(turns) : run[k] = Swept(run[k - 1], first, second)
    BY SweepRuns
  <2> QED BY <1>2, <2>1
<1>4. Intersections(first, second) = run[n].found
  BY <1>1, <1>3 DEF Intersections, AtFirst
<1> DEFINE Through(state) == state.i > m \/ state.j > l
           P == { k \in 0 .. n : /\ Sweeping(run[k], first, second)
                                 /\ Through(run[k]) \/ run[k].i + run[k].j = k + 2 }
<1>5. 0 \in P
  <2>1. AtFirst.i = 1 /\ AtFirst.j = 1 /\ AtFirst.found = << >> /\ AtFirst \in Sweep
    BY DEF AtFirst, Sweep
  <2>2. Offsets(<< >>) = {}
    BY DEF Offsets
  <2>3. \A a \in 1 .. Len(first), b \in 1 .. Len(second) : ~ (a < 1 \/ b < 1)
    OBVIOUS
  <2>4. Sweeping(AtFirst, first, second)
    BY <2>1, <2>2, <2>3 DEF Sweeping
  <2>5. 0 \in 0 .. n
    BY <1>2
  <2>6. AtFirst.i + AtFirst.j = 0 + 2
    BY <2>1
  <2> QED BY <1>3, <2>4, <2>5, <2>6
<1>6. ASSUME NEW k \in 1 .. n, k - 1 \in P
      PROVE  k \in P
  <2>1. PICK old : old = run[k - 1]
    OBVIOUS
  <2>2. PICK new : new = run[k]
    OBVIOUS
  <2>3. new = Swept(old, first, second) /\ Sweeping(old, first, second)
    BY <1>3, <1>6, <2>1, <2>2
  <2>4. k \in 0 .. n
    BY <1>2
  <2>5. PICK i \in Nat \ {0}, j \in Nat \ {0} : i = old.i /\ j = old.j
    BY <2>3 DEF Sweeping, Sweep
  <2>6. CASE i > m \/ j > l
    <3>1. new = old
      BY <1>2, <2>3, <2>5, <2>6 DEF Swept
    <3> QED BY <2>2, <2>3, <2>4, <2>5, <2>6, <3>1
  <2>7. CASE ~ (i > m \/ j > l)
    <3>1. old.i <= Len(first) /\ old.j <= Len(second)
      BY <1>2, <2>5, <2>7
    <3>2. Sweeping(new, first, second) /\ new.i + new.j = old.i + old.j + 1
      BY <2>3, <3>1, SweptKeeps
    <3>3. i + j = (k - 1) + 2
      BY <1>6, <2>1, <2>5, <2>7
    <3>4. new.i + new.j = k + 2
      BY <1>2, <2>5, <3>2, <3>3
    <3> QED BY <2>2, <2>4, <3>2, <3>4
  <2> QED BY <2>6, <2>7
<1> HIDE DEF P
<1>7. \A k \in 0 .. n : k \in P
  BY <1>2, <1>5, <1>6, Throughout
<1>8. PICK last : last = run[n]
  OBVIOUS
<1>9. Sweeping(last, first, second) /\ (Through(last) \/ last.i + last.j = n + 2)
  <2>1. n \in P
    BY <1>2, <1>7
  <2> QED BY <1>8, <2>1 DEF P
<1>10. PICK found \in Seq(Ranges) : found = last.found
  BY <1>9 DEF Sweeping, Sweep
<1>11. \A a \in 1 .. Len(first), b \in 1 .. Len(second) :
         /\ Shared(first[a], second[b]) # {} => found # << >>
         /\ Coalesced(first) /\ Coalesced(second) => Shared(first[a], second[b]) \subseteq Offsets(found)
  <2> SUFFICES ASSUME NEW a \in 1 .. Len(first), NEW b \in 1 .. Len(second)
               PROVE  a < last.i \/ b < last.j
    BY <1>9, <1>10 DEF Sweeping
  <2>1. PICK i \in Nat \ {0}, j \in Nat \ {0} : i = last.i /\ j = last.j
    BY <1>9 DEF Sweeping, Sweep
  <2>2. a \in 1 .. m /\ b \in 1 .. l
    BY <1>2
  <2>3. i > m \/ j > l
    BY <1>2, <1>9, <2>1
  <2> QED BY <2>1, <2>2, <2>3
<1> HIDE DEF Through
<1>12. ASSUME NEW o \in both
       PROVE  \E a \in 1 .. Len(first), b \in 1 .. Len(second) : o \in Shared(first[a], second[b])
  <2>1. PICK a \in 1 .. Len(first) : o \in first[a][1] .. first[a][2] - 1
    BY DEF Offsets
  <2>2. PICK b \in 1 .. Len(second) : o \in second[b][1] .. second[b][2] - 1
    BY DEF Offsets
  <2> QED BY <2>1, <2>2 DEF Shared
<1>13. Offsets(found) \subseteq both
  BY <1>9, <1>10 DEF Sweeping
<1>14. found = << >> <=> both = {}
  <2>1. ASSUME found # << >> PROVE Offsets(found) # {}
    <3>1. 1 \in 1 .. Len(found)
      BY <2>1
    <3>2. PICK p \in Nat, q \in Nat : p = found[1][1] /\ q = found[1][2] /\ p < q
      BY <3>1, RangeOf
    <3>3. p \in p .. q - 1
      BY <3>2
    <3> QED BY <3>1, <3>2, <3>3 DEF Offsets
  <2> HIDE DEF both
  <2>2. both # {} => found # << >>
    BY <1>11, <1>12
  <2> QED BY <1>13, <2>1, <2>2
<1>15. Coalesced(first) /\ Coalesced(second) => Offsets(found) = both
  <2> HIDE DEF both
  <2> QED BY <1>11, <1>12, <1>13
<1>16. Intersections(first, second) = found
  BY <1>4, <1>8, <1>10
<1> QED BY <1>13, <1>14, <1>15, <1>16

-------------------------------------------------------------------------------
(* The checker: the types it keeps, and what a block may change *)

\* A set of offsets that is not empty has a member below, and one above, the others.
LEMMA OffsetEnds ==
    ASSUME NEW T, NEW n \in Nat, T \subseteq 0 .. n, T # {}
    PROVE  (\E x \in T : \A y \in T : x =< y) /\ (\E x \in T : \A y \in T : x >= y)
<1>1. \E x \in T : \A y \in T : x =< y
  <2>1. T \subseteq Nat
    OBVIOUS
  <2> QED BY <2>1, LeastNatural
<1>2. \E x \in T : \A y \in T : x >= y
  <2> DEFINE R == { n - y : y \in T }
  <2>1. R \subseteq Nat /\ R # {}
    <3>1. PICK y \in T : TRUE
      OBVIOUS
    <3>2. n - y \in R
      BY <3>1
    <3>3. \A z \in T : n - z \in Nat
      OBVIOUS
    <3> QED BY <3>2, <3>3
  <2>2. PICK z \in R : \A y \in R : z <= y
    BY <2>1, LeastNatural
  <2>3. PICK x \in T : z = n - x
    BY <2>2
  <2>4. \A y \in T : x >= y
    <3> SUFFICES ASSUME NEW y \in T PROVE x >= y
      OBVIOUS
    <3>1. n - y \in R
      OBVIOUS
    <3>2. z <= n - y
      BY <2>2, <3>1
    <3>3. x \in Nat /\ y \in Nat
      OBVIOUS
    <3> HIDE DEF R
    <3> QED BY <2>3, <3>2, <3>3
  <2> QED BY <2>4
<1> QED BY <1>1, <1>2

\* They are its minimum and its maximum.
LEMMA OffsetBounds ==
    ASSUME NEW T, NEW n \in Nat, T \subseteq 0 .. n, T # {}
    PROVE  Min(T) \in T /\ Max(T) \in T
<1>1. (\E x \in T : \A y \in T : x =< y) /\ (\E x \in T : \A y \in T : x >= y)
  BY OffsetEnds
<1>2. Min(T) \in T
  BY <1>1, Zenon DEF Min
<1>3. Max(T) \in T
  BY <1>1, Zenon DEF Max
<1> QED BY <1>2, <1>3

LEMMA OffsetMost ==
    ASSUME NEW T, NEW n \in Nat, T \subseteq 0 .. n, T # {}
    PROVE  Max(T) \in T /\ \A y \in T : Max(T) >= y
<1>1. \E x \in T : \A y \in T : x >= y
  BY OffsetEnds
<1> QED BY <1>1, Zenon DEF Max

-------------------------------------------------------------------------------
(* The fields of a block *)

LEMMA RecordBlock ==
    ASSUME NEW b \in BlockType, b.kind = "record"
    PROVE  /\ b.sid \in Sids /\ b.pid \in Pids /\ b.source \in SourceIds
           /\ b.decoder \in DecoderIds \cup {None} /\ b.seq \in SeqNum \cup {None}
           /\ b.payload \in Nat /\ b.spans \in SUBSET SpanType
           /\ b.label \in BOOLEAN /\ b.badLabel \in BOOLEAN /\ b.copy \in BOOLEAN
  BY DEF BlockType

LEMMA DescriptorBlock ==
    ASSUME NEW b \in BlockType
    PROVE  /\ b.kind = "header" => b.derived \in BOOLEAN /\ b.digest \in BOOLEAN
           /\ b.kind = "source" => b.id \in SourceIds /\ b.source \in {"capture", "zpf", "unknown"}
           /\ b.kind = "decoder" => b.id \in DecoderIds /\ b.layer \in {"transport", "decoded", "undefined"}
           /\ b.kind = "session" => b.sid \in Sids
           /\ b.kind = "participant" =>
                 /\ b.sid \in Sids /\ b.pid \in Pids /\ b.isn \in SeqNum \cup {None}
                 /\ b.adjacency \in {"contiguous", "units", "undefined"}
  BY DEF BlockType

LEMMA OtherBlock ==
    ASSUME NEW b \in BlockType
    PROVE  /\ b.kind \in {"discontinuity", "name"} => b.sid \in Sids /\ b.pid \in Pids
           /\ b.kind = "undecoded" =>
                 /\ b.source \in SourceIds /\ b.input \in Inputs
                 /\ b.start \in 0 .. MaxOffset /\ b.end \in 0 .. MaxOffset
                 /\ b.decoder \in DecoderIds \cup {None}
           /\ b.kind = "sessionEnd" => b.sid \in Sids /\ b.extents \in Seq(ExtentType)
           /\ b.kind \in {"header", "source", "decoder", "session", "participant", "record",
                          "discontinuity", "name", "undecoded", "sessionEnd", "custom", "end"}
  BY DEF BlockType

-------------------------------------------------------------------------------
(* The types a block keeps *)

\* Ranges a record or an Undecoded block names are of offsets.
LEMMA SpanIsOffsets ==
    ASSUME NEW start \in Nat, NEW end \in Nat
    PROVE  Span(start, end) \subseteq Nat
  BY DEF Span

\* A stream as its participant declares it.
LEMMA NewStreamType ==
    ASSUME NEW isn \in SeqNum \cup {None}, NEW adjacency \in {"contiguous", "units"}
    PROVE  NewStream(isn, adjacency) \in StreamType
<1>1. PICK anchor \in SeqNum \cup {None} : anchor = IF isn = None THEN None ELSE (isn + 1) % SeqSpace
  <2>1. CASE isn = None
    BY <2>1
  <2>2. CASE isn # None
    BY <2>2, SeqSpaceAssumption DEF SeqNum
  <2> QED BY <2>1, <2>2
<1> QED BY <1>1 DEF NewStream, StreamType

\* Placing a record and noting its adjacency change a stream in their fields alone.
LEMMA AnchoredType ==
    ASSUME NEW c, NEW stream \in StreamType, NEW b, b.seq \in SeqNum \cup {None}
    PROVE  /\ Anchored(stream, b) \in StreamType
           /\ Reported(c, stream, b) \in StreamType
<1>1. Placeable(stream, b) => b.seq \in SeqNum
  BY DEF Placeable
<1> QED BY <1>1 DEF Anchored, Reported, StreamType

\* The regions of input a record cites, and how far, are offsets.
LEMMA TrackedType ==
    ASSUME NEW stream \in StreamType, NEW b, b.spans \in SUBSET SpanType
    PROVE  Tracked(stream, b) \in StreamType
<1> DEFINE SpansAt(k) == { x \in b.spans : <<x.source, x.input>> = k }
           Ends(k)    == { s.end : s \in SpansAt(k) }
           Starts(k)  == { s.start : s \in SpansAt(k) }
<1>1. MaxOffset \in Nat
  BY IdsAssumption
<1>2. \A x \in b.spans : /\ <<x.source, x.input>> \in Keys
                         /\ x.start \in 0 .. MaxOffset /\ x.end \in 0 .. MaxOffset
  BY DEF SpanType, Keys
<1>3. \A k \in Keys : Reach(b, k) \in Nat \cup {None}
  <2> SUFFICES ASSUME NEW k \in Keys PROVE Reach(b, k) \in Nat \cup {None}
    OBVIOUS
  <2>1. Ends(k) \subseteq 0 .. MaxOffset
    BY <1>2
  <2>2. Reach(b, k) = IF Ends(k) = {} THEN None ELSE Max(Ends(k))
    BY DEF Reach
  <2> HIDE DEF Ends
  <2>3. CASE Ends(k) = {}
    BY <2>2, <2>3
  <2>4. CASE Ends(k) # {}
    <3>1. Max(Ends(k)) \in Ends(k)
      BY <1>1, <2>1, <2>4, OffsetBounds
    <3> QED BY <2>1, <2>2, <2>4, <3>1
  <2> QED BY <2>3, <2>4
<1>4. \A r \in Candidates(stream, b) : r.start # None => r \in RegionType
  <2> SUFFICES ASSUME NEW r \in Candidates(stream, b), r.start # None
               PROVE  r \in RegionType
    OBVIOUS
  <2>1. PICK s \in b.spans : r = [key |-> <<s.source, s.input>>, start |-> stream.reach[<<s.source, s.input>>],
                                  end |-> Min(Starts(<<s.source, s.input>>))]
    BY DEF Candidates
  <2>2. PICK k \in Keys : k = <<s.source, s.input>>
    BY <1>2
  <2>3. Starts(k) \subseteq 0 .. MaxOffset /\ Starts(k) # {}
    BY <1>2, <2>2
  <2>4. r = [key |-> k, start |-> stream.reach[k], end |-> Min(Starts(k))]
    BY <2>1, <2>2
  <2> HIDE DEF Starts
  <2>5. Min(Starts(k)) \in Nat
    BY <1>1, <2>3, OffsetBounds
  <2>6. stream.reach[k] \in Nat \cup {None}
    BY DEF StreamType
  <2> QED BY <2>4, <2>5, <2>6 DEF RegionType
<1>5. PICK seams \in SUBSET RegionType :
         seams = stream.candidates \cup { r \in Candidates(stream, b) :
                     ~ stream.brokeSince /\ r.start # None /\ r.start < r.end }
  BY <1>4 DEF StreamType
<1>6. PICK reach \in [Keys -> Nat \cup {None}] : reach = [k \in Keys |-> Reach(b, k)]
  BY <1>3
<1>7. Tracked(stream, b) = [stream EXCEPT !.candidates = seams, !.reach = reach, !.brokeSince = FALSE]
  BY <1>5, <1>6 DEF Tracked
<1> QED BY <1>7 DEF StreamType

\* A stream after a record is a stream.
LEMMA StreamAfterType ==
    ASSUME NEW c \in CheckerType, NEW b \in BlockType, b.kind = "record",
           Declared(c, b), ~ UnknownDecoder(c, b)
    PROVE  StreamAfter(c, b) \in StreamType
<1>1. /\ b.sid \in Sids /\ b.pid \in Pids /\ b.seq \in SeqNum \cup {None}
      /\ b.payload \in Nat /\ b.spans \in SUBSET SpanType /\ b.decoder \in DecoderIds \cup {None}
  BY RecordBlock
<1>2. c.streams[b.sid, b.pid] \in StreamType
  BY <1>1 DEF CheckerType, Declared
<1>3. PICK stream \in StreamType :
         stream = Tracked(Reported(c, Anchored(c.streams[b.sid, b.pid], b), b), b)
  BY <1>1, <1>2, AnchoredType, TrackedType
<1>4. PICK layer \in {"transport", "decoded", "undefined"} : layer = LayerOf(c, b)
  BY <1>1 DEF LayerOf, UnknownDecoder, CheckerType
<1>5. PICK lastSeq \in SeqNum \cup {None} : lastSeq = IF b.seq = None THEN stream.lastSeq ELSE b.seq
  BY <1>1 DEF StreamType
<1>6. PICK anchored \in BOOLEAN : anchored = (stream.anchored \/ b.seq # None)
  OBVIOUS
<1>7. PICK copied \in BOOLEAN : copied = (stream.copied \/ IsCopy(c, b))
  OBVIOUS
<1>8. PICK layers \in SUBSET {"transport", "decoded", "undefined"} : layers = stream.layers \cup {layer}
  BY DEF StreamType
<1>9. PICK layered \in StreamType : layered = [stream EXCEPT !.layers = layers]
  BY DEF StreamType
<1>10. PICK payload \in Nat : payload = b.payload
  BY <1>1
<1>11. StreamAfter(c, b) = [layered EXCEPT !.lastSeq = lastSeq, !.anchored = anchored,
                                          !.copied = copied, !.payload = payload]
  <2>1. /\ layered.lastSeq = stream.lastSeq /\ layered.anchored = stream.anchored
        /\ layered.copied = stream.copied
    BY <1>9 DEF StreamType
  <2> QED BY <1>3, <1>4, <1>5, <1>6, <1>7, <1>8, <1>9, <1>10, <2>1 DEF StreamAfter
<1> QED BY <1>11 DEF StreamType

\* What a record cites of input stream k.
CitedBy(b, k) == UNION { Span(s.start, s.end) : s \in { x \in b.spans : <<x.source, x.input>> = k } }

\* The block marks input stream k, as c knows its source.
Marks(c, b, k) ==
    b.kind = "undecoded" /\ c.sources[b.source] # "capture" /\ <<b.source, b.input>> = k

\* The length a Session End declares is one it names, or the one before.
LEMMA DeclaredByType ==
    ASSUME NEW b, b.extents \in Seq(ExtentType), NEW k, NEW before \in Nat \cup {None}
    PROVE  DeclaredBy(b, k, before) \in Nat \cup {None}
<1> DEFINE named == { i \in DOMAIN b.extents : <<b.extents[i].source, b.extents[i].input>> = k }
<1>1. DeclaredBy(b, k, before) = IF named = {} THEN before ELSE b.extents[Max(named)].extent
  BY DEF DeclaredBy
<1>2. Len(b.extents) \in Nat /\ named \subseteq 0 .. Len(b.extents) /\ named \subseteq DOMAIN b.extents
  OBVIOUS
<1> HIDE DEF named
<1>3. CASE named = {}
  BY <1>1, <1>3
<1>4. CASE named # {}
  <2>1. Max(named) \in DOMAIN b.extents
    BY <1>2, <1>4, OffsetBounds
  <2>2. b.extents[Max(named)] \in ExtentType
    BY <2>1
  <2> QED BY <1>1, <1>4, <2>2 DEF ExtentType
<1> QED BY <1>3, <1>4

\* Only the ledgers change when a block counts, by what it cites or marks.
LEMMA Counting ==
    ASSUME NEW c \in CheckerType, NEW b \in BlockType
    PROVE  \E coverage \in [Keys -> LedgerType] :
              /\ Covered(c, b) = [c EXCEPT !.coverage = coverage]
              /\ \A k \in Keys :
                    /\ coverage[k].spans = c.coverage[k].spans \cup
                          (IF b.kind = "record" THEN CitedBy(b, k) ELSE {})
                    /\ coverage[k].undecoded = c.coverage[k].undecoded \cup
                          (IF Marks(c, b, k) THEN Span(b.start, b.end) ELSE {})
<1>1. c.coverage \in [Keys -> LedgerType]
  BY DEF CheckerType
<1>2. CASE b.kind = "record"
  <2> DEFINE coverage == [k \in Keys |-> [c.coverage[k] EXCEPT !.spans = @ \cup CitedBy(b, k)]]
  <2>1. Covered(c, b) = [c EXCEPT !.coverage = coverage]
    BY <1>2 DEF Covered, CitedBy
  <2>2. \A x \in b.spans : x.start \in Nat /\ x.end \in Nat
    BY <1>2, RecordBlock, IdsAssumption DEF SpanType
  <2>3. \A k \in Keys : CitedBy(b, k) \subseteq Nat
    BY <2>2, SpanIsOffsets DEF CitedBy
  <2>4. \A k \in Keys : /\ coverage[k] \in LedgerType
                        /\ coverage[k].spans = c.coverage[k].spans \cup CitedBy(b, k)
                        /\ coverage[k].undecoded = c.coverage[k].undecoded
    BY <1>1, <2>3 DEF LedgerType
  <2>5. coverage \in [Keys -> LedgerType]
    BY <2>4
  <2> HIDE DEF coverage
  <2> QED BY <1>2, <2>1, <2>4, <2>5 DEF Marks
<1>3. CASE b.kind = "undecoded" /\ c.sources[b.source] # "capture"
  <2>1. PICK k \in Keys : k = <<b.source, b.input>>
    BY <1>3, OtherBlock DEF Keys
  <2>2. PICK marked \in SUBSET Nat : marked = Span(b.start, b.end)
    BY <1>3, OtherBlock, IdsAssumption, SpanIsOffsets
  <2> DEFINE coverage == [c.coverage EXCEPT ![k].undecoded = @ \cup marked]
  <2>3. Covered(c, b) = [c EXCEPT !.coverage = coverage]
    BY <1>3, <2>1, <2>2 DEF Covered, CheckerType
  <2>4. \A j \in Keys : /\ coverage[j] \in LedgerType
                        /\ coverage[j].spans = c.coverage[j].spans
                        /\ coverage[j].undecoded = c.coverage[j].undecoded \cup
                              (IF j = k THEN marked ELSE {})
    BY <1>1 DEF LedgerType
  <2>5. coverage \in [Keys -> LedgerType]
    BY <1>1, <2>4
  <2> HIDE DEF coverage
  <2> QED BY <1>3, <2>1, <2>2, <2>3, <2>4, <2>5 DEF Marks
<1>4. CASE b.kind = "sessionEnd"
  <2> DEFINE Length(k) == DeclaredBy(b, k, c.coverage[k].declared[b.sid])
             coverage  == [k \in Keys |-> [c.coverage[k] EXCEPT !.declared[b.sid] = Length(k)]]
  <2>1. Covered(c, b) = [c EXCEPT !.coverage = coverage]
    BY <1>4 DEF Covered
  <2>2. b.sid \in Sids /\ b.extents \in Seq(ExtentType)
    BY <1>4, OtherBlock
  <2>3. \A k \in Keys : c.coverage[k].declared \in [Sids -> Nat \cup {None}]
    BY <1>1 DEF LedgerType
  <2>4. \A k \in Keys : Length(k) \in Nat \cup {None}
    BY <2>2, <2>3, DeclaredByType
  <2> HIDE DEF Length
  <2>5. \A k \in Keys : /\ coverage[k] \in LedgerType
                        /\ coverage[k].spans = c.coverage[k].spans
                        /\ coverage[k].undecoded = c.coverage[k].undecoded
    BY <1>1, <2>2, <2>4 DEF LedgerType
  <2>6. coverage \in [Keys -> LedgerType]
    BY <2>5
  <2> HIDE DEF coverage
  <2> QED BY <1>4, <2>1, <2>5, <2>6 DEF Marks
<1>5. CASE ~ (\/ b.kind \in {"record", "sessionEnd"}
              \/ b.kind = "undecoded" /\ c.sources[b.source] # "capture")
  <2>1. Covered(c, b) = c
    BY <1>5 DEF Covered
  <2>2. c = [c EXCEPT !.coverage = c.coverage]
    BY DEF CheckerType
  <2> QED BY <1>1, <1>5, <2>1, <2>2 DEF Marks
<1> QED BY <1>2, <1>3, <1>4, <1>5

\* Only the regions change by what an Undecoded block marks.
LEMMA WithRegionType ==
    ASSUME NEW c \in CheckerType, NEW b \in BlockType, b.kind = "undecoded"
    PROVE  \E holes \in SUBSET RegionType, removed \in SUBSET RegionType :
              WithRegion(c, b) = [c EXCEPT !.holes = holes, !.removed = removed]
<1> DEFINE region == [key |-> <<b.source, b.input>>, start |-> b.start, end |-> b.end]
<1>1. region \in RegionType
  BY OtherBlock, IdsAssumption DEF RegionType, Keys
<1>2. c.holes \in SUBSET RegionType /\ c.removed \in SUBSET RegionType
  BY DEF CheckerType
<1>3. /\ c = [c EXCEPT !.holes = c.holes, !.removed = c.removed]
      /\ [c EXCEPT !.holes = c.holes \cup {region}]
            = [c EXCEPT !.holes = c.holes \cup {region}, !.removed = c.removed]
      /\ [c EXCEPT !.removed = c.removed \cup {region}]
            = [c EXCEPT !.holes = c.holes, !.removed = c.removed \cup {region}]
  BY DEF CheckerType
<1>4. \/ WithRegion(c, b) = c
      \/ WithRegion(c, b) = [c EXCEPT !.holes = c.holes \cup {region}]
      \/ WithRegion(c, b) = [c EXCEPT !.removed = c.removed \cup {region}]
  <2>1. b.start \in Nat /\ b.end \in Nat
    BY OtherBlock, IdsAssumption
  <2>2. CASE c.sources[b.source] # "zpf" \/ b.start >= b.end
    BY <2>2 DEF WithRegion
  <2>3. CASE c.sources[b.source] = "zpf" /\ b.start < b.end /\ ClassOf(b) = "hole"
    BY <2>1, <2>3 DEF WithRegion
  <2>4. CASE c.sources[b.source] = "zpf" /\ b.start < b.end /\ ClassOf(b) # "hole"
    BY <2>1, <2>4 DEF WithRegion
  <2> QED BY <2>1, <2>2, <2>3, <2>4
<1> HIDE DEF region
<1>5. c.holes \cup {region} \in SUBSET RegionType /\ c.removed \cup {region} \in SUBSET RegionType
  BY <1>1, <1>2
<1> QED BY <1>2, <1>3, <1>4, <1>5

\* A session that closes takes its streams with it, and hands over their seams.
LEMMA ClosedType ==
    ASSUME NEW c \in CheckerType, NEW sid \in Sids
    PROVE  \E breaks \in SUBSET RegionType, streams \in [Sids \X Pids -> StreamType \cup {None}] :
              /\ Closed(c, sid) = [c EXCEPT !.live = c.live \ {sid}, !.ended = c.ended \cup {sid},
                                            !.streams = streams, !.breaks = breaks]
              /\ \A sp \in Sids \X Pids : streams[sp] # None => c.streams[sp] # None
<1>1. \A p \in Pids : CandidatesOf(c.streams[sid, p]) \subseteq RegionType
  <2>1. ASSUME NEW p \in Pids PROVE c.streams[sid, p] \in StreamType \cup {None}
    BY DEF CheckerType
  <2>2. ASSUME NEW stream \in StreamType PROVE CandidatesOf(stream) \subseteq RegionType
    BY DEF CandidatesOf, StreamType
  <2>3. CandidatesOf(None) = {}
    BY Zenon DEF CandidatesOf
  <2> QED BY <2>1, <2>2, <2>3
<1>2. PICK closing \in SUBSET Pids :
         closing = { p \in StreamsOf(c, sid) : \A q \in BadStreams(c, sid) : p < q }
  BY DEF StreamsOf
<1>3. PICK breaks \in SUBSET RegionType :
         breaks = c.breaks \cup UNION { CandidatesOf(c.streams[sid, p]) : p \in closing }
  <2>1. UNION { CandidatesOf(c.streams[sid, p]) : p \in closing } \subseteq RegionType
    BY <1>1
  <2>2. c.breaks \subseteq RegionType
    BY DEF CheckerType
  <2> QED BY <2>1, <2>2
<1>4. PICK streams \in [Sids \X Pids -> StreamType \cup {None}] :
         streams = [sp \in Sids \X Pids |-> IF sp[1] = sid THEN None ELSE c.streams[sp]]
  BY DEF CheckerType
<1>5. Closed(c, sid) = [c EXCEPT !.live = c.live \ {sid}, !.ended = c.ended \cup {sid},
                                 !.streams = streams, !.breaks = breaks]
  BY <1>2, <1>3, <1>4 DEF Closed
<1>6. \A sp \in Sids \X Pids : streams[sp] # None => c.streams[sp] # None
  BY <1>4
<1>7. breaks \in SUBSET RegionType /\ streams \in [Sids \X Pids -> StreamType \cup {None}]
  BY <1>3, <1>4
<1> QED BY <1>5, <1>6, <1>7, Zenon

-------------------------------------------------------------------------------
(* What a block leaves behind *)

\* From c to d, what block b declares is known, what it ends is over, and only a
\* participant's block begins a stream.
Declares(c, b, d) ==
    /\ d.sources = IF b.kind = "source" THEN [c.sources EXCEPT ![b.id] = b.source] ELSE c.sources
    /\ d.decoders = IF b.kind = "decoder" THEN [c.decoders EXCEPT ![b.id] = b.layer] ELSE c.decoders
    /\ d.live = IF b.kind = "session" THEN c.live \cup {b.sid}
                ELSE IF b.kind = "sessionEnd" THEN c.live \ {b.sid} ELSE c.live
    /\ d.ended = IF b.kind = "sessionEnd" THEN c.ended \cup {b.sid} ELSE c.ended
    /\ \A s \in Sids, p \in Pids : d.streams[s, p] # None =>
          \/ c.streams[s, p] # None
          \/ b.kind = "participant" /\ b.sid = s /\ b.pid = p

\* From c to d, coverage grows by what block b cites or marks.
Counts(c, b, d) ==
    \A k \in Keys :
        /\ d.coverage[k].spans = c.coverage[k].spans \cup
              (IF b.kind = "record" THEN CitedBy(b, k) ELSE {})
        /\ d.coverage[k].undecoded = c.coverage[k].undecoded \cup
              (IF Marks(c, b, k) THEN Span(b.start, b.end) ELSE {})

\* A handler that accepts a block leaves the checker of its type.
LEMMA Handling ==
    ASSUME NEW c \in CheckerType, NEW b \in BlockType, ~ Refuses(c, b)
    PROVE  /\ Handled(c, b) \in CheckerType
           /\ Declares(c, b, Handled(c, b))
           /\ Handled(c, b).coverage = c.coverage
<1> SUFFICES ASSUME NEW d, d = Handled(c, b)
             PROVE  d \in CheckerType /\ Declares(c, b, d) /\ d.coverage = c.coverage
  OBVIOUS
<1>1. CASE b.kind = "header"
  <2>1. PICK header \in {"plain", "derived"} : header = IF b.derived THEN "derived" ELSE "plain"
    OBVIOUS
  <2>2. b.digest \in BOOLEAN
    BY <1>1, DescriptorBlock
  <2>3. d = [c EXCEPT !.header = header, !.digest = b.digest]
    BY <1>1, <2>1 DEF Handled
  <2>4. /\ d \in CheckerType /\ d.coverage = c.coverage
        /\ d.sources = c.sources /\ d.decoders = c.decoders
        /\ d.live = c.live /\ d.ended = c.ended /\ d.streams = c.streams
    BY <2>2, <2>3 DEF CheckerType
  <2> QED BY <1>1, <2>4, Zenon DEF Declares
<1>2. CASE b.kind = "source"
  <2>1. PICK sources \in [SourceIds -> {None, "capture", "zpf", "unknown"}] :
           sources = [c.sources EXCEPT ![b.id] = b.source]
    BY <1>2, DescriptorBlock DEF CheckerType
  <2>2. d = [c EXCEPT !.sources = sources]
    BY <1>2, <2>1 DEF Handled
  <2>3. /\ d \in CheckerType /\ d.coverage = c.coverage
        /\ d.sources = sources /\ d.decoders = c.decoders
        /\ d.live = c.live /\ d.ended = c.ended /\ d.streams = c.streams
    BY <2>2 DEF CheckerType
  <2> QED BY <1>2, <2>1, <2>3, Zenon DEF Declares
<1>3. CASE b.kind = "decoder"
  <2>1. PICK decoders \in [DecoderIds -> {None, "transport", "decoded", "undefined"}] :
           decoders = [c.decoders EXCEPT ![b.id] = b.layer]
    BY <1>3, DescriptorBlock DEF CheckerType
  <2>2. d = [c EXCEPT !.decoders = decoders]
    BY <1>3, <2>1 DEF Handled
  <2>3. /\ d \in CheckerType /\ d.coverage = c.coverage
        /\ d.sources = c.sources /\ d.decoders = decoders
        /\ d.live = c.live /\ d.ended = c.ended /\ d.streams = c.streams
    BY <2>2 DEF CheckerType
  <2> QED BY <1>3, <2>1, <2>3, Zenon DEF Declares
<1>4. CASE b.kind = "session"
  <2>1. PICK live \in SUBSET Sids : live = c.live \cup {b.sid}
    <3>1. b.sid \in Sids
      BY <1>4, DescriptorBlock
    <3> QED BY <3>1 DEF CheckerType
  <2>2. d = [c EXCEPT !.live = live]
    BY <1>4, <2>1 DEF Handled
  <2>3. /\ d \in CheckerType /\ d.coverage = c.coverage
        /\ d.sources = c.sources /\ d.decoders = c.decoders
        /\ d.live = live /\ d.ended = c.ended /\ d.streams = c.streams
    BY <2>2 DEF CheckerType
  <2> QED BY <1>4, <2>1, <2>3, Zenon DEF Declares
<1>5. CASE b.kind = "participant"
  <2>1. /\ b.sid \in Sids /\ b.pid \in Pids /\ b.isn \in SeqNum \cup {None}
        /\ b.adjacency \in {"contiguous", "units"}
    BY <1>5, DescriptorBlock DEF Refuses
  <2>2. PICK stream \in StreamType : stream = NewStream(b.isn, b.adjacency)
    BY <2>1, NewStreamType
  <2>3. PICK streams \in [Sids \X Pids -> StreamType \cup {None}] :
           streams = [c.streams EXCEPT ![<<b.sid, b.pid>>] = stream]
    BY <2>1 DEF CheckerType
  <2>4. d = [c EXCEPT !.streams = streams]
    BY <1>5, <2>2, <2>3 DEF Handled
  <2>5. \A s \in Sids, p \in Pids : streams[s, p] # None =>
           c.streams[s, p] # None \/ (b.sid = s /\ b.pid = p)
    BY <2>1, <2>3 DEF CheckerType
  <2>6. /\ d \in CheckerType /\ d.coverage = c.coverage
        /\ d.sources = c.sources /\ d.decoders = c.decoders
        /\ d.live = c.live /\ d.ended = c.ended /\ d.streams = streams
    BY <2>4 DEF CheckerType
  <2> QED BY <1>5, <2>5, <2>6, Zenon DEF Declares
<1>6. CASE b.kind = "record"
  <2>1. b.sid \in Sids /\ b.pid \in Pids /\ Declared(c, b) /\ ~ UnknownDecoder(c, b)
    BY <1>6, RecordBlock DEF Refuses, BadRecordEarly
  <2>2. PICK stream \in StreamType : stream = StreamAfter(c, b)
    BY <1>6, <2>1, StreamAfterType
  <2>3. PICK streams \in [Sids \X Pids -> StreamType \cup {None}] :
           streams = [c.streams EXCEPT ![<<b.sid, b.pid>>] = stream]
    BY <2>1 DEF CheckerType
  <2>4. PICK sourced \in BOOLEAN : sourced = (c.zpfSourced \/ c.sources[b.source] = "zpf")
    OBVIOUS
  <2>5. d = [c EXCEPT !.streams = streams, !.zpfSourced = sourced]
    BY <1>6, <2>2, <2>3, <2>4 DEF Handled
  <2>6. \A s \in Sids, p \in Pids : streams[s, p] # None => c.streams[s, p] # None
    BY <2>1, <2>3 DEF CheckerType, Declared
  <2>7. /\ d \in CheckerType /\ d.coverage = c.coverage
        /\ d.sources = c.sources /\ d.decoders = c.decoders
        /\ d.live = c.live /\ d.ended = c.ended /\ d.streams = streams
    BY <2>5 DEF CheckerType
  <2> QED BY <1>6, <2>6, <2>7, Zenon DEF Declares
<1>7. CASE b.kind = "discontinuity"
  <2>1. b.sid \in Sids /\ b.pid \in Pids /\ Declared(c, b)
    BY <1>7, OtherBlock DEF Refuses
  <2>2. c.streams[<<b.sid, b.pid>>] \in StreamType
    BY <2>1 DEF CheckerType, Declared
  <2>3. PICK stream \in StreamType :
           stream = [c.streams[<<b.sid, b.pid>>] EXCEPT !.broken = TRUE, !.brokeSince = TRUE]
    BY <2>2 DEF StreamType
  <2>4. PICK streams \in [Sids \X Pids -> StreamType \cup {None}] :
           streams = [c.streams EXCEPT ![<<b.sid, b.pid>>] = stream]
    BY <2>1 DEF CheckerType
  <2>5. d = [c EXCEPT !.streams = streams]
    BY <1>7, <2>3, <2>4 DEF Handled
  <2>6. \A s \in Sids, p \in Pids : streams[s, p] # None => c.streams[s, p] # None
    BY <2>1, <2>4 DEF CheckerType, Declared
  <2>7. /\ d \in CheckerType /\ d.coverage = c.coverage
        /\ d.sources = c.sources /\ d.decoders = c.decoders
        /\ d.live = c.live /\ d.ended = c.ended /\ d.streams = streams
    BY <2>5 DEF CheckerType
  <2> QED BY <1>7, <2>6, <2>7, Zenon DEF Declares
<1>8. CASE b.kind = "undecoded"
  <2>1. PICK holes \in SUBSET RegionType, removed \in SUBSET RegionType :
           WithRegion(c, b) = [c EXCEPT !.holes = holes, !.removed = removed]
    BY <1>8, WithRegionType
  <2>2. d = [c EXCEPT !.holes = holes, !.removed = removed]
    BY <1>8, <2>1 DEF Handled
  <2>3. /\ d \in CheckerType /\ d.coverage = c.coverage
        /\ d.sources = c.sources /\ d.decoders = c.decoders
        /\ d.live = c.live /\ d.ended = c.ended /\ d.streams = c.streams
    BY <2>2 DEF CheckerType
  <2> QED BY <1>8, <2>3, Zenon DEF Declares
<1>9. CASE b.kind = "sessionEnd"
  <2>1. b.sid \in Sids /\ d = Closed(c, b.sid)
    BY <1>9, OtherBlock DEF Handled
  <2>2. PICK breaks \in SUBSET RegionType, streams \in [Sids \X Pids -> StreamType \cup {None}] :
           /\ Closed(c, b.sid) = [c EXCEPT !.live = c.live \ {b.sid}, !.ended = c.ended \cup {b.sid},
                                           !.streams = streams, !.breaks = breaks]
           /\ \A sp \in Sids \X Pids : streams[sp] # None => c.streams[sp] # None
    BY <2>1, ClosedType
  <2>3. /\ d \in CheckerType /\ d.coverage = c.coverage
        /\ d.sources = c.sources /\ d.decoders = c.decoders
        /\ d.live = c.live \ {b.sid} /\ d.ended = c.ended \cup {b.sid} /\ d.streams = streams
    <3>0. PICK live \in SUBSET Sids, ended \in SUBSET Sids :
             live = c.live \ {b.sid} /\ ended = c.ended \cup {b.sid}
      BY <2>1 DEF CheckerType
    <3>1. d = [c EXCEPT !.live = live, !.ended = ended, !.streams = streams, !.breaks = breaks]
      BY <2>1, <2>2, <3>0
    <3> QED BY <3>0, <3>1 DEF CheckerType
  <2>4. \A s \in Sids, p \in Pids : d.streams[s, p] # None => c.streams[s, p] # None
    BY <2>2, <2>3
  <2> QED BY <1>9, <2>2, <2>3, <2>4, Zenon DEF Declares
<1>10. CASE b.kind \in {"end", "name", "custom"}
  <2>1. d = c \/ d = [c EXCEPT !.over = TRUE]
    BY <1>10 DEF Handled
  <2>2. /\ d \in CheckerType /\ d.coverage = c.coverage
        /\ d.sources = c.sources /\ d.decoders = c.decoders
        /\ d.live = c.live /\ d.ended = c.ended /\ d.streams = c.streams
    BY <2>1 DEF CheckerType
  <2> QED BY <1>10, <2>2, Zenon DEF Declares
<1> QED BY <1>1, <1>2, <1>3, <1>4, <1>5, <1>6, <1>7, <1>8, <1>9, <1>10, OtherBlock

\* A block that is absorbed counts once its handler accepted it.
LEMMA Absorption ==
    ASSUME NEW c \in CheckerType, NEW b \in BlockType, ~ Refuses(c, b)
    PROVE  /\ Absorbed(c, b) \in CheckerType
           /\ Declares(c, b, Absorbed(c, b))
           /\ Counts(c, b, Absorbed(c, b))
<1>1. PICK d \in CheckerType : d = Handled(c, b) /\ Declares(c, b, d) /\ d.coverage = c.coverage
  BY Handling
<1>2. PICK coverage \in [Keys -> LedgerType] :
         /\ Covered(d, b) = [d EXCEPT !.coverage = coverage]
         /\ \A k \in Keys :
               /\ coverage[k].spans = d.coverage[k].spans \cup
                     (IF b.kind = "record" THEN CitedBy(b, k) ELSE {})
               /\ coverage[k].undecoded = d.coverage[k].undecoded \cup
                     (IF Marks(d, b, k) THEN Span(b.start, b.end) ELSE {})
  BY Counting
<1>3. PICK e \in CheckerType : e = [d EXCEPT !.coverage = coverage]
  BY DEF CheckerType
<1>4. /\ e.coverage = coverage /\ e.sources = d.sources /\ e.decoders = d.decoders
      /\ e.live = d.live /\ e.ended = d.ended /\ e.streams = d.streams
  BY <1>3 DEF CheckerType
<1>5. \A k : Marks(d, b, k) <=> Marks(c, b, k)
  <2>1. b.kind = "undecoded" => d.sources = c.sources
    BY <1>1, Zenon DEF Declares
  <2> QED BY <2>1 DEF Marks
<1>6. Absorbed(c, b) = e
  BY <1>1, <1>2, <1>3 DEF Absorbed
<1>7. Declares(c, b, e)
  <2>1. e.sources = IF b.kind = "source" THEN [c.sources EXCEPT ![b.id] = b.source] ELSE c.sources
    BY <1>1, <1>4, Zenon DEF Declares
  <2>2. e.decoders = IF b.kind = "decoder" THEN [c.decoders EXCEPT ![b.id] = b.layer] ELSE c.decoders
    BY <1>1, <1>4, Zenon DEF Declares
  <2>3. /\ e.live = IF b.kind = "session" THEN c.live \cup {b.sid}
                   ELSE IF b.kind = "sessionEnd" THEN c.live \ {b.sid} ELSE c.live
        /\ e.ended = IF b.kind = "sessionEnd" THEN c.ended \cup {b.sid} ELSE c.ended
    BY <1>1, <1>4, Zenon DEF Declares
  <2>4. ASSUME NEW s \in Sids, NEW p \in Pids, e.streams[s, p] # None
        PROVE  c.streams[s, p] # None \/ (b.kind = "participant" /\ b.sid = s /\ b.pid = p)
    <3>1. d.streams[s, p] # None
      BY <1>4, <2>4, Zenon
    <3> QED BY <1>1, <3>1, Zenon DEF Declares
  <2> QED BY <2>1, <2>2, <2>3, <2>4, Zenon DEF Declares
<1>8. Counts(c, b, e)
  BY <1>1, <1>2, <1>4, <1>5 DEF Counts
<1> QED BY <1>6, <1>7, <1>8

\* A block that is refused declares nothing, begins no stream and does not count.
LEMMA Refusal ==
    ASSUME NEW c \in CheckerType, NEW b \in BlockType
    PROVE  /\ Left(c, b) \in CheckerType
           /\ Left(c, b).sources = c.sources /\ Left(c, b).decoders = c.decoders
           /\ Left(c, b).coverage = c.coverage
           /\ Left(c, b).live \subseteq c.live /\ c.ended \subseteq Left(c, b).ended
           /\ \A s \in Sids, p \in Pids :
                 Left(c, b).streams[s, p] # None => c.streams[s, p] # None
<1> SUFFICES ASSUME NEW d, d = Left(c, b)
             PROVE  /\ d \in CheckerType
                    /\ d.sources = c.sources /\ d.decoders = c.decoders /\ d.coverage = c.coverage
                    /\ d.live \subseteq c.live /\ c.ended \subseteq d.ended
                    /\ \A s \in Sids, p \in Pids : d.streams[s, p] # None => c.streams[s, p] # None
  OBVIOUS
<1>1. CASE d = c
  BY <1>1 DEF CheckerType
<1>2. CASE b.kind = "record" /\ Declared(c, b) /\ d # c
  <2>1. b.sid \in Sids /\ b.pid \in Pids /\ b.seq \in SeqNum \cup {None}
    BY <1>2, RecordBlock
  <2>2. c.streams[b.sid, b.pid] \in StreamType
    BY <1>2, <2>1 DEF CheckerType, Declared
  <2>3. PICK placed \in StreamType : placed = Anchored(c.streams[b.sid, b.pid], b)
    BY <2>1, <2>2, AnchoredType
  <2>4. PICK stream \in StreamType :
           stream = IF BadRecordEarly(c, b) THEN placed ELSE Reported(c, placed, b)
    BY <2>1, <2>3, AnchoredType
  <2>5. PICK streams \in [Sids \X Pids -> StreamType \cup {None}] :
           streams = [c.streams EXCEPT ![<<b.sid, b.pid>>] = stream]
    BY <2>1 DEF CheckerType
  <2>6. d = [c EXCEPT !.streams = streams]
    BY <1>2, <2>3, <2>4, <2>5 DEF Left
  <2>7. \A s \in Sids, p \in Pids : streams[s, p] # None => c.streams[s, p] # None
    BY <1>2, <2>1, <2>5 DEF CheckerType, Declared
  <2>8. d \in CheckerType /\ d.streams = streams
    BY <2>6 DEF CheckerType
  <2>9. /\ d.sources = c.sources /\ d.decoders = c.decoders /\ d.coverage = c.coverage
        /\ d.live = c.live /\ d.ended = c.ended
    BY <2>6 DEF CheckerType
  <2> QED BY <2>7, <2>8, <2>9
<1>3. CASE b.kind = "undecoded" /\ d = WithRegion(c, b)
  <2>1. PICK holes \in SUBSET RegionType, removed \in SUBSET RegionType :
           WithRegion(c, b) = [c EXCEPT !.holes = holes, !.removed = removed]
    BY <1>3, WithRegionType
  <2>2. /\ d \in CheckerType /\ d.streams = c.streams
        /\ d.sources = c.sources /\ d.decoders = c.decoders /\ d.coverage = c.coverage
        /\ d.live = c.live /\ d.ended = c.ended
    <3>1. d = [c EXCEPT !.holes = holes, !.removed = removed]
      BY <1>3, <2>1
    <3> QED BY <3>1 DEF CheckerType
  <2> QED BY <2>2
<1>4. CASE b.kind = "sessionEnd" /\ d = Closed(c, b.sid)
  <2>1. b.sid \in Sids
    BY <1>4, OtherBlock
  <2>2. PICK breaks \in SUBSET RegionType, streams \in [Sids \X Pids -> StreamType \cup {None}] :
           /\ Closed(c, b.sid) = [c EXCEPT !.live = c.live \ {b.sid}, !.ended = c.ended \cup {b.sid},
                                           !.streams = streams, !.breaks = breaks]
           /\ \A sp \in Sids \X Pids : streams[sp] # None => c.streams[sp] # None
    BY <2>1, ClosedType
  <2>3. /\ d \in CheckerType /\ d.coverage = c.coverage
        /\ d.sources = c.sources /\ d.decoders = c.decoders
        /\ d.live = c.live \ {b.sid} /\ d.ended = c.ended \cup {b.sid} /\ d.streams = streams
    <3>0. PICK live \in SUBSET Sids, ended \in SUBSET Sids :
             live = c.live \ {b.sid} /\ ended = c.ended \cup {b.sid}
      BY <2>1 DEF CheckerType
    <3>1. d = [c EXCEPT !.live = live, !.ended = ended, !.streams = streams, !.breaks = breaks]
      BY <1>4, <2>2, <3>0
    <3> QED BY <3>0, <3>1 DEF CheckerType
  <2> QED BY <2>2, <2>3
<1>5. \/ d = c
      \/ b.kind = "record" /\ Declared(c, b)
      \/ b.kind = "undecoded" /\ d = WithRegion(c, b)
      \/ b.kind = "sessionEnd" /\ d = Closed(c, b.sid)
  BY DEF Left
<1> QED BY <1>1, <1>2, <1>3, <1>4, <1>5

-------------------------------------------------------------------------------
(* What a block that is absorbed makes of its stream, of the seams and of the *)
(* lengths *)

\* The seams a record opens to the one before it.
OpenedBy(stream, b) ==
    { r \in Candidates(stream, b) : ~ stream.brokeSince /\ r.start # None /\ r.start < r.end }

\* The stream of block b, as the checker holds it.
HeldBy(c, b) == c.streams[b.sid, b.pid]

\* What an accepted record b leaves of its stream.
Moves(c, b, stream, after) ==
    /\ after.layers = stream.layers \cup {LayerOf(c, b)}
    /\ after.adjacency = stream.adjacency
    /\ after.broken = stream.broken
    /\ after.anchored <=> (stream.anchored \/ b.seq # None)
    /\ after.copied <=> (stream.copied \/ IsCopy(c, b))
    /\ after.candidates = stream.candidates \cup OpenedBy(stream, b)
    /\ after.reach = [k \in Keys |-> Reach(b, k)]
    /\ after.brokeSince = FALSE
    /\ ~ ReportsUnits(c, stream, b) => after.reported = stream.reported

LEMMA StreamMoves ==
    ASSUME NEW c \in CheckerType, NEW b \in BlockType, b.kind = "record", Declared(c, b)
    PROVE  Moves(c, b, HeldBy(c, b), StreamAfter(c, b))
<1>0. PICK stream : stream = HeldBy(c, b)
  OBVIOUS
<1>1. b.sid \in Sids /\ b.pid \in Pids /\ b.seq \in SeqNum \cup {None} /\ b.spans \in SUBSET SpanType
  BY RecordBlock
<1>2. stream \in StreamType
  BY <1>0, <1>1 DEF CheckerType, Declared, HeldBy
<1>3. PICK placed \in StreamType : placed = Anchored(stream, b)
  BY <1>1, <1>2, AnchoredType
<1>4. PICK reported \in StreamType : reported = Reported(c, placed, b)
  BY <1>1, <1>3, AnchoredType
<1>5. /\ reported.layers = stream.layers /\ reported.adjacency = stream.adjacency
      /\ reported.broken = stream.broken /\ reported.anchored = stream.anchored
      /\ reported.copied = stream.copied /\ reported.candidates = stream.candidates
      /\ reported.reach = stream.reach /\ reported.brokeSince = stream.brokeSince
  <2>1. /\ placed.layers = stream.layers /\ placed.adjacency = stream.adjacency
        /\ placed.broken = stream.broken /\ placed.anchored = stream.anchored
        /\ placed.copied = stream.copied /\ placed.candidates = stream.candidates
        /\ placed.reach = stream.reach /\ placed.brokeSince = stream.brokeSince
    BY <1>2, <1>3 DEF Anchored, StreamType
  <2>2. reported = placed \/ reported = [placed EXCEPT !.reported = TRUE]
    BY <1>4 DEF Reported
  <2>3. CASE reported = placed
    BY <2>1, <2>3
  <2>4. CASE reported = [placed EXCEPT !.reported = TRUE]
    <3>1. /\ reported.layers = placed.layers /\ reported.adjacency = placed.adjacency
          /\ reported.broken = placed.broken /\ reported.anchored = placed.anchored
          /\ reported.copied = placed.copied /\ reported.candidates = placed.candidates
          /\ reported.reach = placed.reach /\ reported.brokeSince = placed.brokeSince
      BY <1>3, <2>4 DEF StreamType
    <3> QED BY <2>1, <3>1
  <2> QED BY <2>2, <2>3, <2>4
<1>6. PICK tracked \in StreamType : tracked = Tracked(reported, b)
  BY <1>1, <1>4, TrackedType
<1>15. ~ ReportsUnits(c, stream, b) => reported.reported = stream.reported
  <2>1. placed.reported = stream.reported /\ placed.adjacency = stream.adjacency
    BY <1>2, <1>3 DEF Anchored, StreamType
  <2> QED BY <1>4, <2>1 DEF Reported, ReportsUnits
<1>7. OpenedBy(reported, b) = OpenedBy(stream, b)
  BY <1>5 DEF OpenedBy, Candidates
<1>8. /\ tracked.layers = reported.layers /\ tracked.adjacency = reported.adjacency
      /\ tracked.broken = reported.broken /\ tracked.anchored = reported.anchored
      /\ tracked.copied = reported.copied /\ tracked.reported = reported.reported
      /\ tracked.candidates = reported.candidates \cup OpenedBy(reported, b)
      /\ tracked.reach = [k \in Keys |-> Reach(b, k)] /\ tracked.brokeSince = FALSE
  <2>1. PICK seams : seams = OpenedBy(reported, b)
    OBVIOUS
  <2>2. PICK reach : reach = [k \in Keys |-> Reach(b, k)]
    OBVIOUS
  <2>3. tracked = [reported EXCEPT !.candidates = reported.candidates \cup seams,
                                   !.reach = reach, !.brokeSince = FALSE]
    BY <1>6, <2>1, <2>2 DEF Tracked, OpenedBy
  <2>4. /\ tracked.layers = reported.layers /\ tracked.adjacency = reported.adjacency
        /\ tracked.broken = reported.broken /\ tracked.anchored = reported.anchored
        /\ tracked.copied = reported.copied /\ tracked.reported = reported.reported
    BY <1>4, <2>3 DEF StreamType
  <2>5. tracked.candidates = reported.candidates \cup seams /\ tracked.reach = reach
    BY <1>4, <2>3 DEF StreamType
  <2>6. tracked.brokeSince = FALSE
    BY <1>4, <2>3 DEF StreamType
  <2> QED BY <2>1, <2>2, <2>4, <2>5, <2>6
<1>9. StreamAfter(c, b) =
        [tracked EXCEPT !.layers = tracked.layers \cup {LayerOf(c, b)},
                        !.lastSeq = IF b.seq = None THEN tracked.lastSeq ELSE b.seq,
                        !.anchored = tracked.anchored \/ b.seq # None,
                        !.copied = tracked.copied \/ IsCopy(c, b),
                        !.payload = b.payload]
  BY <1>0, <1>3, <1>4, <1>6 DEF StreamAfter, HeldBy
<1>10. PICK anchored \in BOOLEAN : anchored = (tracked.anchored \/ b.seq # None)
  OBVIOUS
<1>13. PICK copied \in BOOLEAN : copied = (tracked.copied \/ IsCopy(c, b))
  OBVIOUS
<1>14. PICK layer, lastSeq, payload :
          /\ layer = LayerOf(c, b) /\ payload = b.payload
          /\ lastSeq = IF b.seq = None THEN tracked.lastSeq ELSE b.seq
  OBVIOUS
<1>11. StreamAfter(c, b) =
        [tracked EXCEPT !.layers = tracked.layers \cup {layer}, !.lastSeq = lastSeq,
                        !.anchored = anchored, !.copied = copied, !.payload = payload]
  BY <1>9, <1>10, <1>13, <1>14
<1>12. /\ StreamAfter(c, b).layers = tracked.layers \cup {layer}
       /\ StreamAfter(c, b).adjacency = tracked.adjacency
       /\ StreamAfter(c, b).broken = tracked.broken
       /\ StreamAfter(c, b).anchored = anchored
       /\ StreamAfter(c, b).copied = copied
       /\ StreamAfter(c, b).candidates = tracked.candidates
       /\ StreamAfter(c, b).reach = tracked.reach
       /\ StreamAfter(c, b).brokeSince = tracked.brokeSince
       /\ StreamAfter(c, b).reported = tracked.reported
  BY <1>11, <1>6 DEF StreamType
<1> QED BY <1>0, <1>5, <1>7, <1>8, <1>10, <1>12, <1>13, <1>14, <1>15 DEF Moves

\* An Undecoded block of an input that is a file says that content is lost.
RegionOf(u) == [key |-> <<u.source, u.input>>, start |-> u.start, end |-> u.end]

Loses(c, u) ==
    /\ c.sources[u.source] = "zpf" /\ u.start < u.end
    /\ ClassOf(u) = "hole" \/ u.reason = "dropped"

\* From c to d, block b changes its own stream, hands over the seams of the
\* session it ends, adds the region it says is lost and the lengths it declares.
Follows(c, b, d) ==
    /\ b.kind = "participant" =>
          d.streams = [c.streams EXCEPT ![<<b.sid, b.pid>>] = NewStream(b.isn, b.adjacency)]
    /\ b.kind = "record" => d.streams = [c.streams EXCEPT ![<<b.sid, b.pid>>] = StreamAfter(c, b)]
    /\ b.kind = "discontinuity" =>
          d.streams = [c.streams EXCEPT ![<<b.sid, b.pid>>] = [@ EXCEPT !.broken = TRUE, !.brokeSince = TRUE]]
    /\ b.kind = "sessionEnd" =>
          /\ \A s \in Sids, p \in Pids : d.streams[s, p] = IF s = b.sid THEN None ELSE c.streams[s, p]
          /\ d.breaks = c.breaks \cup UNION { CandidatesOf(c.streams[b.sid, p]) : p \in Pids }
    /\ b.kind \notin {"participant", "record", "discontinuity", "sessionEnd"} => d.streams = c.streams
    /\ b.kind # "sessionEnd" => d.breaks = c.breaks
    /\ d.holes \cup d.removed = (c.holes \cup c.removed) \cup
          (IF b.kind = "undecoded" /\ Loses(c, b) THEN {RegionOf(b)} ELSE {})

\* What a handler does to the streams and the regions.
LEMMA HandlingFollows ==
    ASSUME NEW c \in CheckerType, NEW b \in BlockType, ~ Refuses(c, b)
    PROVE  Follows(c, b, Handled(c, b))
<1> SUFFICES ASSUME NEW d, d = Handled(c, b)
             PROVE  Follows(c, b, d)
  OBVIOUS
<1>1. CASE b.kind \in {"header", "source", "decoder", "session", "name", "custom", "end"}
  <2>1. d.streams = c.streams /\ d.breaks = c.breaks /\ d.holes = c.holes /\ d.removed = c.removed
    <3>1. CASE b.kind = "header"
      <4>1. PICK header : d = [c EXCEPT !.header = header, !.digest = b.digest]
        BY <3>1 DEF Handled
      <4> QED BY <4>1 DEF CheckerType
    <3>2. CASE b.kind = "source"
      <4>1. PICK sources : d = [c EXCEPT !.sources = sources]
        BY <3>2 DEF Handled
      <4> QED BY <4>1 DEF CheckerType
    <3>3. CASE b.kind = "decoder"
      <4>1. PICK decoders : d = [c EXCEPT !.decoders = decoders]
        BY <3>3 DEF Handled
      <4> QED BY <4>1 DEF CheckerType
    <3>4. CASE b.kind = "session"
      <4>1. PICK live : d = [c EXCEPT !.live = live]
        BY <3>4 DEF Handled
      <4> QED BY <4>1 DEF CheckerType
    <3>5. CASE b.kind \in {"name", "custom", "end"}
      <4>1. d = c \/ d = [c EXCEPT !.over = TRUE]
        BY <3>5 DEF Handled
      <4> QED BY <4>1 DEF CheckerType
    <3> QED BY <1>1, <3>1, <3>2, <3>3, <3>4, <3>5
  <2> QED BY <1>1, <2>1 DEF Follows
<1>2. CASE b.kind \in {"participant", "record", "discontinuity"}
  <2>1. PICK streams, sourced :
           /\ b.kind = "participant" =>
                 streams = [c.streams EXCEPT ![<<b.sid, b.pid>>] = NewStream(b.isn, b.adjacency)]
           /\ b.kind = "record" => streams = [c.streams EXCEPT ![<<b.sid, b.pid>>] = StreamAfter(c, b)]
           /\ b.kind = "discontinuity" =>
                 streams = [c.streams EXCEPT ![<<b.sid, b.pid>>] = [@ EXCEPT !.broken = TRUE, !.brokeSince = TRUE]]
           /\ \/ d = [c EXCEPT !.streams = streams]
              \/ d = [c EXCEPT !.streams = streams, !.zpfSourced = sourced]
    <3>1. CASE b.kind = "participant"
      BY <3>1 DEF Handled
    <3>2. CASE b.kind = "record"
      <4>1. d = [c EXCEPT !.streams = [c.streams EXCEPT ![<<b.sid, b.pid>>] = StreamAfter(c, b)],
                          !.zpfSourced = c.zpfSourced \/ c.sources[b.source] = "zpf"]
        BY <3>2 DEF Handled
      <4> QED BY <3>2, <4>1
    <3>3. CASE b.kind = "discontinuity"
      BY <3>3 DEF Handled
    <3> QED BY <1>2, <3>1, <3>2, <3>3
  <2>2. d.streams = streams /\ d.breaks = c.breaks /\ d.holes = c.holes /\ d.removed = c.removed
    BY <2>1 DEF CheckerType
  <2> QED BY <1>2, <2>1, <2>2 DEF Follows
<1>3. CASE b.kind = "undecoded"
  <2>1. d = WithRegion(c, b)
    BY <1>3 DEF Handled
  <2>2. PICK region \in RegionType : region = RegionOf(b)
    <3>1. RegionOf(b) \in RegionType
      BY <1>3, OtherBlock, IdsAssumption DEF RegionType, Keys, RegionOf
    <3> QED BY <3>1
  <2>3. b.start \in Nat /\ b.end \in Nat
    BY <1>3, OtherBlock, IdsAssumption
  <2>4. d.streams = c.streams /\ d.breaks = c.breaks
    <3>1. PICK holes \in SUBSET RegionType, removed \in SUBSET RegionType :
             WithRegion(c, b) = [c EXCEPT !.holes = holes, !.removed = removed]
      BY <1>3, WithRegionType
    <3>2. d = [c EXCEPT !.holes = holes, !.removed = removed]
      BY <2>1, <3>1
    <3> QED BY <3>2 DEF CheckerType
  <2>5. d.holes \cup d.removed = (c.holes \cup c.removed) \cup (IF Loses(c, b) THEN {region} ELSE {})
    <3>1. CASE c.sources[b.source] # "zpf" \/ b.start >= b.end
      BY <2>1, <2>3, <3>1 DEF WithRegion, Loses
    <3>2. CASE c.sources[b.source] = "zpf" /\ b.start < b.end /\ ClassOf(b) = "hole"
      <4>1. d = [c EXCEPT !.holes = c.holes \cup {region}] /\ Loses(c, b)
        BY <2>1, <2>2, <2>3, <3>2 DEF WithRegion, Loses, RegionOf
      <4>2. d.holes = c.holes \cup {region} /\ d.removed = c.removed
        BY <4>1 DEF CheckerType
      <4> QED BY <4>1, <4>2
    <3>3. CASE c.sources[b.source] = "zpf" /\ b.start < b.end /\ ClassOf(b) # "hole" /\ b.reason = "dropped"
      <4>1. d = [c EXCEPT !.removed = c.removed \cup {region}] /\ Loses(c, b)
        BY <2>1, <2>2, <2>3, <3>3 DEF WithRegion, Loses, RegionOf
      <4>2. d.holes = c.holes /\ d.removed = c.removed \cup {region}
        BY <4>1 DEF CheckerType
      <4> QED BY <4>1, <4>2
    <3>4. CASE c.sources[b.source] = "zpf" /\ b.start < b.end /\ ClassOf(b) # "hole" /\ b.reason # "dropped"
      <4>1. d = c /\ ~ Loses(c, b)
        BY <2>1, <2>3, <3>4 DEF WithRegion, Loses
      <4> QED BY <4>1
    <3> QED BY <2>3, <3>1, <3>2, <3>3, <3>4
  <2> QED BY <1>3, <2>2, <2>4, <2>5 DEF Follows
<1>4. CASE b.kind = "sessionEnd"
  <2>1. b.sid \in Sids /\ d = Closed(c, b.sid) /\ BadStreams(c, b.sid) = {}
    BY <1>4, OtherBlock DEF Handled, Refuses
  <2>9. { p \in StreamsOf(c, b.sid) : \A q \in BadStreams(c, b.sid) : p < q } = StreamsOf(c, b.sid)
    BY <2>1
  <2>10. PICK live, ended : live = c.live \ {b.sid} /\ ended = c.ended \cup {b.sid}
    OBVIOUS
  <2>2. PICK streams, breaks :
           /\ streams = [sp \in Sids \X Pids |-> IF sp[1] = b.sid THEN None ELSE c.streams[sp]]
           /\ breaks = c.breaks \cup UNION { CandidatesOf(c.streams[b.sid, p]) : p \in StreamsOf(c, b.sid) }
    OBVIOUS
  <2>11. d = [c EXCEPT !.live = live, !.ended = ended, !.streams = streams, !.breaks = breaks]
    BY <2>1, <2>9, <2>10, <2>2 DEF Closed
  <2>3. d.streams = streams /\ d.breaks = breaks /\ d.holes = c.holes /\ d.removed = c.removed
    BY <2>11 DEF CheckerType
  <2>4. UNION { CandidatesOf(c.streams[b.sid, p]) : p \in StreamsOf(c, b.sid) }
          = UNION { CandidatesOf(c.streams[b.sid, p]) : p \in Pids }
    <3>1. \A p \in Pids : p \notin StreamsOf(c, b.sid) => CandidatesOf(c.streams[b.sid, p]) = {}
      BY DEF StreamsOf, CandidatesOf
    <3>2. StreamsOf(c, b.sid) \subseteq Pids
      BY DEF StreamsOf
    <3> QED BY <3>1, <3>2
  <2>5. \A s \in Sids, p \in Pids : streams[s, p] = IF s = b.sid THEN None ELSE c.streams[s, p]
    BY <2>2
  <2>6. \A s \in Sids, p \in Pids : d.streams[s, p] = IF s = b.sid THEN None ELSE c.streams[s, p]
    BY <2>3, <2>5
  <2>7. d.breaks = c.breaks \cup UNION { CandidatesOf(c.streams[b.sid, p]) : p \in Pids }
    BY <2>2, <2>3, <2>4
  <2>8. d.holes \cup d.removed = c.holes \cup c.removed
    BY <2>3
  <2> QED BY <1>4, <2>6, <2>7, <2>8, Zenon DEF Follows
<1> QED BY <1>1, <1>2, <1>3, <1>4, OtherBlock

\* A block that is absorbed counts once its handler accepted it: the streams and
\* the regions are the handler's.
LEMMA AbsorbedFollows ==
    ASSUME NEW c \in CheckerType, NEW b \in BlockType, ~ Refuses(c, b)
    PROVE  Follows(c, b, Absorbed(c, b))
<1>1. PICK d \in CheckerType : d = Handled(c, b)
  BY Handling
<1>2. PICK coverage \in [Keys -> LedgerType] : Covered(d, b) = [d EXCEPT !.coverage = coverage]
  BY Counting
<1>3. PICK e : e = [d EXCEPT !.coverage = coverage]
  OBVIOUS
<1>4. e.streams = d.streams /\ e.breaks = d.breaks /\ e.holes = d.holes /\ e.removed = d.removed
  BY <1>1, <1>3 DEF CheckerType
<1>5. Absorbed(c, b) = e
  BY <1>1, <1>2, <1>3 DEF Absorbed
<1>6. Follows(c, b, d)
  BY <1>1, HandlingFollows
<1>7. Follows(c, b, e)
  <2>1. /\ b.kind = "participant" =>
              e.streams = [c.streams EXCEPT ![<<b.sid, b.pid>>] = NewStream(b.isn, b.adjacency)]
        /\ b.kind = "record" => e.streams = [c.streams EXCEPT ![<<b.sid, b.pid>>] = StreamAfter(c, b)]
    BY <1>4, <1>6 DEF Follows
  <2>2. b.kind = "discontinuity" =>
           e.streams = [c.streams EXCEPT ![<<b.sid, b.pid>>] = [@ EXCEPT !.broken = TRUE, !.brokeSince = TRUE]]
    BY <1>4, <1>6 DEF Follows
  <2>3. b.kind = "sessionEnd" =>
           \A s \in Sids, p \in Pids : e.streams[s, p] = IF s = b.sid THEN None ELSE c.streams[s, p]
    <3>1. b.kind = "sessionEnd" =>
             \A s \in Sids, p \in Pids : d.streams[s, p] = IF s = b.sid THEN None ELSE c.streams[s, p]
      BY <1>6, Zenon DEF Follows
    <3> QED BY <1>4, <3>1
  <2>4. b.kind = "sessionEnd" => e.breaks = c.breaks \cup UNION { CandidatesOf(c.streams[b.sid, p]) : p \in Pids }
    BY <1>4, <1>6, Zenon DEF Follows
  <2>5. /\ b.kind \notin {"participant", "record", "discontinuity", "sessionEnd"} => e.streams = c.streams
        /\ b.kind # "sessionEnd" => e.breaks = c.breaks
    BY <1>4, <1>6, Zenon DEF Follows
  <2>6. e.holes \cup e.removed = (c.holes \cup c.removed) \cup
          (IF b.kind = "undecoded" /\ Loses(c, b) THEN {RegionOf(b)} ELSE {})
    BY <1>4, <1>6, Zenon DEF Follows
  <2> QED BY <2>1, <2>2, <2>3, <2>4, <2>5, <2>6, Zenon DEF Follows
<1> QED BY <1>5, <1>7

\* Only a Session End declares lengths, and of its own session.
LEMMA AbsorbedDeclares ==
    ASSUME NEW c \in CheckerType, NEW b \in BlockType, ~ Refuses(c, b),
           NEW k \in Keys, NEW s \in Sids
    PROVE  Absorbed(c, b).coverage[k].declared[s] =
              IF b.kind = "sessionEnd" /\ b.sid = s THEN DeclaredBy(b, k, c.coverage[k].declared[s])
              ELSE c.coverage[k].declared[s]
<1>1. PICK d \in CheckerType : d = Handled(c, b) /\ d.coverage = c.coverage
  BY Handling
<1>2. Absorbed(c, b) = Covered(d, b)
  BY <1>1 DEF Absorbed
<1>3. /\ d.coverage \in [Keys -> LedgerType] /\ d.coverage[k] \in LedgerType
      /\ d.coverage[k].declared \in [Sids -> Nat \cup {None}]
  BY <1>1 DEF CheckerType, LedgerType
<1>4. CASE b.kind = "record"
  <2>1. Covered(d, b).coverage[k] = [d.coverage[k] EXCEPT !.spans = @ \cup CitedBy(b, k)]
    BY <1>1, <1>4 DEF Covered, CitedBy, CheckerType
  <2>2. Covered(d, b).coverage[k].declared = d.coverage[k].declared
    BY <1>3, <2>1 DEF LedgerType
  <2> QED BY <1>1, <1>2, <1>4, <2>2
<1>5. CASE b.kind = "undecoded" /\ d.sources[b.source] # "capture"
  <2>1. PICK j \in Keys : j = <<b.source, b.input>>
    BY <1>5, OtherBlock DEF Keys
  <2>2. Covered(d, b).coverage = [d.coverage EXCEPT ![j].undecoded = @ \cup Span(b.start, b.end)]
    BY <1>1, <1>5, <2>1 DEF Covered, CheckerType
  <2>3. Covered(d, b).coverage[k].declared = d.coverage[k].declared
    BY <1>3, <2>2 DEF LedgerType
  <2> QED BY <1>1, <1>2, <1>5, <2>3
<1>6. CASE b.kind = "sessionEnd"
  <2>1. PICK length : length = DeclaredBy(b, k, d.coverage[k].declared[b.sid])
    OBVIOUS
  <2>2. Covered(d, b).coverage[k] = [d.coverage[k] EXCEPT !.declared[b.sid] = length]
    BY <1>1, <1>6, <2>1 DEF Covered, CheckerType
  <2>3. Covered(d, b).coverage[k].declared = [d.coverage[k].declared EXCEPT ![b.sid] = length]
    BY <1>3, <2>2 DEF LedgerType
  <2>4. b.sid \in Sids
    BY <1>6, OtherBlock
  <2> QED BY <1>1, <1>2, <1>3, <1>6, <2>1, <2>3, <2>4
<1>7. CASE ~ (\/ b.kind \in {"record", "sessionEnd"}
              \/ b.kind = "undecoded" /\ d.sources[b.source] # "capture")
  <2>1. Covered(d, b) = d
    BY <1>7 DEF Covered
  <2> QED BY <1>1, <1>2, <1>7, <2>1
<1> QED BY <1>4, <1>5, <1>6, <1>7

-------------------------------------------------------------------------------
(* Two checkers, one of which has seen less than the other *)

\* What the rules on blocks read of a stream.
SameStanding(x, y) ==
    /\ x = None <=> y = None
    /\ x # None =>
          /\ y.layers = x.layers /\ y.broken = x.broken
          /\ y.lastSeq = x.lastSeq /\ y.payload = x.payload
          /\ y.anchored = x.anchored /\ y.copied = x.copied

\* Checker t knows what c knows, but for the sessions c has ended with a Session End
\* that it refused.
Trails(t, c) ==
    /\ t.header = c.header /\ t.over = c.over
    /\ t.sources = c.sources /\ t.decoders = c.decoders
    /\ c.live \subseteq t.live /\ t.live \cup t.ended = c.live \cup c.ended
    /\ \A s \in Sids, p \in Pids :
          /\ s \notin c.live => c.streams[s, p] = None
          /\ s \notin t.live => t.streams[s, p] = None
          /\ s \in c.live => SameStanding(c.streams[s, p], t.streams[s, p])

\* A checker that has seen nothing is of its type.
LEMMA NewCheckerType == NewChecker \in CheckerType
<1>1. NewLedger \in LedgerType
  BY DEF NewLedger, LedgerType
<1>2. PICK coverage \in [Keys -> LedgerType] : coverage = [k \in Keys |-> NewLedger]
  BY <1>1
<1>3. NewChecker.coverage = coverage
  BY <1>2 DEF NewChecker
<1> QED BY <1>2 DEF NewChecker, CheckerType

\* What the standing of a stream decides.
LEMMA StandingRules ==
    ASSUME NEW c, NEW t, NEW x, NEW y, NEW b,
           t.decoders = c.decoders, SameStanding(x, y), x # None
    PROVE  /\ OutOfOrder(y, b) <=> OutOfOrder(x, b)
           /\ BadCopy(t, y, b) <=> BadCopy(c, x, b)
           /\ BadStream(y) <=> BadStream(x)
<1>1. y.lastSeq = x.lastSeq /\ y.payload = x.payload /\ y.anchored = x.anchored
  BY DEF SameStanding
<1>2. y.layers = x.layers /\ y.broken = x.broken /\ y.copied = x.copied
  BY DEF SameStanding
<1>3. LayerOf(t, b) = LayerOf(c, b)
  BY DEF LayerOf
<1>4. IsCopy(t, b) <=> IsCopy(c, b)
  BY <1>3 DEF IsCopy
<1>5. OutOfOrder(y, b) <=> OutOfOrder(x, b)
  BY ONLY <1>1 DEF OutOfOrder
<1>6. BadCopy(t, y, b) <=> BadCopy(c, x, b)
  BY <1>1, <1>4, Zenon DEF BadCopy
<1>7. BadStream(y) <=> BadStream(x)
  BY <1>1, <1>2, Zenon DEF BadStream
<1> QED BY <1>5, <1>6, <1>7

\* A block the one accepts, the other accepts.
LEMMA TrailAccepts ==
    ASSUME NEW c \in CheckerType, NEW t \in CheckerType, NEW b \in BlockType,
           Trails(t, c), ~ Refuses(c, b)
    PROVE  ~ Refuses(t, b)
<1>1. /\ t.header = c.header /\ t.over = c.over
      /\ t.sources = c.sources /\ t.decoders = c.decoders
      /\ c.live \subseteq t.live /\ t.live \cup t.ended = c.live \cup c.ended
  BY DEF Trails
<1>2. ASSUME NEW s \in c.live, NEW p \in Pids
      PROVE  SameStanding(c.streams[s, p], t.streams[s, p])
  <2>1. s \in Sids
    BY DEF CheckerType
  <2> QED BY <2>1 DEF Trails
<1>3. ~ OutOfPlace(t, b)
  BY <1>1 DEF Refuses, OutOfPlace
<1>4. (Derived(t) <=> Derived(c)) /\ (Live(c, b) => Live(t, b))
  BY <1>1 DEF Derived, Live
<1>5. (UnknownSource(t, b) <=> UnknownSource(c, b)) /\ (UnknownDecoder(t, b) <=> UnknownDecoder(c, b))
  BY <1>1 DEF UnknownSource, UnknownDecoder
<1>6. ASSUME b.kind \in {"record", "discontinuity", "name"}
      PROVE  Declared(c, b) /\ Declared(t, b) /\ SameStanding(HeldBy(c, b), HeldBy(t, b)) /\ HeldBy(c, b) # None
  <2>1. Declared(c, b)
    BY <1>6 DEF Refuses
  <2>2. b.sid \in c.live /\ b.pid \in Pids /\ HeldBy(c, b) # None
    BY <1>6, <2>1, OtherBlock, RecordBlock DEF Declared, Live, HeldBy
  <2>3. SameStanding(HeldBy(c, b), HeldBy(t, b))
    BY <1>2, <2>2 DEF HeldBy
  <2>4. HeldBy(t, b) # None
    BY <2>2, <2>3 DEF SameStanding
  <2> QED BY <1>4, <2>1, <2>2, <2>3, <2>4 DEF Declared, HeldBy
<1>7. CASE b.kind \in {"header", "source", "decoder", "session", "custom", "end"}
  BY <1>1, <1>3, <1>7 DEF Refuses
<1>8. CASE b.kind = "participant"
  <2>1. Live(c, b) /\ ~ Declared(c, b) /\ b.adjacency # "undefined"
    BY <1>8 DEF Refuses
  <2>2. b.sid \in c.live /\ b.pid \in Pids /\ c.streams[b.sid, b.pid] = None
    BY <1>8, <2>1, DescriptorBlock DEF Live, Declared
  <2>3. t.streams[b.sid, b.pid] = None
    BY <1>2, <2>2 DEF SameStanding
  <2>4. Live(t, b) /\ ~ Declared(t, b)
    BY <1>4, <2>1, <2>3 DEF Declared
  <2> QED BY <1>3, <1>8, <2>1, <2>4 DEF Refuses
<1>9. CASE b.kind = "record"
  <2>1. ~ BadRecordEarly(c, b) /\ ~ BadRecordLate(c, b)
    BY <1>6, <1>9 DEF Refuses
  <2>2. ~ BadRecordLate(t, b)
    BY <1>1, <1>4, <2>1 DEF BadRecordLate
  <2>3. /\ OutOfOrder(HeldBy(t, b), b) <=> OutOfOrder(HeldBy(c, b), b)
        /\ BadCopy(t, HeldBy(t, b), b) <=> BadCopy(c, HeldBy(c, b), b)
    BY <1>1, <1>6, <1>9, StandingRules
  <2>4. ~ BadRecordEarly(t, b)
    BY <1>5, <2>1, <2>3 DEF BadRecordEarly, HeldBy
  <2> QED BY <1>3, <1>6, <1>9, <2>2, <2>4 DEF Refuses
<1>10. CASE b.kind \in {"discontinuity", "name"}
  BY <1>3, <1>6, <1>10 DEF Refuses
<1>11. CASE b.kind = "undecoded"
  <2>1. ~ BadUndecoded(c, b) /\ ~ (c.sources[b.source] = "zpf" /\ ~ Derived(c))
    BY <1>11 DEF Refuses
  <2>2. ~ BadUndecoded(t, b)
    BY <1>1, <1>5, <2>1 DEF BadUndecoded
  <2> QED BY <1>1, <1>3, <1>4, <1>11, <2>1, <2>2 DEF Refuses
<1>12. CASE b.kind = "sessionEnd"
  <2>1. ~ (b.extents # << >> /\ ~ Derived(c)) /\ Live(c, b) /\ BadStreams(c, b.sid) = {}
    BY <1>12 DEF Refuses
  <2>2. ASSUME NEW p \in Pids, t.streams[b.sid, p] # None
        PROVE  ~ BadStream(t.streams[b.sid, p])
    <3>1. SameStanding(c.streams[b.sid, p], t.streams[b.sid, p])
      BY <1>2, <2>1 DEF Live
    <3>2. c.streams[b.sid, p] # None
      BY <2>2, <3>1 DEF SameStanding
    <3>3. ~ BadStream(c.streams[b.sid, p])
      BY <2>1, <3>2 DEF BadStreams, StreamsOf
    <3> QED BY <1>1, <3>1, <3>2, <3>3, StandingRules
  <2>3. BadStreams(t, b.sid) = {}
    BY <2>2 DEF BadStreams, StreamsOf
  <2> QED BY <1>3, <1>4, <1>12, <2>1, <2>3 DEF Refuses
<1> QED BY <1>7, <1>8, <1>9, <1>10, <1>11, <1>12, OtherBlock

\* Only a header and an End block change what a checker makes of a block's place.
LEMMA AbsorbedPlace ==
    ASSUME NEW c \in CheckerType, NEW b \in BlockType, ~ Refuses(c, b)
    PROVE  /\ Absorbed(c, b).header =
                 IF b.kind = "header" THEN (IF b.derived THEN "derived" ELSE "plain") ELSE c.header
           /\ Absorbed(c, b).over = IF b.kind = "end" THEN TRUE ELSE c.over
<1>1. PICK d \in CheckerType : d = Handled(c, b)
  BY Handling
<1>2. PICK coverage \in [Keys -> LedgerType] : Covered(d, b) = [d EXCEPT !.coverage = coverage]
  BY Counting
<1>3. Absorbed(c, b).header = d.header /\ Absorbed(c, b).over = d.over
  <2>1. PICK e : e = [d EXCEPT !.coverage = coverage]
    OBVIOUS
  <2>2. e.header = d.header /\ e.over = d.over
    BY <1>1, <2>1 DEF CheckerType
  <2> QED BY <1>1, <1>2, <2>1, <2>2 DEF Absorbed
<1> SUFFICES /\ d.header = IF b.kind = "header" THEN (IF b.derived THEN "derived" ELSE "plain") ELSE c.header
             /\ d.over = IF b.kind = "end" THEN TRUE ELSE c.over
  BY <1>3
<1>4. CASE b.kind = "header"
  <2>1. PICK header : header = IF b.derived THEN "derived" ELSE "plain"
    OBVIOUS
  <2>2. d = [c EXCEPT !.header = header, !.digest = b.digest]
    BY <1>1, <1>4, <2>1 DEF Handled
  <2>3. d.header = header /\ d.over = c.over
    BY <2>2 DEF CheckerType
  <2> QED BY <1>4, <2>1, <2>3
<1>5. CASE b.kind \in {"source", "decoder", "session"}
  <2>1. PICK v : \/ d = [c EXCEPT !.sources = v]
                 \/ d = [c EXCEPT !.decoders = v]
                 \/ d = [c EXCEPT !.live = v]
    BY <1>1, <1>5 DEF Handled
  <2>2. d.header = c.header /\ d.over = c.over
    BY <2>1 DEF CheckerType
  <2> QED BY <1>5, <2>2
<1>6. CASE b.kind \in {"participant", "record", "discontinuity"}
  <2>1. CASE b.kind = "record"
    <3>1. PICK v, w : d = [c EXCEPT !.streams = v, !.zpfSourced = w]
      BY <1>1, <2>1 DEF Handled
    <3> QED BY <2>1, <3>1 DEF CheckerType
  <2>2. CASE b.kind \in {"participant", "discontinuity"}
    <3>1. PICK v : d = [c EXCEPT !.streams = v]
      BY <1>1, <2>2 DEF Handled
    <3> QED BY <2>2, <3>1 DEF CheckerType
  <2> QED BY <1>6, <2>1, <2>2
<1>7. CASE b.kind = "undecoded"
  <2>1. PICK holes, removed : d = [c EXCEPT !.holes = holes, !.removed = removed]
    <3>1. PICK holes \in SUBSET RegionType, removed \in SUBSET RegionType :
             WithRegion(c, b) = [c EXCEPT !.holes = holes, !.removed = removed]
      BY <1>7, WithRegionType
    <3>2. d = WithRegion(c, b)
      BY <1>1, <1>7 DEF Handled
    <3> QED BY <3>1, <3>2
  <2>2. d.header = c.header /\ d.over = c.over
    BY <2>1 DEF CheckerType
  <2> QED BY <1>7, <2>2
<1>8. CASE b.kind = "sessionEnd"
  <2>1. PICK live, ended, streams, breaks :
           d = [c EXCEPT !.live = live, !.ended = ended, !.streams = streams, !.breaks = breaks]
    BY <1>1, <1>8 DEF Handled, Closed
  <2>2. d.header = c.header /\ d.over = c.over
    BY <2>1 DEF CheckerType
  <2> QED BY <1>8, <2>2
<1>9. CASE b.kind = "end"
  <2>1. d = [c EXCEPT !.over = TRUE]
    BY <1>1, <1>9 DEF Handled
  <2>2. d.header = c.header /\ d.over = TRUE
    BY <2>1 DEF CheckerType
  <2> QED BY <1>9, <2>2
<1>10. CASE b.kind \in {"name", "custom"}
  BY <1>1, <1>10 DEF Handled
<1> QED BY <1>4, <1>5, <1>6, <1>7, <1>8, <1>9, <1>10, OtherBlock

\* A record sets the last hint and the last payload of its stream.
LEMMA RecordSets ==
    ASSUME NEW c \in CheckerType, NEW b \in BlockType, b.kind = "record", Declared(c, b)
    PROVE  /\ StreamAfter(c, b).lastSeq = IF b.seq = None THEN HeldBy(c, b).lastSeq ELSE b.seq
           /\ StreamAfter(c, b).payload = b.payload
<1>0. PICK stream : stream = HeldBy(c, b)
  OBVIOUS
<1>1. b.sid \in Sids /\ b.pid \in Pids /\ b.seq \in SeqNum \cup {None} /\ b.spans \in SUBSET SpanType
  BY RecordBlock
<1>2. stream \in StreamType
  BY <1>0, <1>1 DEF CheckerType, Declared, HeldBy
<1>3. PICK placed \in StreamType : placed = Anchored(stream, b)
  BY <1>1, <1>2, AnchoredType
<1>4. PICK reported \in StreamType : reported = Reported(c, placed, b)
  BY <1>1, <1>3, AnchoredType
<1>5. PICK tracked \in StreamType : tracked = Tracked(reported, b)
  BY <1>1, <1>4, TrackedType
<1>6. placed.lastSeq = stream.lastSeq
  BY <1>2, <1>3 DEF Anchored, StreamType
<1>7. reported.lastSeq = placed.lastSeq
  BY <1>3, <1>4 DEF Reported, StreamType
<1>8. tracked.lastSeq = reported.lastSeq
  <2>1. PICK candidates, reach : tracked = [reported EXCEPT !.candidates = candidates, !.reach = reach,
                                                            !.brokeSince = FALSE]
    BY <1>5 DEF Tracked
  <2> QED BY <1>4, <2>1 DEF StreamType
<1>9. PICK layers, lastSeq, anchored, copied :
         /\ lastSeq = IF b.seq = None THEN tracked.lastSeq ELSE b.seq
         /\ StreamAfter(c, b) =
              [tracked EXCEPT !.layers = layers, !.lastSeq = lastSeq, !.anchored = anchored,
                              !.copied = copied, !.payload = b.payload]
  BY <1>0, <1>3, <1>4, <1>5 DEF StreamAfter, HeldBy
<1>10. StreamAfter(c, b).lastSeq = lastSeq /\ StreamAfter(c, b).payload = b.payload
  BY <1>5, <1>9 DEF StreamType
<1> QED BY <1>0, <1>6, <1>7, <1>8, <1>9, <1>10

\* A record both accept leaves its stream in the same standing.
LEMMA RecordStanding ==
    ASSUME NEW c \in CheckerType, NEW t \in CheckerType, NEW b \in BlockType, b.kind = "record",
           Declared(c, b), Declared(t, b), ~ UnknownDecoder(c, b), ~ UnknownDecoder(t, b),
           t.decoders = c.decoders, SameStanding(HeldBy(c, b), HeldBy(t, b))
    PROVE  SameStanding(StreamAfter(c, b), StreamAfter(t, b))
<1>1. PICK x, y : x = StreamAfter(c, b) /\ y = StreamAfter(t, b)
  OBVIOUS
<1>2. x # None /\ y # None
  <2>1. x \in StreamType /\ y \in StreamType
    BY <1>1, StreamAfterType
  <2> QED BY <2>1, NoStreamAssumption
<1>3. Moves(c, b, HeldBy(c, b), x) /\ Moves(t, b, HeldBy(t, b), y)
  BY <1>1, StreamMoves
<1>4. HeldBy(c, b) # None
  BY DEF Declared, HeldBy
<1>5. LayerOf(t, b) = LayerOf(c, b)
  BY DEF LayerOf
<1>6. IsCopy(t, b) <=> IsCopy(c, b)
  BY <1>5 DEF IsCopy
<1>7. y.layers = x.layers /\ y.broken = x.broken
  BY <1>3, <1>4, <1>5 DEF Moves, SameStanding
<1>8. y.lastSeq = x.lastSeq /\ y.payload = x.payload
  BY <1>1, <1>4, RecordSets DEF SameStanding
<1>9. (y.anchored <=> x.anchored) /\ (y.copied <=> x.copied)
  BY <1>3, <1>4, <1>6 DEF Moves, SameStanding
<1>10. x.anchored \in BOOLEAN /\ y.anchored \in BOOLEAN /\ x.copied \in BOOLEAN /\ y.copied \in BOOLEAN
  <2>1. x \in StreamType /\ y \in StreamType
    BY <1>1, StreamAfterType
  <2> QED BY <2>1 DEF StreamType
<1>11. y.anchored = x.anchored /\ y.copied = x.copied
  BY <1>9, <1>10
<1> QED BY <1>1, <1>2, <1>7, <1>8, <1>11, Zenon DEF SameStanding

\* A block both accept keeps them together.
LEMMA TrailAbsorbs ==
    ASSUME NEW c \in CheckerType, NEW t \in CheckerType, NEW b \in BlockType,
           Trails(t, c), ~ Refuses(c, b)
    PROVE  Absorbed(t, b) \in CheckerType /\ Absorbed(c, b) \in CheckerType
           /\ Trails(Absorbed(t, b), Absorbed(c, b))
<1>0. ~ Refuses(t, b)
  BY TrailAccepts
<1>1. PICK d \in CheckerType : d = Absorbed(c, b)
  BY Absorption
<1>2. PICK e \in CheckerType : e = Absorbed(t, b)
  BY <1>0, Absorption
<1>3. /\ Declares(c, b, d) /\ Follows(c, b, d)
      /\ Declares(t, b, e) /\ Follows(t, b, e)
  BY <1>0, <1>1, <1>2, Absorption, AbsorbedFollows
<1>4. /\ t.header = c.header /\ t.over = c.over
      /\ t.sources = c.sources /\ t.decoders = c.decoders
      /\ c.live \subseteq t.live /\ t.live \cup t.ended = c.live \cup c.ended
  BY DEF Trails
<1>5. e.header = d.header /\ e.over = d.over
  <2>1. /\ d.header = IF b.kind = "header" THEN (IF b.derived THEN "derived" ELSE "plain") ELSE c.header
        /\ d.over = IF b.kind = "end" THEN TRUE ELSE c.over
    BY <1>1, AbsorbedPlace
  <2>2. /\ e.header = IF b.kind = "header" THEN (IF b.derived THEN "derived" ELSE "plain") ELSE t.header
        /\ e.over = IF b.kind = "end" THEN TRUE ELSE t.over
    BY <1>0, <1>2, AbsorbedPlace
  <2> QED BY <1>4, <2>1, <2>2
<1>6. e.sources = d.sources /\ e.decoders = d.decoders
  <2>1. /\ d.sources = IF b.kind = "source" THEN [c.sources EXCEPT ![b.id] = b.source] ELSE c.sources
        /\ d.decoders = IF b.kind = "decoder" THEN [c.decoders EXCEPT ![b.id] = b.layer] ELSE c.decoders
    BY <1>3, Zenon DEF Declares
  <2>2. /\ e.sources = IF b.kind = "source" THEN [t.sources EXCEPT ![b.id] = b.source] ELSE t.sources
        /\ e.decoders = IF b.kind = "decoder" THEN [t.decoders EXCEPT ![b.id] = b.layer] ELSE t.decoders
    BY <1>3, Zenon DEF Declares
  <2> QED BY <1>4, <2>1, <2>2
<1>7. /\ d.live = IF b.kind = "session" THEN c.live \cup {b.sid}
                  ELSE IF b.kind = "sessionEnd" THEN c.live \ {b.sid} ELSE c.live
      /\ e.live = IF b.kind = "session" THEN t.live \cup {b.sid}
                  ELSE IF b.kind = "sessionEnd" THEN t.live \ {b.sid} ELSE t.live
      /\ d.ended = IF b.kind = "sessionEnd" THEN c.ended \cup {b.sid} ELSE c.ended
      /\ e.ended = IF b.kind = "sessionEnd" THEN t.ended \cup {b.sid} ELSE t.ended
  BY <1>3, Zenon DEF Declares
<1>8. d.live \subseteq e.live /\ e.live \cup e.ended = d.live \cup d.ended
  BY <1>4, <1>7
<1>9. b.kind = "sessionEnd" => b.sid \in c.live
  BY DEF Refuses, Live
<1>10. b.kind = "session" => b.sid \notin c.live \cup c.ended
  BY DEF Refuses
<1>11. ASSUME NEW s \in Sids, NEW p \in Pids
       PROVE  /\ s \notin d.live => d.streams[s, p] = None
              /\ s \notin e.live => e.streams[s, p] = None
              /\ s \in d.live => SameStanding(d.streams[s, p], e.streams[s, p])
  <2>1. /\ s \notin c.live => c.streams[s, p] = None
        /\ s \notin t.live => t.streams[s, p] = None
        /\ s \in c.live => SameStanding(c.streams[s, p], t.streams[s, p])
    BY DEF Trails
  <2>2. CASE b.kind = "sessionEnd"
    <3>1. /\ d.streams[s, p] = IF s = b.sid THEN None ELSE c.streams[s, p]
          /\ e.streams[s, p] = IF s = b.sid THEN None ELSE t.streams[s, p]
      BY <1>3, <2>2 DEF Follows
    <3> QED BY <1>7, <2>1, <2>2, <3>1
  <2>3. CASE b.kind = "session"
    <3>1. d.streams = c.streams /\ e.streams = t.streams
      BY <1>3, <2>3 DEF Follows
    <3>2. b.sid \notin t.live
      BY <1>4, <1>10, <2>3
    <3>3. CASE s = b.sid
      <4>1. c.streams[s, p] = None /\ t.streams[s, p] = None
        BY <1>10, <2>1, <2>3, <3>2, <3>3
      <4> QED BY <3>1, <4>1 DEF SameStanding
    <3> QED BY <1>7, <2>1, <2>3, <3>1, <3>3
  <2>4. CASE b.kind \notin {"session", "sessionEnd", "participant", "record", "discontinuity"}
    <3>1. d.streams = c.streams /\ e.streams = t.streams
      BY <1>3, <2>4 DEF Follows
    <3>2. d.live = c.live /\ e.live = t.live
      BY <1>7, <2>4
    <3> QED BY <2>1, <3>1, <3>2
  <2>5. CASE b.kind \in {"participant", "record", "discontinuity"}
    <3>1. b.sid \in Sids /\ b.pid \in Pids
      BY <2>5, DescriptorBlock, RecordBlock, OtherBlock
    <3>2. b.sid \in c.live
      BY <2>5 DEF Refuses, Declared, Live
    <3>3. d.live = c.live /\ e.live = t.live
      BY <1>7, <2>5
    <3>4. PICK v, w : /\ d.streams = [c.streams EXCEPT ![<<b.sid, b.pid>>] = v]
                      /\ e.streams = [t.streams EXCEPT ![<<b.sid, b.pid>>] = w]
                      /\ SameStanding(v, w)
      <4>1. CASE b.kind = "participant"
        <5>1. /\ d.streams = [c.streams EXCEPT ![<<b.sid, b.pid>>] = NewStream(b.isn, b.adjacency)]
              /\ e.streams = [t.streams EXCEPT ![<<b.sid, b.pid>>] = NewStream(b.isn, b.adjacency)]
          BY <1>3, <4>1 DEF Follows
        <5>2. SameStanding(NewStream(b.isn, b.adjacency), NewStream(b.isn, b.adjacency))
          BY Zenon DEF SameStanding
        <5> QED BY <5>1, <5>2
      <4>2. CASE b.kind = "record"
        <5>1. /\ d.streams = [c.streams EXCEPT ![<<b.sid, b.pid>>] = StreamAfter(c, b)]
              /\ e.streams = [t.streams EXCEPT ![<<b.sid, b.pid>>] = StreamAfter(t, b)]
          BY <1>3, <4>2 DEF Follows
        <5>2. /\ Declared(c, b) /\ ~ UnknownDecoder(c, b)
              /\ Declared(t, b) /\ ~ UnknownDecoder(t, b)
          BY <1>0, <4>2 DEF Refuses, BadRecordEarly
        <5>3. SameStanding(HeldBy(c, b), HeldBy(t, b))
          BY <3>1, <3>2 DEF Trails, HeldBy
        <5>4. SameStanding(StreamAfter(c, b), StreamAfter(t, b))
          BY <1>4, <4>2, <5>2, <5>3, RecordStanding
        <5> QED BY <5>1, <5>4
      <4>3. CASE b.kind = "discontinuity"
        <5>1. PICK x, y : x = HeldBy(c, b) /\ y = HeldBy(t, b)
          OBVIOUS
        <5>2. x # None /\ y # None
          BY <1>0, <4>3, <5>1 DEF Refuses, Declared, HeldBy
        <5>3. x \in StreamType /\ y \in StreamType
          <6>1. /\ c.streams[b.sid, b.pid] \in StreamType \cup {None}
                /\ t.streams[b.sid, b.pid] \in StreamType \cup {None}
            BY <3>1 DEF CheckerType
          <6> QED BY <5>1, <5>2, <6>1 DEF HeldBy
        <5>4. SameStanding(x, y)
          BY <3>1, <3>2, <5>1 DEF Trails, HeldBy
        <5>5. PICK v \in StreamType, w \in StreamType :
                 /\ v = [x EXCEPT !.broken = TRUE, !.brokeSince = TRUE]
                 /\ w = [y EXCEPT !.broken = TRUE, !.brokeSince = TRUE]
          BY <5>3 DEF StreamType
        <5>6. SameStanding(v, w)
          <6>1. v # None /\ w # None
            BY <5>5, NoStreamAssumption
          <6>2. /\ v.layers = x.layers /\ v.broken = TRUE /\ v.lastSeq = x.lastSeq
                /\ v.payload = x.payload /\ v.anchored = x.anchored /\ v.copied = x.copied
            BY <5>3, <5>5 DEF StreamType
          <6>3. /\ w.layers = y.layers /\ w.broken = TRUE /\ w.lastSeq = y.lastSeq
                /\ w.payload = y.payload /\ w.anchored = y.anchored /\ w.copied = y.copied
            BY <5>3, <5>5 DEF StreamType
          <6> QED BY <5>2, <5>4, <6>1, <6>2, <6>3, Zenon DEF SameStanding
        <5>7. /\ d.streams = [c.streams EXCEPT ![<<b.sid, b.pid>>] = v]
              /\ e.streams = [t.streams EXCEPT ![<<b.sid, b.pid>>] = w]
          <6>1. /\ d.streams = [c.streams EXCEPT ![<<b.sid, b.pid>>] = [@ EXCEPT !.broken = TRUE, !.brokeSince = TRUE]]
                /\ e.streams = [t.streams EXCEPT ![<<b.sid, b.pid>>] = [@ EXCEPT !.broken = TRUE, !.brokeSince = TRUE]]
            BY <1>3, <4>3 DEF Follows
          <6> QED BY <5>1, <5>5, <6>1 DEF HeldBy
        <5> QED BY <5>6, <5>7
      <4> QED BY <2>5, <4>1, <4>2, <4>3
    <3>5. CASE s = b.sid /\ p = b.pid
      <4>1. d.streams[s, p] = v /\ e.streams[s, p] = w
        BY <3>4, <3>5 DEF CheckerType
      <4> QED BY <1>4, <3>2, <3>3, <3>4, <3>5, <4>1
    <3>6. CASE ~ (s = b.sid /\ p = b.pid)
      <4>1. d.streams[s, p] = c.streams[s, p] /\ e.streams[s, p] = t.streams[s, p]
        BY <3>4, <3>6 DEF CheckerType
      <4> QED BY <2>1, <3>3, <4>1
    <3> QED BY <3>5, <3>6
  <2> QED BY <2>2, <2>3, <2>4, <2>5
<1>12. Trails(e, d)
  BY <1>5, <1>6, <1>8, <1>11 DEF Trails
<1> QED BY <1>1, <1>2, <1>12

\* From c to d, a refused block may have changed where a record would be placed, may
\* have said that content is lost, and may have ended its session, and nothing else the
\* rules read.
LeavesBehind(c, b, d) ==
    /\ d.header = c.header /\ d.over = c.over
    /\ \/ /\ d.live = c.live /\ d.ended = c.ended
          /\ \A s \in Sids, p \in Pids : SameStanding(d.streams[s, p], c.streams[s, p])
       \/ /\ b.kind = "sessionEnd" /\ b.sid \in c.live
          /\ d.live = c.live \ {b.sid} /\ d.ended = c.ended \cup {b.sid}
          /\ \A s \in Sids, p \in Pids : d.streams[s, p] = IF s = b.sid THEN None ELSE c.streams[s, p]

LEMMA LeftStanding ==
    ASSUME NEW c \in CheckerType, NEW b \in BlockType
    PROVE  LeavesBehind(c, b, Left(c, b))
<1> SUFFICES ASSUME NEW d, d = Left(c, b) PROVE LeavesBehind(c, b, d)
  OBVIOUS
<1>0. \A x : SameStanding(x, x)
  BY Zenon DEF SameStanding
<1>1. CASE d = c
  BY <1>0, <1>1 DEF LeavesBehind
<1>2. CASE b.kind = "record" /\ Declared(c, b) /\ d # c
  <2>1. b.sid \in Sids /\ b.pid \in Pids /\ b.seq \in SeqNum \cup {None}
    BY <1>2, RecordBlock
  <2>2. PICK x \in StreamType : x = c.streams[b.sid, b.pid]
    BY <1>2, <2>1 DEF CheckerType, Declared
  <2>3. PICK placed \in StreamType : placed = Anchored(x, b)
    BY <2>1, <2>2, AnchoredType
  <2>4. PICK y \in StreamType :
           y = IF BadRecordEarly(c, b) THEN placed ELSE Reported(c, placed, b)
    BY <2>1, <2>3, AnchoredType
  <2>5. d = [c EXCEPT !.streams = [c.streams EXCEPT ![<<b.sid, b.pid>>] = y]]
    BY <1>2, <2>2, <2>3, <2>4 DEF Left
  <2>6. SameStanding(y, x)
    <3>1. /\ placed.layers = x.layers /\ placed.broken = x.broken /\ placed.lastSeq = x.lastSeq
          /\ placed.payload = x.payload /\ placed.anchored = x.anchored /\ placed.copied = x.copied
      BY <2>2, <2>3 DEF Anchored, StreamType
    <3>2. /\ y.layers = placed.layers /\ y.broken = placed.broken /\ y.lastSeq = placed.lastSeq
          /\ y.payload = placed.payload /\ y.anchored = placed.anchored /\ y.copied = placed.copied
      BY <2>3, <2>4 DEF Reported, StreamType
    <3>3. x # None /\ y # None
      BY <2>2, <2>4, NoStreamAssumption
    <3> QED BY <3>1, <3>2, <3>3, Zenon DEF SameStanding
  <2>7. PICK streams : streams = [c.streams EXCEPT ![<<b.sid, b.pid>>] = y]
    OBVIOUS
  <2>8. /\ d.header = c.header /\ d.over = c.over /\ d.live = c.live /\ d.ended = c.ended
        /\ d.streams = streams
    BY <2>5, <2>7 DEF CheckerType
  <2>9. ASSUME NEW s \in Sids, NEW p \in Pids PROVE SameStanding(streams[s, p], c.streams[s, p])
    <3>1. streams[s, p] = IF s = b.sid /\ p = b.pid THEN y ELSE c.streams[s, p]
      BY <2>1, <2>7 DEF CheckerType
    <3> QED BY <1>0, <2>2, <2>6, <3>1
  <2> QED BY <2>8, <2>9 DEF LeavesBehind
<1>3. CASE b.kind = "undecoded" /\ d = WithRegion(c, b)
  <2>1. PICK holes \in SUBSET RegionType, removed \in SUBSET RegionType :
           WithRegion(c, b) = [c EXCEPT !.holes = holes, !.removed = removed]
    BY <1>3, WithRegionType
  <2>2. d = [c EXCEPT !.holes = holes, !.removed = removed]
    BY <1>3, <2>1
  <2>3. /\ d.header = c.header /\ d.over = c.over /\ d.live = c.live /\ d.ended = c.ended
        /\ d.streams = c.streams
    BY <2>2 DEF CheckerType
  <2> QED BY <1>0, <2>3 DEF LeavesBehind
<1>4. CASE b.kind = "sessionEnd" /\ d = Closed(c, b.sid) /\ Live(c, b)
  <2>1. b.sid \in Sids
    BY <1>4, OtherBlock
  <2>2. PICK live, ended, streams :
           /\ live = c.live \ {b.sid} /\ ended = c.ended \cup {b.sid}
           /\ streams = [sp \in Sids \X Pids |-> IF sp[1] = b.sid THEN None ELSE c.streams[sp]]
    OBVIOUS
  <2>3. PICK breaks : d = [c EXCEPT !.live = live, !.ended = ended, !.streams = streams, !.breaks = breaks]
    BY <1>4, <2>2 DEF Closed
  <2>4. /\ d.header = c.header /\ d.over = c.over /\ d.live = live /\ d.ended = ended
        /\ d.streams = streams
    BY <2>3 DEF CheckerType
  <2>5. \A s \in Sids, p \in Pids : streams[s, p] = IF s = b.sid THEN None ELSE c.streams[s, p]
    BY <2>2
  <2>6. b.kind = "sessionEnd" /\ b.sid \in c.live
    BY <1>4 DEF Live
  <2>7. /\ d.live = c.live \ {b.sid} /\ d.ended = c.ended \cup {b.sid}
        /\ \A s \in Sids, p \in Pids : d.streams[s, p] = IF s = b.sid THEN None ELSE c.streams[s, p]
    <3>1. d.live = c.live \ {b.sid} /\ d.ended = c.ended \cup {b.sid}
      BY ONLY <2>2, <2>4
    <3>2. \A s \in Sids, p \in Pids : d.streams[s, p] = IF s = b.sid THEN None ELSE c.streams[s, p]
      BY ONLY <2>4, <2>5
    <3> QED BY ONLY <3>1, <3>2
  <2> QED BY <2>4, <2>6, <2>7, Zenon DEF LeavesBehind
<1>5. \/ d = c
      \/ b.kind = "record" /\ Declared(c, b)
      \/ b.kind = "undecoded" /\ d = WithRegion(c, b)
      \/ b.kind = "sessionEnd" /\ d = Closed(c, b.sid) /\ Live(c, b)
  BY DEF Left
<1> QED BY <1>1, <1>2, <1>3, <1>4, <1>5

\* What one refuses and the other never sees keeps them together.
LEMMA TrailLeaves ==
    ASSUME NEW c \in CheckerType, NEW t \in CheckerType, NEW b \in BlockType, Trails(t, c)
    PROVE  Left(c, b) \in CheckerType /\ Trails(t, Left(c, b))
<1>1. PICK d \in CheckerType : d = Left(c, b)
  BY Refusal
<1>2. d.sources = c.sources /\ d.decoders = c.decoders
  BY <1>1, Refusal
<1>3. /\ t.header = c.header /\ t.over = c.over
      /\ t.sources = c.sources /\ t.decoders = c.decoders
      /\ c.live \subseteq t.live /\ t.live \cup t.ended = c.live \cup c.ended
  BY DEF Trails
<1>9. LeavesBehind(c, b, d)
  BY <1>1, LeftStanding
<1>4. d.header = c.header /\ d.over = c.over
  BY <1>9 DEF LeavesBehind
<1>5. \/ /\ d.live = c.live /\ d.ended = c.ended
         /\ \A s \in Sids, p \in Pids : SameStanding(d.streams[s, p], c.streams[s, p])
      \/ /\ b.kind = "sessionEnd" /\ b.sid \in c.live
         /\ d.live = c.live \ {b.sid} /\ d.ended = c.ended \cup {b.sid}
         /\ \A s \in Sids, p \in Pids : d.streams[s, p] = IF s = b.sid THEN None ELSE c.streams[s, p]
  BY <1>9 DEF LeavesBehind
<1>6. d.live \subseteq t.live /\ t.live \cup t.ended = d.live \cup d.ended
  BY <1>3, <1>5
<1>7. ASSUME NEW s \in Sids, NEW p \in Pids
      PROVE  /\ s \notin d.live => d.streams[s, p] = None
             /\ s \notin t.live => t.streams[s, p] = None
             /\ s \in d.live => SameStanding(d.streams[s, p], t.streams[s, p])
  <2>1. /\ s \notin c.live => c.streams[s, p] = None
        /\ s \notin t.live => t.streams[s, p] = None
        /\ s \in c.live => SameStanding(c.streams[s, p], t.streams[s, p])
    BY DEF Trails
  <2>2. CASE d.live = c.live /\ SameStanding(d.streams[s, p], c.streams[s, p])
    <3>1. s \notin c.live => d.streams[s, p] = None
      BY <2>1, <2>2, Zenon DEF SameStanding
    <3>2. s \in c.live => SameStanding(d.streams[s, p], t.streams[s, p])
      BY <2>1, <2>2, Zenon DEF SameStanding
    <3> QED BY <2>1, <2>2, <3>1, <3>2
  <2>3. CASE d.live = c.live \ {b.sid} /\ d.streams[s, p] = IF s = b.sid THEN None ELSE c.streams[s, p]
    BY <2>1, <2>3
  <2> QED BY <1>5, <2>2, <2>3
<1>8. Trails(t, d)
  BY <1>2, <1>3, <1>4, <1>6, <1>7 DEF Trails
<1> QED BY <1>1, <1>8

-------------------------------------------------------------------------------
(* The stored order of streams shorter than half the sequence space *)

\* How far x is past base, and whether it lies in the half space from there.
Past(base, x) == (x - base) % SeqSpace

InWindow(base, x) == x \in SeqNum /\ Past(base, x) < SeqHighBit

LEMMA ModNear ==
    ASSUME NEW x \in Int, x < SeqSpace, x + SeqSpace >= 0
    PROVE  x % SeqSpace = IF x >= 0 THEN x ELSE x + SeqSpace
<1>1. SeqSpace \in Nat /\ SeqSpace > 0
  BY SeqSpaceAssumption
<1> QED BY <1>1

\* In a window the serial order is that of the distances from its base.
LEMMA WindowDelta ==
    ASSUME NEW base \in SeqNum, NEW a, InWindow(base, a), NEW b, InWindow(base, b)
    PROVE  /\ Past(base, a) \in Nat
           /\ SerialDelta(a, b) = Past(base, a) - Past(base, b)
           /\ SeqLeq(a, b) <=> Past(base, a) <= Past(base, b)
<1>1. /\ SeqSpace \in Nat /\ SeqHighBit \in Nat /\ SeqSpace = SeqHighBit + SeqHighBit /\ SeqHighBit > 0
      /\ a \in Int /\ b \in Int /\ base \in Int
      /\ 0 <= a /\ a < SeqSpace /\ 0 <= b /\ b < SeqSpace /\ 0 <= base /\ base < SeqSpace
  BY SeqSpaceAssumption DEF InWindow, SeqNum, SeqHighBit
<1>2. /\ Past(base, a) = IF a >= base THEN a - base ELSE a - base + SeqSpace
      /\ Past(base, b) = IF b >= base THEN b - base ELSE b - base + SeqSpace
      /\ (a - b) % SeqSpace = IF a >= b THEN a - b ELSE a - b + SeqSpace
  <2>1. /\ a - base \in Int /\ a - base < SeqSpace /\ (a - base) + SeqSpace >= 0
        /\ b - base \in Int /\ b - base < SeqSpace /\ (b - base) + SeqSpace >= 0
        /\ a - b \in Int /\ a - b < SeqSpace /\ (a - b) + SeqSpace >= 0
        /\ (a - base >= 0 <=> a >= base) /\ (b - base >= 0 <=> b >= base) /\ (a - b >= 0 <=> a >= b)
    BY ONLY <1>1
  <2>2. (a - base) % SeqSpace = IF a - base >= 0 THEN a - base ELSE (a - base) + SeqSpace
    BY <2>1, ModNear
  <2>3. (b - base) % SeqSpace = IF b - base >= 0 THEN b - base ELSE (b - base) + SeqSpace
    BY <2>1, ModNear
  <2>4. (a - b) % SeqSpace = IF a - b >= 0 THEN a - b ELSE (a - b) + SeqSpace
    BY <2>1, ModNear
  <2> QED BY ONLY <2>1, <2>2, <2>3, <2>4 DEF Past
<1>3. Past(base, a) < SeqHighBit /\ Past(base, b) < SeqHighBit
  BY DEF InWindow
<1>4. PICK pa, pb, m : pa = Past(base, a) /\ pb = Past(base, b) /\ m = (a - b) % SeqSpace
  OBVIOUS
<1>5. /\ pa \in Nat /\ pb \in Nat /\ m \in Nat
      /\ m >= SeqHighBit <=> pa < pb
      /\ m >= SeqHighBit => m - SeqSpace = pa - pb
      /\ m < SeqHighBit => m = pa - pb
      /\ a = b <=> pa = pb
  BY ONLY <1>1, <1>2, <1>3, <1>4
<1>6. SerialDelta(a, b) = pa - pb
  BY <1>1, <1>4, <1>5 DEF SerialDelta
<1>7. SeqLeq(a, b) <=> pa <= pb
  BY <1>1, <1>4, <1>5 DEF SeqLeq, SeqLt
<1> QED BY <1>4, <1>5, <1>6, <1>7

\* The sequence number of a declared stream's first byte.
Origins(isn) == IF isn = None THEN {} ELSE {(isn + 1) % SeqSpace}

\* A placer that has gone through the sequence numbers of S stands at the furthest of
\* them, or at the declared origin while none of them is past it.
PlacedAs(base, isn, S, lastSeq, placer) ==
    /\ lastSeq = None <=> S = {}
    /\ lastSeq # None => lastSeq \in S /\ \A x \in S : Past(base, x) <= Past(base, lastSeq)
    /\ placer.origin = None <=> S \cup Origins(isn) = {}
    /\ placer.origin # None =>
          /\ placer.origin \in S \cup Origins(isn) /\ placer.value \in S \cup Origins(isn)
          /\ \A x \in S \cup Origins(isn) : Past(base, x) <= Past(base, placer.value)
          /\ placer.position = Past(base, placer.value) - Past(base, placer.origin)

\* A walk over the acks of A has been as far as the furthest of them.
WalkedAs(base, A, walk) ==
    /\ walk.first = None <=> A = {}
    /\ walk.first # None =>
          /\ walk.first \in A /\ walk.value \in A
          /\ walk.position = Past(base, walk.value) - Past(base, walk.first)
          /\ \E a \in A : walk.highest = Past(base, a) - Past(base, walk.first)
          /\ \A a \in A : Past(base, a) - Past(base, walk.first) <= walk.highest

\* A record of sequence number seq comes behind a later one of its stream.
Behind(base, S, seq) == seq # None /\ \E x \in S : Past(base, seq) < Past(base, x)

\* A record is stored behind an ack that covers all it has.
Overtaken(base, isn, A, rec) ==
    /\ rec.seq # None /\ SequenceEnd(rec, 0) # None
    /\ \A x \in Origins(isn) : Past(base, x) <= Past(base, rec.seq)
    /\ \E a \in A : Past(base, rec.seq) + SequenceEnd(rec, 0) <= Past(base, a)

\* All of S lies in the half space from base.
AllIn(base, S) == \A x \in S : InWindow(base, x)

LEMMA PrecedesIsBehind ==
    ASSUME NEW base \in SeqNum, NEW isn, NEW S, AllIn(base, S), NEW lastSeq, NEW placer,
           PlacedAs(base, isn, S, lastSeq, placer),
           NEW seq, InWindow(base, seq), seq # None
    PROVE  (lastSeq # None /\ ~ SeqLeq(lastSeq, seq)) <=> Behind(base, S, seq)
<1>1. CASE lastSeq = None
  BY <1>1 DEF PlacedAs, Behind
<1>2. CASE lastSeq # None
  <2>1. lastSeq \in S /\ \A x \in S : Past(base, x) <= Past(base, lastSeq)
    BY <1>2 DEF PlacedAs
  <2>2. InWindow(base, lastSeq)
    BY <2>1 DEF AllIn
  <2>3. Past(base, seq) \in Nat /\ Past(base, lastSeq) \in Nat
    BY <2>2, WindowDelta
  <2>4. SeqLeq(lastSeq, seq) <=> Past(base, lastSeq) <= Past(base, seq)
    BY <2>2, WindowDelta
  <2>5. \A x \in S : Past(base, x) \in Nat
    BY WindowDelta DEF AllIn
  <2>6. PICK l \in Nat, n \in Nat : l = Past(base, lastSeq) /\ n = Past(base, seq)
    BY <2>3
  <2>7. Behind(base, S, seq) <=> n < l
    <3>1. Behind(base, S, seq) => n < l
      <4>1. ASSUME NEW x \in S, n < Past(base, x)
            PROVE  n < l
        BY ONLY <2>1, <2>5, <2>6, <4>1
      <4> QED BY <2>6, <4>1 DEF Behind
    <3>2. n < l => Behind(base, S, seq)
      BY <2>1, <2>6 DEF Behind
    <3> QED BY <3>1, <3>2
  <2> QED BY <1>2, <2>4, <2>6, <2>7
<1> QED BY <1>1, <1>2

\* Placing a record that is not behind the others.
LEMMA PlacedKeepsTrack ==
    ASSUME NEW base \in SeqNum, NEW isn \in SeqNum \cup {None}, AllIn(base, Origins(isn)),
           NEW S, AllIn(base, S), NEW lastSeq, NEW placer \in PlacerType,
           PlacedAs(base, isn, S, lastSeq, placer),
           NEW rec \in RecordType, rec.seq # None => InWindow(base, rec.seq),
           ~ Behind(base, S, rec.seq)
    PROVE  PlacedAs(base, isn, S \cup ({rec.seq} \ {None}),
                    IF rec.seq = None THEN lastSeq ELSE rec.seq, Placed(placer, rec))
<1>1. CASE rec.seq = None
  <2>1. Placed(placer, rec) = placer /\ {rec.seq} \ {None} = {}
    BY <1>1 DEF Placed, OffsetOf, Started
  <2>2. S \cup ({rec.seq} \ {None}) = S
    BY <2>1
  <2> QED BY <1>1, <2>1, <2>2
<1>2. CASE rec.seq # None
  <2>1. PICK seq \in SeqNum : seq = rec.seq /\ seq # None
    BY <1>2 DEF RecordType
  <2>2. PICK T : T = S \cup {seq}
    OBVIOUS
  <2>3. T = S \cup ({rec.seq} \ {None})
    BY <2>1, <2>2
  <2>4. InWindow(base, seq) /\ AllIn(base, T) /\ AllIn(base, T \cup Origins(isn))
    BY <2>1, <2>2 DEF AllIn
  <2>5. \A x \in T \cup Origins(isn) : Past(base, x) \in Nat
    BY <2>4, WindowDelta DEF AllIn
  <2>6. \A x \in T : Past(base, x) <= Past(base, seq)
    <3>1. \A x \in S : ~ (Past(base, seq) < Past(base, x))
      BY <2>1 DEF Behind
    <3> QED BY <2>2, <2>5, <3>1
  <2>7. PICK at \in PlacerType : at = Started(placer, rec) /\ at.origin # None
    <3>1. Started(placer, rec) \in PlacerType
      BY StartedType
    <3>2. Started(placer, rec).origin # None
      BY <1>2 DEF Started, PlacerAt
    <3> QED BY <3>1, <3>2
  <2>8. /\ at.origin \in T \cup Origins(isn) /\ at.value \in T \cup Origins(isn)
        /\ at.position = Past(base, at.value) - Past(base, at.origin)
        /\ \A x \in (T \ {seq}) \cup Origins(isn) : Past(base, x) <= Past(base, at.value)
        /\ \A x \in Origins(isn) : Past(base, x) <= Past(base, at.value)
    <3>1. CASE placer.origin = None
      <4>1. S = {} /\ Origins(isn) = {}
        BY <3>1 DEF PlacedAs
      <4>2. at.origin = seq /\ at.value = seq /\ at.position = 0
        BY <2>1, <2>7, <3>1 DEF Started, PlacerAt
      <4>3. Past(base, seq) - Past(base, seq) = 0
        BY <2>2, <2>5
      <4> QED BY <2>2, <4>1, <4>2, <4>3
    <3>2. CASE placer.origin # None
      <4>1. at = placer
        BY <2>7, <3>2 DEF Started
      <4> QED BY <2>2, <3>2, <4>1 DEF PlacedAs
    <3> QED BY <3>1, <3>2
  <2>9. PICK v \in Nat, n \in Nat, o \in Nat :
          v = Past(base, at.value) /\ n = Past(base, seq) /\ o = Past(base, at.origin)
    BY <2>2, <2>5, <2>8
  <2>10. SerialDelta(seq, at.value) = n - v
    BY <2>4, <2>8, <2>9, WindowDelta DEF AllIn
  <2>11. PICK new : new = Placed(placer, rec)
    OBVIOUS
  <2>12. CASE n < v
    <3>1. OffsetOf(placer, rec) = None
      BY <2>1, <2>7, <2>9, <2>10, <2>12 DEF OffsetOf
    <3>2. new = at
      BY <2>7, <2>11, <3>1 DEF Placed
    <3>3. \A x \in T \cup Origins(isn) : Past(base, x) <= v
      BY <2>6, <2>8, <2>9, <2>12
    <3>4. T # {} /\ seq \in T
      BY <2>2
    <3>5. PlacedAs(base, isn, T, seq, new)
      BY <2>1, <2>6, <2>7, <2>8, <2>9, <3>2, <3>3, <3>4 DEF PlacedAs
    <3> QED BY <2>1, <2>3, <2>11, <3>5
  <2>13. CASE v <= n
    <3>1. OffsetOf(placer, rec) = at.position + (n - v) /\ at.position + (n - v) \in Int
      <4>1. at.position \in Nat
        BY <2>7 DEF PlacerType
      <4> QED BY <2>1, <2>7, <2>9, <2>10, <2>13, <4>1 DEF OffsetOf
    <3>2. OffsetOf(placer, rec) = n - o
      BY <2>8, <2>9, <3>1
    <3>3. OffsetOf(placer, rec) # None
      BY <3>1, NoneAssumption
    <3>4. new = [at EXCEPT !.value = seq, !.position = n - o]
      BY <2>1, <2>7, <2>11, <3>2, <3>3 DEF Placed
    <3>5. new.origin = at.origin /\ new.value = seq /\ new.position = n - o
      BY <2>7, <3>4 DEF PlacerType
    <3>6. \A x \in T \cup Origins(isn) : Past(base, x) <= n
      <4>1. \A x \in T : Past(base, x) <= n
        BY <2>6, <2>9
      <4>2. \A x \in Origins(isn) : Past(base, x) <= v /\ Past(base, x) \in Nat
        BY <2>5, <2>8, <2>9
      <4> QED BY <2>13, <4>1, <4>2
    <3>7. T # {} /\ seq \in T
      BY <2>2
    <3>8. PlacedAs(base, isn, T, seq, new)
      BY <2>1, <2>6, <2>7, <2>8, <2>9, <3>5, <3>6, <3>7 DEF PlacedAs
    <3> QED BY <2>1, <2>3, <2>11, <3>8
  <2> QED BY <2>9, <2>12, <2>13
<1> QED BY <1>1, <1>2

\* One more ack.
LEMMA AckKeepsTrack ==
    ASSUME NEW base \in SeqNum, NEW A, AllIn(base, A), NEW walk \in AckWalkType,
           WalkedAs(base, A, walk), NEW ack \in SeqNum, InWindow(base, ack)
    PROVE  WalkedAs(base, A \cup {ack}, AckObserved(walk, ack))
<1>1. \A a \in A \cup {ack} : InWindow(base, a) /\ Past(base, a) \in Nat
  BY WindowDelta DEF AllIn
<1>2. PICK new : new = AckObserved(walk, ack)
  OBVIOUS
<1>3. ack # None
  BY NoneAssumption DEF SeqNum
<1>4. CASE walk.first = None
  <2>1. A = {}
    BY <1>4 DEF WalkedAs
  <2>2. new.first = ack /\ new.value = ack /\ new.position = 0 /\ new.highest = 0
    BY <1>2, <1>4 DEF AckObserved
  <2>3. Past(base, ack) - Past(base, ack) = 0
    BY <1>1
  <2>4. WalkedAs(base, {ack}, new)
    BY <1>3, <2>2, <2>3 DEF WalkedAs
  <2> QED BY <1>2, <2>1, <2>4
<1>5. CASE walk.first # None
  <2>1. PICK f \in Nat, v \in Nat, n \in Nat :
          f = Past(base, walk.first) /\ v = Past(base, walk.value) /\ n = Past(base, ack)
    BY <1>1, <1>5 DEF WalkedAs
  <2>2. walk.first \in A /\ walk.value \in A /\ walk.position = v - f
    BY <1>5, <2>1 DEF WalkedAs
  <2>3. SerialDelta(ack, walk.value) = n - v
    BY <1>1, <2>1, <2>2, WindowDelta
  <2>4. PICK h \in Int : h = walk.highest
    BY DEF AckWalkType
  <2>5. /\ \E a \in A : h = Past(base, a) - f
        /\ \A a \in A : Past(base, a) - f <= h
    BY <1>5, <2>1, <2>4 DEF WalkedAs
  <2>6. walk.position + SerialDelta(ack, walk.value) = n - f
    BY <2>2, <2>3
  <2>7. new = [walk EXCEPT !.value = ack, !.position = n - f, !.highest = IF n - f > h THEN n - f ELSE h]
    BY <1>2, <1>5, <2>4, <2>6 DEF AckObserved
  <2>8. /\ new.first = walk.first /\ new.value = ack /\ new.position = n - f
        /\ new.highest = IF n - f > h THEN n - f ELSE h
    BY <2>7 DEF AckWalkType
  <2>9. /\ \E a \in A \cup {ack} : new.highest = Past(base, a) - f
        /\ \A a \in A \cup {ack} : Past(base, a) - f <= new.highest
    BY <1>1, <2>1, <2>4, <2>5, <2>8
  <2> QED BY <1>2, <1>5, <2>1, <2>2, <2>8, <2>9 DEF WalkedAs
<1> QED BY <1>4, <1>5

\* Where the end of a record that is not behind the others lies, and what an ack
\* walked so far says of it: the origins cancel out.
LEMMA AckedIsOvertaken ==
    ASSUME NEW base \in SeqNum, NEW isn \in SeqNum \cup {None}, AllIn(base, Origins(isn)),
           NEW S, AllIn(base, S), NEW lastSeq, NEW placer \in PlacerType,
           PlacedAs(base, isn, S, lastSeq, placer),
           NEW rec \in RecordType, rec.seq # None => InWindow(base, rec.seq),
           ~ Behind(base, S, rec.seq),
           NEW A, AllIn(base, A), NEW walk \in AckWalkType, WalkedAs(base, A, walk)
    PROVE  LET end == SequenceEnd(rec, OffsetOf(placer, rec))
           IN  (/\ end # None /\ walk.first # None
                /\ end <= AckPosition(walk, walk.highest, Started(placer, rec).origin))
               <=> Overtaken(base, isn, A, rec)
<1> DEFINE end == SequenceEnd(rec, OffsetOf(placer, rec))
<1>1. CASE rec.seq = None
  <2>1. end = None
    BY <1>1 DEF OffsetOf, SequenceEnd
  <2> QED BY <1>1, <2>1 DEF Overtaken
<1>2. CASE rec.seq # None
  <2>1. PICK seq \in SeqNum : seq = rec.seq
    BY <1>2 DEF RecordType
  <2>2. PICK T : T = S \cup Origins(isn) \cup {seq}
    OBVIOUS
  <2>3. \A x \in T : InWindow(base, x) /\ Past(base, x) \in Nat
    BY <1>2, <2>1, <2>2, WindowDelta DEF AllIn
  <2>4. PICK at \in PlacerType : at = Started(placer, rec) /\ at.origin # None
    <3>1. Started(placer, rec) \in PlacerType
      BY StartedType
    <3>2. Started(placer, rec).origin # None
      BY <1>2 DEF Started, PlacerAt
    <3> QED BY <3>1, <3>2
  <2>5. /\ at.origin \in T /\ at.value \in T
        /\ at.position = Past(base, at.value) - Past(base, at.origin)
        /\ at.value \in S \cup Origins(isn) \/ (at.value = seq /\ Origins(isn) = {})
        /\ \A x \in Origins(isn) : Past(base, x) <= Past(base, at.value)
    <3>1. CASE placer.origin = None
      <4>1. S = {} /\ Origins(isn) = {}
        BY <3>1 DEF PlacedAs
      <4>2. at.origin = seq /\ at.value = seq /\ at.position = 0
        BY <1>2, <2>1, <2>4, <3>1 DEF Started, PlacerAt
      <4>3. Past(base, seq) - Past(base, seq) = 0
        BY <2>2, <2>3
      <4> QED BY <2>2, <4>1, <4>2, <4>3
    <3>2. CASE placer.origin # None
      <4>1. at = placer
        BY <2>4, <3>2 DEF Started
      <4> QED BY <2>2, <3>2, <4>1 DEF PlacedAs
    <3> QED BY <3>1, <3>2
  <2>6. PICK v \in Nat, n \in Nat, o \in Nat :
          v = Past(base, at.value) /\ n = Past(base, seq) /\ o = Past(base, at.origin)
    BY <2>2, <2>3, <2>5
  <2>7. SerialDelta(seq, at.value) = n - v
    BY <2>2, <2>3, <2>5, <2>6, WindowDelta
  <2>8. \A x \in S : Past(base, x) <= n
    <3>1. \A x \in S : ~ (n < Past(base, x)) /\ Past(base, x) \in Nat
      BY <1>2, <2>1, <2>2, <2>3, <2>6 DEF Behind
    <3> QED BY <3>1
  <2>9. (\A x \in Origins(isn) : Past(base, x) <= n) <=> v <= n
    <3>1. v <= n => \A x \in Origins(isn) : Past(base, x) <= n
      <4>1. \A x \in Origins(isn) : Past(base, x) <= v /\ Past(base, x) \in Nat
        BY <2>2, <2>3, <2>5, <2>6
      <4> QED BY <4>1
    <3>2. (\A x \in Origins(isn) : Past(base, x) <= n) => v <= n
      <4>1. CASE at.value \in S \cup Origins(isn)
        BY <2>6, <2>8, <4>1
      <4>2. CASE at.value = seq
        BY <2>6, <4>2
      <4> QED BY <2>5, <4>1, <4>2
    <3> QED BY <3>1, <3>2
  <2>10. CASE n < v
    <3>1. OffsetOf(placer, rec) = None
      BY <1>2, <2>1, <2>4, <2>7, <2>10 DEF OffsetOf
    <3>2. end = None
      BY <3>1 DEF SequenceEnd
    <3>3. ~ Overtaken(base, isn, A, rec)
      BY <2>1, <2>6, <2>9, <2>10 DEF Overtaken
    <3> QED BY <3>2, <3>3
  <2>11. CASE v <= n
    <3>1. PICK offset \in Int : offset = OffsetOf(placer, rec) /\ offset = n - o
      <4>1. OffsetOf(placer, rec) = at.position + (n - v)
        BY <1>2, <2>1, <2>4, <2>6, <2>7, <2>11 DEF OffsetOf
      <4> QED BY <2>5, <2>6, <4>1
    <3>2. offset # None /\ 0 # None
      BY NoneAssumption
    <3>3. PICK k : k = SequenceEnd(rec, 0)
      OBVIOUS
    <3>4. \/ k = None /\ end = None
          \/ k \in Nat /\ k # None /\ end = offset + k /\ end # None
      <4>1. rec.len \in Nat /\ rec.flag \in {"none", "syn", "fin"}
        BY DEF RecordType
      <4>2. \A x \in Int : x # None
        BY NoneAssumption
      <4>3. SequenceEnd(rec, offset) =
               CASE rec.len > 0 -> offset + rec.len
                 [] rec.len = 0 /\ rec.flag = "syn" -> offset
                 [] rec.len = 0 /\ rec.flag = "fin" -> offset + 1
                 [] rec.len = 0 /\ rec.flag = "none" -> None
        BY <3>2, <4>1 DEF SequenceEnd
      <4>4. k = CASE rec.len > 0 -> rec.len
                 [] rec.len = 0 /\ rec.flag = "syn" -> 0
                 [] rec.len = 0 /\ rec.flag = "fin" -> 1
                 [] rec.len = 0 /\ rec.flag = "none" -> None
        BY <3>2, <3>3, <4>1 DEF SequenceEnd
      <4>5. end = SequenceEnd(rec, offset)
        BY <3>1
      <4> QED BY <4>1, <4>2, <4>3, <4>4, <4>5
    <3>5. CASE k = None
      BY <3>3, <3>4, <3>5, NoneAssumption DEF Overtaken
    <3>6. CASE k # None
      <4>1. k \in Nat /\ end = offset + k /\ end # None
        BY <3>4, <3>6
      <4>2. CASE walk.first = None
        <5>1. A = {}
          BY <4>2 DEF WalkedAs
        <5> QED BY <4>2, <5>1 DEF Overtaken
      <4>3. CASE walk.first # None
        <5>1. walk.first \in A /\ \A a \in A : InWindow(base, a) /\ Past(base, a) \in Nat
          BY <4>3, WindowDelta DEF WalkedAs, AllIn
        <5>2. PICK f \in Nat : f = Past(base, walk.first)
          BY <5>1
        <5>3. PICK h \in Int : h = walk.highest
          BY DEF AckWalkType
        <5>4. (\E a \in A : h = Past(base, a) - f) /\ \A a \in A : Past(base, a) - f <= h
          BY <4>3, <5>2, <5>3 DEF WalkedAs
        <5>5. AckPosition(walk, walk.highest, at.origin) = (f - o) + h
          <6>1. SerialDelta(walk.first, at.origin) = f - o
            BY <2>3, <2>5, <2>6, <5>1, <5>2, WindowDelta
          <6> QED BY <5>3, <6>1 DEF AckPosition
        <5>6. end <= (f - o) + h <=> n + k <= f + h
          BY <3>1, <4>1
        <5>7. n + k <= f + h <=> \E a \in A : n + k <= Past(base, a)
          BY <4>1, <5>1, <5>4
        <5>8. Overtaken(base, isn, A, rec) <=> \E a \in A : n + k <= Past(base, a)
          BY <1>2, <2>1, <2>6, <2>9, <2>11, <3>3, <3>6 DEF Overtaken
        <5> QED BY <2>4, <4>1, <4>3, <5>5, <5>6, <5>7, <5>8
      <4> QED BY <4>2, <4>3
    <3> QED BY <3>5, <3>6
  <2> QED BY <2>6, <2>10, <2>11
<1> QED BY <1>1, <1>2

\* What was placed and acked lies near the bases of the streams that have one.
Near(base, isn, S, A) ==
    /\ \A p \in DOMAIN base : AllIn(base[p], S[p]) /\ AllIn(base[p], Origins(isn[p]))
    /\ \A p \in Pids, q \in DOMAIN base : p # q => AllIn(base[q], A[p])

\* An order check that has placed the sequence numbers of S and walked the acks of A.
Tracks(base, isn, order, S, A) ==
    /\ \A p \in DOMAIN base : PlacedAs(base[p], isn[p], S[p], order.lastSeq[p], order.placers[p])
    /\ \A p \in Pids, q \in DOMAIN base : p # q => WalkedAs(base[q], A[p], order.acks[p])

\* The hints of participant p lie near the bases, its acks near those of its peers.
NearHints(base, p, rec) ==
    /\ rec.seq # None => InWindow(base[p], rec.seq)
    /\ rec.ack # None => \A q \in DOMAIN base \ {p} : InWindow(base[q], rec.ack)

Shown(S, p, x) == [S EXCEPT ![p] = @ \cup ({x} \ {None})]

\* The check refuses a record that is behind another of its stream or behind an ack
\* of a peer that covers it, and no other.
LEMMA RefusesExactly ==
    ASSUME NEW P \in SUBSET Pids, NEW base \in [P -> SeqNum], NEW isn \in [Pids -> SeqNum \cup {None}],
           NEW S, NEW A, NEW order \in OrderType,
           Near(base, isn, S, A), Tracks(base, isn, order, S, A),
           NEW count, NEW p \in P, NEW rec \in RecordType, NearHints(base, p, rec)
    PROVE  /\ PrecedesLastSeq(order, p, rec) <=> Behind(base[p], S[p], rec.seq)
           /\ OrderRefuses(order, count, p, rec) <=>
                 \/ Behind(base[p], S[p], rec.seq)
                 \/ /\ AckChecksAfter(order, count, p)
                    /\ \E q \in Pids \ {p} : Overtaken(base[p], isn[p], A[q], rec)
<1>0. base[p] \in SeqNum /\ isn[p] \in SeqNum \cup {None} /\ order.placers[p] \in PlacerType
  BY DEF OrderType
<1>1. PICK b0, i0, S0, last, placer :
        /\ b0 = base[p] /\ i0 = isn[p] /\ S0 = S[p]
        /\ last = order.lastSeq[p] /\ placer = order.placers[p]
        /\ b0 \in SeqNum /\ i0 \in SeqNum \cup {None} /\ placer \in PlacerType
  BY ONLY <1>0
<1>2. AllIn(b0, S0) /\ AllIn(b0, Origins(i0)) /\ PlacedAs(b0, i0, S0, last, placer)
  BY <1>1 DEF Near, Tracks
<1>3. rec.seq # None => InWindow(b0, rec.seq)
  BY <1>1 DEF NearHints
<1>4. PrecedesLastSeq(order, p, rec) <=> Behind(b0, S0, rec.seq)
  <2>1. CASE rec.seq = None
    BY <2>1 DEF PrecedesLastSeq, Behind
  <2>2. CASE rec.seq # None
    <3>1. PICK seq : seq = rec.seq /\ InWindow(b0, seq) /\ seq # None
      BY <1>3, <2>2
    <3>2. b0 \in SeqNum /\ AllIn(b0, S0) /\ PlacedAs(b0, i0, S0, last, placer)
      BY <1>1, <1>2
    <3>3. (last # None /\ ~ SeqLeq(last, seq)) <=> Behind(b0, S0, seq)
      BY ONLY <3>1, <3>2, PrecedesIsBehind
    <3> QED BY <1>1, <2>2, <3>1, <3>3 DEF PrecedesLastSeq
  <2> QED BY <2>1, <2>2
<1>5. ASSUME ~ Behind(b0, S0, rec.seq)
      PROVE  LET end == SequenceEnd(rec, OffsetOf(placer, rec))
             IN  (end # None /\ AlreadyAcked(order, p, end, Started(placer, rec).origin))
                 <=> \E q \in Pids \ {p} : Overtaken(b0, i0, A[q], rec)
  <2>1. PICK end, origin : end = SequenceEnd(rec, OffsetOf(placer, rec)) /\ origin = Started(placer, rec).origin
    OBVIOUS
  <2>2. ASSUME NEW q \in Pids \ {p}
        PROVE  (/\ end # None /\ order.acks[q].first # None
                /\ end <= AckPosition(order.acks[q], order.acks[q].highest, origin))
               <=> Overtaken(b0, i0, A[q], rec)
    <3>0. PICK walk \in AckWalkType : walk = order.acks[q]
      BY DEF OrderType
    <3>1. PICK acks : walk = order.acks[q] /\ acks = A[q]
      BY <3>0
    <3>2. AllIn(b0, acks) /\ WalkedAs(b0, acks, walk)
      BY <1>1, <3>1 DEF Near, Tracks
    <3>3. (/\ end # None /\ walk.first # None
           /\ end <= AckPosition(walk, walk.highest, origin))
          <=> Overtaken(b0, i0, acks, rec)
      BY <1>1, <1>2, <1>3, <1>5, <2>1, <3>2, AckedIsOvertaken
    <3> QED BY <3>1, <3>3
  <2> QED BY <2>1, <2>2 DEF AlreadyAcked
<1>6. OrderRefuses(order, count, p, rec) <=>
         \/ Behind(b0, S0, rec.seq)
         \/ AckChecksAfter(order, count, p) /\ \E q \in Pids \ {p} : Overtaken(b0, i0, A[q], rec)
  BY <1>1, <1>4, <1>5 DEF OrderRefuses
<1> QED BY <1>1, <1>4, <1>6

\* Whom the check has heard from after a record, and whether it goes on checking acks.
LEMMA ObservedScope ==
    ASSUME NEW order \in OrderType, NEW count, NEW p \in Pids, NEW rec \in RecordType
    PROVE  /\ OrderObserved(order, count, p, rec).senders = order.senders \cup {p}
           /\ OrderObserved(order, count, p, rec).ackChecks = AckChecksAfter(order, count, p)
<1>1. PICK checks : checks = AckChecksAfter(order, count, p)
  OBVIOUS
<1>2. PICK scoped : scoped = [order EXCEPT !.senders = @ \cup {p}, !.ackChecks = checks]
  OBVIOUS
<1>3. /\ DOMAIN scoped = {"senders", "ackChecks", "lastSeq", "placers", "acks"}
      /\ scoped.senders = order.senders \cup {p} /\ scoped.ackChecks = checks
  BY <1>2 DEF OrderType
<1>4. PICK placed : placed = [scoped EXCEPT !.lastSeq[p] = IF rec.seq = None THEN @ ELSE rec.seq,
                                            !.placers[p] = Placed(@, rec)]
  OBVIOUS
<1>5. /\ DOMAIN placed = {"senders", "ackChecks", "lastSeq", "placers", "acks"}
      /\ placed.senders = order.senders \cup {p} /\ placed.ackChecks = checks
  BY <1>3, <1>4
<1>6. PICK acked : acked = [placed EXCEPT !.acks[p] = AckObserved(@, rec.ack)]
  OBVIOUS
<1>7. acked.senders = order.senders \cup {p} /\ acked.ackChecks = checks
  BY <1>5, <1>6
<1>8. OrderObserved(order, count, p, rec) \in {scoped, placed, acked}
  BY <1>1, <1>2, <1>4, <1>6 DEF OrderObserved
<1> QED BY <1>1, <1>3, <1>5, <1>7, <1>8

\* Having observed the record, the check has placed its sequence number and walked
\* its ack too, as far as it went with it: all the way if it accepts the record.
TracksOn(base, isn, order, S, A, count, p, rec) ==
    \E T \in [Pids -> SUBSET SeqNum], B \in [Pids -> SUBSET SeqNum] :
       /\ T = S \/ T = Shown(S, p, rec.seq)
       /\ B = A \/ B = Shown(A, p, rec.ack)
       /\ Near(base, isn, T, B)
       /\ Tracks(base, isn, OrderObserved(order, count, p, rec), T, B)
       /\ ~ OrderRefuses(order, count, p, rec) => T = Shown(S, p, rec.seq)
       /\ ~ OrderRefuses(order, count, p, rec) /\ AckChecksAfter(order, count, p)
             => B = Shown(A, p, rec.ack)

LEMMA ObservedTracks ==
    ASSUME NEW P \in SUBSET Pids, NEW base \in [P -> SeqNum], NEW isn \in [Pids -> SeqNum \cup {None}],
           NEW S \in [Pids -> SUBSET SeqNum], NEW A \in [Pids -> SUBSET SeqNum],
           NEW order \in OrderType,
           Near(base, isn, S, A), Tracks(base, isn, order, S, A),
           NEW count, NEW p \in P, NEW rec \in RecordType, NearHints(base, p, rec)
    PROVE  TracksOn(base, isn, order, S, A, count, p, rec)
<1> SUFFICES \E T \in [Pids -> SUBSET SeqNum], B \in [Pids -> SUBSET SeqNum] :
                   /\ T = S \/ T = Shown(S, p, rec.seq)
                   /\ B = A \/ B = Shown(A, p, rec.ack)
                   /\ Near(base, isn, T, B)
                   /\ Tracks(base, isn, OrderObserved(order, count, p, rec), T, B)
                   /\ ~ OrderRefuses(order, count, p, rec) => T = Shown(S, p, rec.seq)
                   /\ ~ OrderRefuses(order, count, p, rec) /\ AckChecksAfter(order, count, p)
                         => B = Shown(A, p, rec.ack)
  BY DEF TracksOn
<1> DEFINE observed == OrderObserved(order, count, p, rec)
<1>1. PICK checks : checks = AckChecksAfter(order, count, p)
  OBVIOUS
<1>2. PICK last \in SeqNum \cup {None}, placer \in PlacerType, walk \in AckWalkType :
         /\ last = IF rec.seq = None THEN order.lastSeq[p] ELSE rec.seq
         /\ placer = Placed(order.placers[p], rec)
         /\ rec.ack # None => walk = AckObserved(order.acks[p], rec.ack)
  <2>1. /\ order.lastSeq[p] \in SeqNum \cup {None} /\ order.placers[p] \in PlacerType
        /\ order.acks[p] \in AckWalkType /\ rec.seq \in SeqNum \cup {None} /\ rec.ack \in SeqNum \cup {None}
    BY DEF OrderType, RecordType
  <2>2. Placed(order.placers[p], rec) \in PlacerType
    BY <2>1, PlacedType
  <2>3. rec.ack # None => AckObserved(order.acks[p], rec.ack) \in AckWalkType
    BY <2>1, AckObservedType
  <2> QED BY <2>1, <2>2, <2>3
<1>3. PICK lastSeq \in [Pids -> SeqNum \cup {None}], placers \in [Pids -> PlacerType],
           acks \in [Pids -> AckWalkType] :
         /\ lastSeq = [order.lastSeq EXCEPT ![p] = last]
         /\ placers = [order.placers EXCEPT ![p] = placer]
         /\ acks = [order.acks EXCEPT ![p] = walk]
  BY DEF OrderType
<1>4. PICK scoped : scoped = [order EXCEPT !.senders = @ \cup {p}, !.ackChecks = checks]
  OBVIOUS
<1>5. /\ DOMAIN scoped = {"senders", "ackChecks", "lastSeq", "placers", "acks"}
      /\ scoped.lastSeq = order.lastSeq /\ scoped.placers = order.placers /\ scoped.acks = order.acks
      /\ scoped.ackChecks = checks
  BY <1>4 DEF OrderType
<1>6. PICK placed : placed = [scoped EXCEPT !.lastSeq = lastSeq, !.placers = placers]
  OBVIOUS
<1>7. /\ DOMAIN placed = {"senders", "ackChecks", "lastSeq", "placers", "acks"}
      /\ placed.lastSeq = lastSeq /\ placed.placers = placers /\ placed.acks = order.acks
  BY <1>5, <1>6
<1>8. PICK acked : acked = [placed EXCEPT !.acks = acks]
  OBVIOUS
<1>9. acked.lastSeq = lastSeq /\ acked.placers = placers /\ acked.acks = acks
  BY <1>7, <1>8
<1>10. observed =
          IF PrecedesLastSeq(order, p, rec) THEN scoped
          ELSE IF OrderRefuses(order, count, p, rec) \/ rec.ack = None \/ ~ checks THEN placed
          ELSE acked
  <2>1. placed = [scoped EXCEPT !.lastSeq[p] = IF rec.seq = None THEN @ ELSE rec.seq,
                                !.placers[p] = Placed(@, rec)]
    BY <1>2, <1>3, <1>5, <1>6
  <2>2. rec.ack # None => acked = [placed EXCEPT !.acks[p] = AckObserved(@, rec.ack)]
    BY <1>2, <1>3, <1>7, <1>8
  <2>3. PICK moved : moved = [placed EXCEPT !.acks[p] = AckObserved(@, rec.ack)]
    OBVIOUS
  <2>4. observed = IF PrecedesLastSeq(order, p, rec) THEN scoped
                   ELSE IF OrderRefuses(order, count, p, rec) \/ rec.ack = None \/ ~ checks THEN placed
                   ELSE moved
    BY <1>1, <1>4, <1>5, <2>1, <2>3 DEF OrderObserved
  <2> QED BY <2>2, <2>3, <2>4
<1> HIDE DEF observed
<1>11. PrecedesLastSeq(order, p, rec) <=> Behind(base[p], S[p], rec.seq)
  BY RefusesExactly
<1>12. PrecedesLastSeq(order, p, rec) => OrderRefuses(order, count, p, rec)
  BY DEF OrderRefuses
<1>13. CASE PrecedesLastSeq(order, p, rec)
  <2>1. Tracks(base, isn, observed, S, A)
    BY <1>5, <1>10, <1>13 DEF Tracks
  <2> QED BY <1>12, <1>13, <2>1 DEF observed
<1>14. CASE ~ PrecedesLastSeq(order, p, rec)
  <2>1. PICK T \in [Pids -> SUBSET SeqNum] : T = Shown(S, p, rec.seq)
    <3>1. {rec.seq} \ {None} \in SUBSET SeqNum
      BY DEF RecordType
    <3> QED BY <3>1 DEF Shown
  <2>2. T[p] = S[p] \cup ({rec.seq} \ {None}) /\ \A q \in Pids \ {p} : T[q] = S[q]
    BY <2>1 DEF Shown
  <2>3. \A q \in P : AllIn(base[q], T[q]) /\ AllIn(base[q], Origins(isn[q]))
    BY <2>2 DEF Near, AllIn, NearHints
  <2>4. \A q \in P : PlacedAs(base[q], isn[q], T[q], lastSeq[q], placers[q])
    <3>1. PlacedAs(base[p], isn[p], T[p], lastSeq[p], placers[p])
      <4>0. base[p] \in SeqNum /\ isn[p] \in SeqNum \cup {None} /\ order.placers[p] \in PlacerType
        BY DEF OrderType
      <4>1. PICK b0, i0, S0, l0, p0 :
              /\ b0 = base[p] /\ i0 = isn[p] /\ S0 = S[p] /\ l0 = order.lastSeq[p] /\ p0 = order.placers[p]
              /\ b0 \in SeqNum /\ i0 \in SeqNum \cup {None} /\ p0 \in PlacerType
        BY ONLY <4>0
      <4>2. AllIn(b0, Origins(i0)) /\ AllIn(b0, S0) /\ PlacedAs(b0, i0, S0, l0, p0)
        BY <4>1 DEF Near, Tracks
      <4>3. (rec.seq # None => InWindow(b0, rec.seq)) /\ ~ Behind(b0, S0, rec.seq)
        BY <1>11, <1>14, <4>1 DEF NearHints
      <4>4. PlacedAs(b0, i0, S0 \cup ({rec.seq} \ {None}),
                     IF rec.seq = None THEN l0 ELSE rec.seq, Placed(p0, rec))
        BY <4>1, <4>2, <4>3, PlacedKeepsTrack
      <4>5. lastSeq[p] = (IF rec.seq = None THEN l0 ELSE rec.seq) /\ placers[p] = Placed(p0, rec)
        BY <1>2, <1>3, <4>1 DEF OrderType
      <4> QED BY <2>2, <4>1, <4>4, <4>5
    <3>2. ASSUME NEW q \in P \ {p}
          PROVE  PlacedAs(base[q], isn[q], T[q], lastSeq[q], placers[q])
      <4>1. T[q] = S[q] /\ lastSeq[q] = order.lastSeq[q] /\ placers[q] = order.placers[q]
        BY <1>3, <2>2 DEF OrderType
      <4> QED BY <4>1 DEF Tracks
    <3> QED BY <3>1, <3>2
  <2>5. CASE OrderRefuses(order, count, p, rec) \/ rec.ack = None \/ ~ checks
    <3>1. observed = placed
      BY <1>10, <1>14, <2>5
    <3>2. Near(base, isn, T, A)
      BY <2>3 DEF Near
    <3>3. Tracks(base, isn, observed, T, A)
      BY <1>7, <2>4, <3>1 DEF Tracks
    <3>4. rec.ack = None => A = Shown(A, p, rec.ack)
      BY DEF Shown
    <3> QED BY <1>1, <2>1, <2>5, <3>2, <3>3, <3>4 DEF observed
  <2>6. CASE ~ (OrderRefuses(order, count, p, rec) \/ rec.ack = None \/ ~ checks)
    <3>1. observed = acked /\ rec.ack \in SeqNum /\ rec.ack # None
      BY <1>10, <1>14, <2>6 DEF RecordType
    <3>2. PICK B \in [Pids -> SUBSET SeqNum] : B = Shown(A, p, rec.ack)
      BY <3>1 DEF Shown
    <3>3. B[p] = A[p] \cup {rec.ack} /\ \A q \in Pids \ {p} : B[q] = A[q]
      BY <3>1, <3>2 DEF Shown
    <3>4. \A q \in Pids, r \in P : q # r => AllIn(base[r], B[q])
      BY <3>1, <3>3 DEF Near, AllIn, NearHints
    <3>5. \A q \in Pids, r \in P : q # r => WalkedAs(base[r], B[q], acks[q])
      <4>1. ASSUME NEW r \in P, r # p
            PROVE  WalkedAs(base[r], B[p], acks[p])
        <5>0. base[r] \in SeqNum /\ order.acks[p] \in AckWalkType
          BY <4>1 DEF OrderType
        <5>1. PICK b0, A0, w0 :
                /\ b0 = base[r] /\ A0 = A[p] /\ w0 = order.acks[p]
                /\ b0 \in SeqNum /\ w0 \in AckWalkType
          BY ONLY <5>0
        <5>2. AllIn(b0, A0) /\ WalkedAs(b0, A0, w0) /\ InWindow(b0, rec.ack)
          BY <3>1, <4>1, <5>1 DEF Near, Tracks, NearHints
        <5>3. WalkedAs(b0, A0 \cup {rec.ack}, AckObserved(w0, rec.ack))
          BY <3>1, <5>1, <5>2, AckKeepsTrack
        <5>4. acks[p] = AckObserved(w0, rec.ack)
          BY <1>2, <1>3, <3>1, <5>1 DEF OrderType
        <5> QED BY <3>3, <5>1, <5>3, <5>4
      <4>2. ASSUME NEW q \in Pids, q # p
            PROVE  acks[q] = order.acks[q] /\ B[q] = A[q]
        BY <1>3, <3>3, <4>2 DEF OrderType
      <4> QED BY <4>1, <4>2 DEF Tracks
    <3>6. Near(base, isn, T, B)
      BY <2>3, <3>4 DEF Near
    <3>7. Tracks(base, isn, observed, T, B)
      BY <1>9, <2>4, <3>1, <3>5 DEF Tracks
    <3> QED BY <2>1, <2>6, <3>2, <3>6, <3>7 DEF observed
  <2> QED BY <2>5, <2>6
<1> QED BY <1>13, <1>14

\* A check that has seen nothing, or nothing of a participant only now declared.
LEMMA PlacedNothing ==
    ASSUME NEW base \in SeqNum, NEW isn \in SeqNum \cup {None}, AllIn(base, Origins(isn))
    PROVE  PlacedAs(base, isn, {}, None, NewPlacer(isn))
<1>1. CASE isn = None
  BY <1>1 DEF PlacedAs, Origins, NewPlacer, PlacerAt
<1>2. CASE isn # None
  <2>1. PICK origin : origin = (isn + 1) % SeqSpace
    OBVIOUS
  <2>2. Origins(isn) = {origin} /\ NewPlacer(isn) = [origin |-> origin, value |-> origin, position |-> 0]
    BY <1>2, <2>1 DEF Origins, NewPlacer, PlacerAt
  <2>3. InWindow(base, origin)
    BY <2>2 DEF AllIn
  <2>4. origin # None /\ Past(base, origin) \in Nat
    BY <2>3, WindowDelta, NoneAssumption DEF InWindow, SeqNum
  <2> QED BY <2>2, <2>4 DEF PlacedAs
<1> QED BY <1>1, <1>2

LEMMA NewOrderTracks ==
    ASSUME NEW P \in SUBSET Pids, NEW base \in [P -> SeqNum], NEW isn \in [Pids -> SeqNum \cup {None}], NEW count,
           NEW E \in [Pids -> SUBSET SeqNum], \A p \in Pids : E[p] = {},
           \A p \in P : AllIn(base[p], Origins(isn[p]))
    PROVE  /\ Near(base, isn, E, E)
           /\ Tracks(base, isn, NewOrder(count, isn), E, E)
<1>1. Near(base, isn, E, E)
  BY DEF Near, AllIn
<1>2. ASSUME NEW p \in P
      PROVE  PlacedAs(base[p], isn[p], E[p], NewOrder(count, isn).lastSeq[p], NewOrder(count, isn).placers[p])
  <2>1. NewOrder(count, isn).lastSeq[p] = None /\ NewOrder(count, isn).placers[p] = NewPlacer(isn[p])
    BY DEF NewOrder
  <2>2. PlacedAs(base[p], isn[p], {}, None, NewPlacer(isn[p]))
    BY PlacedNothing
  <2> QED BY <2>1, <2>2
<1>3. ASSUME NEW p \in Pids, NEW q \in P
      PROVE  WalkedAs(base[q], E[p], NewOrder(count, isn).acks[p])
  <2>1. NewOrder(count, isn).acks[p] = NewAckWalk
    BY DEF NewOrder
  <2> QED BY <2>1 DEF WalkedAs, NewAckWalk
<1> QED BY <1>1, <1>2, <1>3 DEF Tracks

-------------------------------------------------------------------------------
(* Streams that go on *)

\* A block that is accepted ends the streams of no session but one it is the end of.
LEMMA StreamsStay ==
    ASSUME NEW c \in CheckerType, NEW b \in BlockType, ~ Refuses(c, b),
           NEW s \in Sids, NEW p \in Pids, c.streams[s, p] # None,
           b.kind = "sessionEnd" => b.sid # s
    PROVE  Absorbed(c, b).streams[s, p] # None
<1>1. PICK d \in CheckerType : d = Absorbed(c, b) /\ Follows(c, b, d)
  BY Absorption, AbsorbedFollows
<1>2. CASE b.kind = "sessionEnd"
  BY <1>1, <1>2 DEF Follows
<1>3. CASE b.kind \notin {"participant", "record", "discontinuity", "sessionEnd"}
  BY <1>1, <1>3 DEF Follows
<1>4. CASE b.kind \in {"participant", "record", "discontinuity"}
  <2>1. b.sid \in Sids /\ b.pid \in Pids
    BY <1>4, DescriptorBlock, RecordBlock, OtherBlock
  <2>2. PICK held : held = c.streams[b.sid, b.pid] /\ held \in StreamType \cup {None}
    BY <2>1 DEF CheckerType
  <2>3. PICK v \in StreamType : d.streams = [c.streams EXCEPT ![<<b.sid, b.pid>>] = v]
    <3>1. CASE b.kind = "participant"
      <4>1. b.isn \in SeqNum \cup {None} /\ b.adjacency \in {"contiguous", "units", "undefined"}
        BY <3>1, DescriptorBlock
      <4>2. b.adjacency # "undefined"
        BY <3>1 DEF Refuses
      <4>3. NewStream(b.isn, b.adjacency) \in StreamType
        BY <4>1, <4>2, NewStreamType
      <4> QED BY <1>1, <3>1, <4>3 DEF Follows
    <3>2. CASE b.kind = "record"
      <4>1. Declared(c, b) /\ ~ UnknownDecoder(c, b)
        BY <3>2 DEF Refuses, BadRecordEarly
      <4>2. StreamAfter(c, b) \in StreamType
        BY <3>2, <4>1, StreamAfterType
      <4> QED BY <1>1, <3>2, <4>2 DEF Follows
    <3>3. CASE b.kind = "discontinuity"
      <4>1. held # None
        BY <2>2, <3>3 DEF Refuses, Declared
      <4>2. PICK v \in StreamType : v = [held EXCEPT !.broken = TRUE, !.brokeSince = TRUE]
        BY <2>2, <4>1 DEF StreamType
      <4> QED BY <1>1, <2>2, <3>3, <4>2 DEF Follows
    <3> QED BY <1>4, <3>1, <3>2, <3>3
  <2>4. v # None
    BY NoStreamAssumption
  <2> QED BY <1>1, <2>1, <2>3, <2>4 DEF CheckerType
<1> QED BY <1>2, <1>3, <1>4

===============================================================================
