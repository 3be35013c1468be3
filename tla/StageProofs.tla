------------------------------ MODULE StageProofs ------------------------------
(***************************************************************************)
(* What DecodeStage and SessionizeStage have in common, for every input,   *)
(* caller and output: the ledger is what record() and undecoded() returned *)
(* from, autofill marks each uncovered offset once and truthfully, and the *)
(* steps both have keep that so.                                           *)
(***************************************************************************)
EXTENDS CoverageStage, WriterProofs

-------------------------------------------------------------------------------
(* The ledger counts what is cited *)

\* What holds of no member, and of each part of a set if it holds of the parts with
\* one member less, holds of the set.
LEMMA SetThroughout ==
    ASSUME NEW S, IsFiniteSet(S), NEW T, {} \in T,
           \A U \in SUBSET S : U # {} /\ (\A x \in U : U \ {x} \in T) => U \in T
    PROVE  S \in T
<1> DEFINE Bad == { n \in Nat : \E U \in SUBSET S : Cardinality(U) = n /\ U \notin T }
<1>1. \A U \in SUBSET S : IsFiniteSet(U) /\ Cardinality(U) \in Nat
  BY FS_Subset, FS_CardinalityType
<1>2. CASE Bad = {}
  <2>1. S \in SUBSET S
    OBVIOUS
  <2> QED BY <1>1, <1>2, <2>1
<1>3. CASE Bad # {}
  <2>1. PICK n \in Bad : \A m \in Bad : n <= m
    <3>1. Bad \subseteq Nat
      OBVIOUS
    <3> QED BY <1>3, <3>1, LeastNatural
  <2>2. PICK U \in SUBSET S : Cardinality(U) = n /\ U \notin T
    BY <2>1
  <2>3. \A x \in U : Cardinality(U \ {x}) = n - 1 /\ n - 1 \in Nat
    <3> TAKE x \in U
    <3>1. Cardinality(U \ {x}) = Cardinality(U) - 1 /\ Cardinality(U \ {x}) \in Nat
      BY <1>1, FS_RemoveElement
    <3> QED BY <2>2, <3>1
  <2>4. \A x \in U : U \ {x} \in T
    <3> TAKE x \in U
    <3>1. n - 1 \notin Bad
      BY <2>1, <2>3
    <3> QED BY <2>3, <3>1
  <2> QED BY <2>2, <2>4
<1> QED BY <1>2, <1>3

\* The lists a ledger keeps.
Lists == { list \in Seq(Ranges) : Coalesced(list) }

CitedOffsets(spans) == UNION { Span(span.start, span.end) : span \in spans }

\* cite, of one stream: the spans are added one by one, in any order.
LEMMA CitesAdd ==
    ASSUME NEW spans, IsFiniteSet(spans), \A span \in spans : Citable(span), NEW into \in Lists
    PROVE  LET list == FoldSet(LAMBDA span, l : Add(l, span.start, span.end), into, spans)
           IN  list \in Lists /\ Offsets(list) = Offsets(into) \cup CitedOffsets(spans)
<1> DEFINE step == [p \in spans \X Lists |-> Add(p[2], p[1].start, p[1].end)]
           pick == [U \in SUBSET spans |-> CHOOSE x \in U : TRUE]
           Solves(iter) == iter = [U \in SUBSET spans |->
                              IF U = {} THEN into
                              ELSE Add(iter[U \ {CHOOSE x \in U : TRUE}],
                                       (CHOOSE x \in U : TRUE).start, (CHOOSE x \in U : TRUE).end)]
<1>1. \A span \in spans, l \in Lists :
        /\ Add(l, span.start, span.end) \in Lists
        /\ Offsets(Add(l, span.start, span.end)) = Offsets(l) \cup Span(span.start, span.end)
  <2> TAKE span \in spans, l \in Lists
  <2>1. l \in Seq(Ranges) /\ Coalesced(l) /\ span.start \in Nat /\ span.end \in Nat
    BY DEF Lists, Citable
  <2> QED BY <2>1, AddIsUnion DEF Lists, Span
<1>2. step \in [spans \X Lists -> Lists]
  BY <1>1
<1>3. \A U \in SUBSET spans : U # {} => pick[U] \in U
  OBVIOUS
<1>4. \E iter : iter \in [SUBSET spans -> Lists] /\ Solves(iter)
  <2>1. \E iter : FoldsSet(iter, spans, Lists, into, step, pick)
    <3> HIDE DEF step, pick
    <3> QED BY <1>2, <1>3, FoldExists
  <2>2. PICK iter : FoldsSet(iter, spans, Lists, into, step, pick)
    BY <2>1
  <2>3. /\ iter \in [SUBSET spans -> Lists]
        /\ iter = [U \in SUBSET spans |-> IF U = {} THEN into ELSE step[pick[U], iter[U \ {pick[U]}]]]
    BY <2>2 DEF FoldsSet
  <2>4. ASSUME NEW U \in SUBSET spans, U # {}
        PROVE  /\ pick[U] = CHOOSE x \in U : TRUE
               /\ step[pick[U], iter[U \ {pick[U]}]] =
                    Add(iter[U \ {pick[U]}], pick[U].start, pick[U].end)
    <3>1. pick[U] \in spans /\ iter[U \ {pick[U]}] \in Lists
      BY <1>3, <2>3, <2>4
    <3>2. \A x \in spans, l \in Lists : step[x, l] = Add(l, x.start, x.end)
      OBVIOUS
    <3>3. pick[U] = CHOOSE x \in U : TRUE
      OBVIOUS
    <3> HIDE DEF step, pick
    <3> QED BY <3>1, <3>2, <3>3
  <2> HIDE DEF step, pick
  <2>5. Solves(iter)
    BY <2>3, <2>4
  <2> QED BY <2>3, <2>5
<1> DEFINE iter == CHOOSE iter : Solves(iter)
<1>5. Solves(iter)
  BY <1>4
<1>6. FoldSet(LAMBDA span, l : Add(l, span.start, span.end), into, spans) = iter[spans]
  BY DEF FoldSet, MapThenFoldSet
<1> HIDE DEF iter, step, pick
<1>7. \A U \in SUBSET spans : U # {} =>
        \E x \in U : iter[U] = Add(iter[U \ {x}], x.start, x.end)
  <2> TAKE U \in SUBSET spans
  <2> HAVE U # {}
  <2>1. (CHOOSE x \in U : TRUE) \in U
    OBVIOUS
  <2> QED BY <1>5, <2>1
<1>8. iter[{}] = into
  BY <1>5
<1> HIDE DEF Solves
<1> DEFINE T == { U \in SUBSET spans : /\ iter[U] \in Lists
                                       /\ Offsets(iter[U]) = Offsets(into) \cup CitedOffsets(U) }
<1>9. {} \in T
  <2>1. CitedOffsets({}) = {}
    BY DEF CitedOffsets
  <2> QED BY <1>8, <2>1
<1>10. ASSUME NEW U \in SUBSET spans, U # {}, \A x \in U : U \ {x} \in T
       PROVE  U \in T
  <2>1. PICK x \in U : iter[U] = Add(iter[U \ {x}], x.start, x.end)
    BY <1>7, <1>10
  <2>2. /\ iter[U \ {x}] \in Lists
        /\ Offsets(iter[U \ {x}]) = Offsets(into) \cup CitedOffsets(U \ {x})
    BY <1>10
  <2>3. iter[U] \in Lists /\ Offsets(iter[U]) = Offsets(iter[U \ {x}]) \cup Span(x.start, x.end)
    BY <1>1, <2>1, <2>2
  <2>4. CitedOffsets(U) = CitedOffsets(U \ {x}) \cup Span(x.start, x.end)
    BY DEF CitedOffsets
  <2> QED BY <2>2, <2>3, <2>4
<1>11. spans \in T
  <2> HIDE DEF T
  <2> QED BY <1>9, <1>10, SetThroughout
<1> QED BY <1>6, <1>11

\* cite, of every stream.
LEMMA CitedHolds ==
    ASSUME NEW ledger \in [Inputs -> Lists], NEW b \in Producer.records
    PROVE  /\ Cited(ledger, b) \in [Inputs -> Lists]
           /\ \A k \in Inputs :
                 Offsets(Cited(ledger, b)[k]) = Offsets(ledger[k]) \cup CitedOffsets(SpansOn(b, k))
<1>1. ASSUME NEW k \in Inputs
      PROVE  /\ Cited(ledger, b)[k] \in Lists
             /\ Offsets(Cited(ledger, b)[k]) = Offsets(ledger[k]) \cup CitedOffsets(SpansOn(b, k))
  <2>1. IsFiniteSet(SpansOn(b, k)) /\ \A span \in SpansOn(b, k) : Citable(span)
    <3>1. IsFiniteSet(b.spans) /\ \A span \in b.spans : Citable(span)
      BY StageAssumption
    <3>2. SpansOn(b, k) \subseteq b.spans
      BY DEF SpansOn
    <3> QED BY <3>1, <3>2, FS_Subset
  <2>2. Cited(ledger, b)[k] =
          FoldSet(LAMBDA span, l : Add(l, span.start, span.end), ledger[k], SpansOn(b, k))
    BY DEF Cited
  <2> QED BY <2>1, <2>2, CitesAdd
<1>2. Cited(ledger, b) = [k \in Inputs |-> Cited(ledger, b)[k]]
  BY DEF Cited
<1> QED BY <1>1, <1>2

-------------------------------------------------------------------------------
(* What autofill writes *)

Parts == [start : Nat, end : Nat, reason : {"gap", "skipped"}]

\* Parts that follow one another from an offset to another, and tell holes from bytes.
Tiles(parts, from, to, holes) ==
    /\ parts \in Seq(Parts)
    /\ \A i \in 1 .. Len(parts) :
          from <= parts[i].start /\ parts[i].start < parts[i].end /\ parts[i].end <= to
    /\ \A i, j \in 1 .. Len(parts) : i < j => parts[i].end <= parts[j].start
    /\ \A o \in from .. to - 1 : \E i \in 1 .. Len(parts) : parts[i].start <= o /\ o < parts[i].end
    /\ \A i \in 1 .. Len(parts) : \A o \in Nat :
          parts[i].start <= o /\ o < parts[i].end =>
              parts[i].reason = IF o \in holes THEN "gap" ELSE "skipped"

\* One part more, behind the others, or none if it is empty.
LEMMA TilesOneMore ==
    ASSUME NEW parts, NEW from \in Nat, NEW at \in Nat, NEW to \in Nat, from <= at, at <= to,
           NEW holes, NEW reason \in {"gap", "skipped"}, Tiles(parts, from, at, holes),
           \A o \in Nat : at <= o /\ o < to => reason = IF o \in holes THEN "gap" ELSE "skipped"
    PROVE  Tiles(parts \o Part(at, to, reason), from, to, holes)
<1>1. parts \in Seq(Parts)
  BY DEF Tiles
<1>2. CASE at = to
  <2>1. Part(at, to, reason) = << >>
    BY <1>2 DEF Part
  <2>2. parts \o << >> = parts
    BY <1>1
  <2> QED BY <1>2, <2>1, <2>2
<1>3. CASE at < to
  <2>1. PICK part \in Parts : part = [start |-> at, end |-> to, reason |-> reason]
    BY DEF Parts
  <2>2. Part(at, to, reason) = <<part>>
    BY <1>3, <2>1 DEF Part
  <2>3. part.start = at /\ part.end = to /\ part.reason = reason
    BY <2>1
  <2>4. PICK list \in Seq(Parts) : list = Append(parts, part)
    BY <1>1, AppendType
  <2>5. parts \o Part(at, to, reason) = list
    BY <1>1, <2>2, <2>4
  <2>6. /\ Len(parts) \in Nat /\ Len(list) = Len(parts) + 1 /\ list[Len(list)] = part
        /\ \A i \in 1 .. Len(parts) : list[i] = parts[i]
    BY <1>1, <2>4
  <2>7. \A i \in 1 .. Len(parts) :
          /\ parts[i].start \in Nat /\ parts[i].end \in Nat
          /\ from <= parts[i].start /\ parts[i].start < parts[i].end /\ parts[i].end <= at
    <3>1. \A i \in 1 .. Len(parts) : parts[i].start \in Nat /\ parts[i].end \in Nat
      <4>1. \A i \in 1 .. Len(parts) : parts[i] \in Parts
        BY <1>1
      <4>2. \A part1 \in Parts : part1.start \in Nat /\ part1.end \in Nat
        BY DEF Parts
      <4> QED BY <4>1, <4>2
    <3> QED BY <3>1 DEF Tiles
  <2>8. \A i \in 1 .. Len(list) : i \in 1 .. Len(parts) \/ i = Len(list)
    BY <2>6
  <2>9. ASSUME NEW i \in 1 .. Len(list)
        PROVE  from <= list[i].start /\ list[i].start < list[i].end /\ list[i].end <= to
    <3>1. CASE i \in 1 .. Len(parts)
      <4>1. list[i] = parts[i]
        BY <2>6, <3>1
      <4> QED BY <2>7, <3>1, <4>1
    <3>2. CASE i = Len(list)
      BY <1>3, <2>3, <2>6, <3>2
    <3> QED BY <2>8, <3>1, <3>2
  <2>10. ASSUME NEW i \in 1 .. Len(list), NEW j \in 1 .. Len(list), i < j
         PROVE  list[i].end <= list[j].start
    <3>1. i \in 1 .. Len(parts) /\ list[i] = parts[i]
      BY <2>6, <2>10
    <3>2. CASE j \in 1 .. Len(parts)
      <4>1. list[j] = parts[j]
        BY <2>6, <3>2
      <4> QED BY <2>10, <3>1, <3>2, <4>1 DEF Tiles
    <3>3. CASE j = Len(list)
      <4>1. list[j].start = at
        BY <2>3, <2>6, <3>3
      <4>2. parts[i].end <= at
        BY <2>7, <3>1
      <4> QED BY <3>1, <4>1, <4>2
    <3> QED BY <2>8, <3>2, <3>3
  <2>11. ASSUME NEW o \in from .. to - 1
         PROVE  \E i \in 1 .. Len(list) : list[i].start <= o /\ o < list[i].end
    <3>1. CASE o < at
      <4>1. PICK i \in 1 .. Len(parts) : parts[i].start <= o /\ o < parts[i].end
        BY <2>11, <3>1 DEF Tiles
      <4>2. i \in 1 .. Len(list) /\ list[i] = parts[i]
        BY <2>6, <4>1
      <4> QED BY <4>1, <4>2
    <3>2. CASE at <= o
      <4>1. Len(list) \in 1 .. Len(list)
        BY <2>6
      <4>2. list[Len(list)].start <= o /\ o < list[Len(list)].end
        BY <2>3, <2>6, <2>11, <3>2
      <4> QED BY <4>1, <4>2
    <3> QED BY <2>11, <3>1, <3>2
  <2>12. ASSUME NEW i \in 1 .. Len(list), NEW o \in Nat, list[i].start <= o, o < list[i].end
         PROVE  list[i].reason = IF o \in holes THEN "gap" ELSE "skipped"
    <3>1. CASE i \in 1 .. Len(parts)
      <4>1. list[i] = parts[i]
        BY <2>6, <3>1
      <4> QED BY <2>12, <3>1, <4>1 DEF Tiles
    <3>2. CASE i = Len(list)
      BY <2>3, <2>6, <2>12, <3>2
    <3> QED BY <2>8, <3>1, <3>2
  <2>13. Tiles(list, from, to, holes)
    BY <2>9, <2>10, <2>11, <2>12 DEF Tiles
  <2> QED BY <2>5, <2>13
<1> QED BY <1>2, <1>3

LabelStates == [position : Nat, parts : Seq(Parts)]

LEMMA LabellingType ==
    ASSUME NEW state \in LabelStates, NEW gap \in Ranges, NEW range \in Ranges
    PROVE  Labelling(state, gap, range) \in LabelStates
<1>1. /\ state.position \in Nat /\ state.parts \in Seq(Parts)
      /\ gap[1] \in Nat /\ gap[2] \in Nat /\ range[2] \in Nat
  BY DEF LabelStates, Ranges
<1>2. \A start, end \in Nat, reason \in {"gap", "skipped"} : Part(start, end, reason) \in Seq(Parts)
  <2> TAKE start, end \in Nat, reason \in {"gap", "skipped"}
  <2>1. PICK part \in Parts : part = [start |-> start, end |-> end, reason |-> reason]
    BY DEF Parts
  <2>2. <<part>> \in Seq(Parts) /\ << >> \in Seq(Parts)
    OBVIOUS
  <2> QED BY <2>1, <2>2 DEF Part
<1>3. PICK lo \in Nat, hi \in Nat : lo = Larger(state.position, gap[1]) /\ hi = Smaller(range[2], gap[2])
  BY <1>1 DEF Larger, Smaller
<1>4. PICK first \in Seq(Parts), second \in Seq(Parts) :
        first = Part(state.position, lo, "skipped") /\ second = Part(lo, hi, "gap")
  BY <1>1, <1>2, <1>3
<1>5. state.parts \o first \o second \in Seq(Parts)
  BY <1>1, ConcatType
<1>6. Labelling(state, gap, range) =
        IF lo >= hi THEN state ELSE [position |-> hi, parts |-> state.parts \o first \o second]
  BY <1>3, <1>4 DEF Labelling
<1> QED BY <1>3, <1>5, <1>6 DEF LabelStates

FromStart(range) == [position |-> range[1], parts |-> << >>]

\* The loop of _label_fills, gap by gap.
LEMMA LabellingRuns ==
    ASSUME NEW gaps \in Seq(Ranges), NEW range \in Ranges
    PROVE  \E run : /\ run[0] = FromStart(range) /\ run[Len(gaps)] = FoldLeft(LAMBDA state, gap : Labelling(state, gap, range), FromStart(range), gaps)
                    /\ \A k \in 1 .. Len(gaps) : run[k] = Labelling(run[k - 1], gaps[k], range)
<1> DEFINE n == Len(gaps)
           V == LabelStates
           step == [p \in (1 .. n) \X V |-> Labelling(p[2], gaps[p[1]], range)]
           Solves(iter) == iter = [U \in SUBSET DOMAIN gaps |->
                              IF U = {} THEN FromStart(range) ELSE Labelling(iter[U \ {Max(U)}], gaps[Max(U)], range)]
<1>1. n \in Nat /\ DOMAIN gaps = 1 .. n /\ FromStart(range) \in V /\ \A i \in 1 .. n : gaps[i] \in Ranges
  BY DEF LabelStates, FromStart, Ranges
<1>2. \A i \in 1 .. n, st \in V : Labelling(st, gaps[i], range) \in V
  BY <1>1, LabellingType
<1>3. /\ step \in [(1 .. n) \X V -> V]
      /\ \A i \in 1 .. n, st \in V : step[i, st] = Labelling(st, gaps[i], range)
  BY <1>2
<1>4. /\ \A U \in SUBSET (1 .. n) : U # {} => Max(U) \in U
      /\ \A k \in 1 .. n : Max(1 .. k) = k /\ (1 .. k) \ {k} = 1 .. k - 1
      /\ \A k \in 1 .. n : 1 .. k \in SUBSET (1 .. n) /\ 1 .. k # {} /\ k \in 0 .. n /\ k - 1 \in 0 .. n
  BY <1>1, LastPosition
<1>5. \E iter : Solves(iter)
  <2> HIDE DEF step, V, n
  <2>1. PICK iter : FoldsList(iter, n, V, FromStart(range), step)
    BY <1>1, <1>3, LoopExists
  <2>2. ASSUME NEW U \in SUBSET (1 .. n), U # {}
        PROVE  step[Max(U), iter[U \ {Max(U)}]] = Labelling(iter[U \ {Max(U)}], gaps[Max(U)], range)
    <3>1. Max(U) \in 1 .. n /\ iter[U \ {Max(U)}] \in V
      BY <1>4, <2>1, <2>2 DEF FoldsList
    <3> QED BY <1>3, <3>1
  <2>3. iter = [U \in SUBSET (1 .. n) |->
                  IF U = {} THEN FromStart(range) ELSE Labelling(iter[U \ {Max(U)}], gaps[Max(U)], range)]
    BY <2>1, <2>2 DEF FoldsList
  <2> QED BY <1>1, <2>3
<1> DEFINE iter == CHOOSE iter : Solves(iter)
<1>6. Solves(iter)
  BY <1>5
<1>7. FoldLeft(LAMBDA state, gap : Labelling(state, gap, range), FromStart(range), gaps) = iter[DOMAIN gaps]
  BY DEF FoldLeft, MapThenFoldSet
<1> HIDE DEF iter
<1>8. \A U \in SUBSET (1 .. n) :
        iter[U] = IF U = {} THEN FromStart(range) ELSE Labelling(iter[U \ {Max(U)}], gaps[Max(U)], range)
  BY <1>1, <1>6
<1> HIDE DEF n
<1> DEFINE run == [k \in 0 .. n |-> iter[1 .. k]]
<1>9. ASSUME NEW k \in 1 .. n
      PROVE  run[k] = Labelling(run[k - 1], gaps[k], range)
  <2>1. 1 .. k \in SUBSET (1 .. n) /\ 1 .. k # {} /\ k \in 0 .. n /\ k - 1 \in 0 .. n
    BY <1>4, Zenon
  <2>2. iter[1 .. k] = Labelling(iter[1 .. k - 1], gaps[k], range)
    BY <1>4, <1>8, <2>1
  <2> QED BY <2>1, <2>2
<1>10. run[0] = FromStart(range) /\ run[n] = FoldLeft(LAMBDA state, gap : Labelling(state, gap, range), FromStart(range), gaps)
  <2>1. 1 .. 0 = {} /\ {} \in SUBSET (1 .. n) /\ 0 \in 0 .. n /\ n \in 0 .. n
    <3>1. n \in Nat
      BY <1>1
    <3> QED BY ONLY <3>1
  <2> QED BY <1>1, <1>7, <1>8, <2>1
<1> QED BY <1>9, <1>10 DEF n

\* How far the loop is after the first k gaps.
LabelledUpTo(state, k, gaps, range) ==
    /\ state.position \in Nat /\ range[1] <= state.position /\ state.position <= range[2]
    /\ Tiles(state.parts, range[1], state.position, Offsets(gaps))
    /\ \A j \in 1 .. k : \/ gaps[j][2] <= state.position
                         \/ gaps[j][1] >= range[2]
                         \/ state.position = range[2]

LEMMA LabelsOneMore ==
    ASSUME NEW gaps \in Seq(Ranges), Coalesced(gaps), NEW range \in Ranges,
           NEW k \in 1 .. Len(gaps), NEW state, LabelledUpTo(state, k - 1, gaps, range)
    PROVE  LabelledUpTo(Labelling(state, gaps[k], range), k, gaps, range)
<1> DEFINE position == state.position
           new == Labelling(state, gaps[k], range)
<1>1. \A j \in 1 .. Len(gaps) : gaps[j][1] \in Nat /\ gaps[j][2] \in Nat /\ gaps[j][1] < gaps[j][2]
  BY RangeOf
<1>2. /\ range[1] \in Nat /\ range[2] \in Nat /\ range[1] < range[2]
      /\ position \in Nat /\ range[1] <= position /\ position <= range[2]
  BY DEF Ranges, LabelledUpTo
<1>3. PICK lo \in Nat, hi \in Nat :
        /\ lo = Larger(position, gaps[k][1]) /\ hi = Smaller(range[2], gaps[k][2])
        /\ new = IF lo >= hi THEN state
                 ELSE [position |-> hi, parts |-> state.parts \o Part(position, lo, "skipped")
                                                             \o Part(lo, hi, "gap")]
  BY <1>1, <1>2 DEF Larger, Smaller, Labelling
<1>4. /\ position <= lo /\ gaps[k][1] <= lo /\ (lo = position \/ lo = gaps[k][1])
      /\ hi <= range[2] /\ hi <= gaps[k][2] /\ (hi = range[2] \/ hi = gaps[k][2])
  BY <1>1, <1>2, <1>3 DEF Larger, Smaller
<1>5. \A j \in 1 .. k - 1 : \/ gaps[j][2] <= position
                            \/ gaps[j][1] >= range[2]
                            \/ position = range[2]
  BY DEF LabelledUpTo
<1>6. \A j \in 1 .. k : j \in 1 .. Len(gaps) /\ (j \in 1 .. k - 1 \/ j = k)
  OBVIOUS
<1> HIDE DEF new
<1>7. CASE lo >= hi
  <2>1. new = state
    BY <1>3, <1>7
  <2>2. \/ gaps[k][2] <= position
        \/ gaps[k][1] >= range[2]
        \/ position = range[2]
    BY <1>1, <1>2, <1>4, <1>7
  <2>3. \A j \in 1 .. k : \/ gaps[j][2] <= position
                          \/ gaps[j][1] >= range[2]
                          \/ position = range[2]
    BY <1>5, <1>6, <2>2
  <2> QED BY <2>1, <2>3 DEF LabelledUpTo, new
<1>8. CASE lo < hi
  <2>1. new.position = hi /\ new.parts = state.parts \o Part(position, lo, "skipped") \o Part(lo, hi, "gap")
    <3>1. ~ (lo >= hi)
      BY <1>8
    <3>2. PICK parts : parts = state.parts \o Part(position, lo, "skipped") \o Part(lo, hi, "gap")
      OBVIOUS
    <3>3. new = [position |-> hi, parts |-> parts]
      BY <1>3, <3>1, <3>2, Zenon
    <3> QED BY <3>2, <3>3
  <2>2. \A o : o \in Offsets(gaps) <=>
            o \in Nat /\ \E j \in 1 .. Len(gaps) : gaps[j][1] <= o /\ o < gaps[j][2]
    BY OffsetInRange
  <2>3. ASSUME NEW o \in Nat, position <= o, o < lo
        PROVE  o \notin Offsets(gaps)
    <3> SUFFICES ASSUME NEW j \in 1 .. Len(gaps), gaps[j][1] <= o, o < gaps[j][2]
                 PROVE  FALSE
      BY <2>2
    <3>1. CASE j \in 1 .. k - 1
      <4>1. /\ gaps[j][1] \in Nat /\ gaps[j][2] \in Nat
            /\ \/ gaps[j][2] <= position
               \/ gaps[j][1] >= range[2]
               \/ position = range[2]
        BY <1>1, <1>5, <3>1
      <4>2. o < range[2] /\ position < range[2]
        BY <1>2, <1>4, <1>8, <2>3
      <4> QED BY <1>2, <2>3, <4>1, <4>2
    <3>2. CASE j = k
      BY <1>1, <1>2, <1>4, <2>3, <3>2
    <3>3. CASE j > k
      <4>1. k \in 1 .. j - 1
        BY <3>3
      <4>2. gaps[k][2] < gaps[j][1]
        BY <4>1 DEF Coalesced
      <4> QED BY <1>1, <1>4, <1>8, <2>3, <4>2
    <3> QED BY <3>1, <3>2, <3>3
  <2>4. ASSUME NEW o \in Nat, lo <= o, o < hi
        PROVE  o \in Offsets(gaps)
    BY <1>1, <1>4, <2>2, <2>4
  <2>5. Tiles(state.parts, range[1], position, Offsets(gaps))
    BY DEF LabelledUpTo
  <2>6. Tiles(state.parts \o Part(position, lo, "skipped"), range[1], lo, Offsets(gaps))
    <3>1. range[1] <= position /\ position <= lo
      BY <1>2, <1>4
    <3> QED BY <1>2, <2>3, <2>5, <3>1, TilesOneMore
  <2>7. Tiles(new.parts, range[1], hi, Offsets(gaps))
    <3>1. range[1] <= lo /\ lo <= hi
      BY <1>2, <1>4, <1>8
    <3> QED BY <1>2, <2>1, <2>4, <2>6, <3>1, TilesOneMore
  <2>8. \A j \in 1 .. k : \/ gaps[j][2] <= hi
                          \/ gaps[j][1] >= range[2]
                          \/ hi = range[2]
    <3> TAKE j \in 1 .. k
    <3>1. CASE j = k
      BY <1>1, <1>4, <3>1
    <3>2. CASE j \in 1 .. k - 1
      BY <1>1, <1>2, <1>4, <1>5, <1>6, <1>8, <3>2
    <3> QED BY <1>6, <3>1, <3>2
  <2>9. range[1] <= hi /\ hi <= range[2]
    BY <1>2, <1>4, <1>8
  <2> QED BY <2>1, <2>7, <2>8, <2>9 DEF LabelledUpTo, new
<1> QED BY <1>7, <1>8 DEF new

\* _label_fills, for every uncovered range and all gaps of a stream: its parts make
\* up the range, one behind the other, and each says of all its offsets whether the
\* stream had a hole there (decode.py _label_fills).
THEOREM LabelsAreTrue ==
    ASSUME NEW gaps \in Seq(Ranges), Coalesced(gaps), NEW range \in Ranges
    PROVE  Tiles(Labelled(range, gaps), range[1], range[2], Offsets(gaps))
<1> DEFINE n == Len(gaps)
<1>1. PICK run : /\ run[0] = FromStart(range)
                 /\ run[n] = FoldLeft(LAMBDA state, gap : Labelling(state, gap, range), FromStart(range), gaps)
                 /\ \A k \in 1 .. n : run[k] = Labelling(run[k - 1], gaps[k], range)
  BY LabellingRuns
<1>2. range[1] \in Nat /\ range[2] \in Nat /\ range[1] < range[2] /\ n \in Nat
  BY DEF Ranges
<1> DEFINE P == { k \in 0 .. n : LabelledUpTo(run[k], k, gaps, range) }
<1>3. 0 \in P
  <2>1. run[0].position = range[1] /\ run[0].parts = << >>
    <3>1. run[0] = FromStart(range)
      BY <1>1
    <3> QED BY <3>1 DEF FromStart
  <2>2. Tiles(<< >>, range[1], range[1], Offsets(gaps))
    <3>1. << >> \in Seq(Parts) /\ Len(<< >>) = 0
      OBVIOUS
    <3>2. PICK parts \in Seq(Parts) : parts = << >> /\ Len(parts) = 0
      BY <3>1
    <3>3. Tiles(parts, range[1], range[1], Offsets(gaps))
      BY <1>2, <3>2 DEF Tiles
    <3> QED BY <3>2, <3>3
  <2>3. LabelledUpTo(run[0], 0, gaps, range)
    <3>1. \A j \in 1 .. 0 : FALSE
      OBVIOUS
    <3> QED BY <1>2, <2>1, <2>2, <3>1 DEF LabelledUpTo
  <2> QED BY <1>2, <2>3
<1>4. ASSUME NEW k \in 1 .. n, k - 1 \in P
      PROVE  k \in P
  <2>1. LabelledUpTo(run[k - 1], k - 1, gaps, range) /\ run[k] = Labelling(run[k - 1], gaps[k], range)
    BY <1>1, <1>4
  <2>2. LabelledUpTo(Labelling(run[k - 1], gaps[k], range), k, gaps, range)
    BY <2>1, LabelsOneMore
  <2>3. k \in 0 .. n
    BY <1>2
  <2> QED BY <2>1, <2>2, <2>3
<1>5. n \in P
  <2> HIDE DEF P, n
  <2>1. \A k \in 0 .. n : k \in P
    BY <1>2, <1>3, <1>4, Throughout
  <2> QED BY <1>2, <2>1
<1>6. PICK last : last = run[n] /\ LabelledUpTo(last, n, gaps, range)
  BY <1>5
<1>7. Labelled(range, gaps) = last.parts \o Part(last.position, range[2], "skipped")
  BY <1>1, <1>6 DEF Labelled, FromStart
<1>8. /\ last.position \in Nat /\ range[1] <= last.position /\ last.position <= range[2]
      /\ Tiles(last.parts, range[1], last.position, Offsets(gaps))
  BY <1>6 DEF LabelledUpTo
<1>9. ASSUME NEW o \in Nat, last.position <= o, o < range[2]
      PROVE  o \notin Offsets(gaps)
  <2>1. \A j \in 1 .. n : /\ gaps[j][1] \in Nat /\ gaps[j][2] \in Nat
                          /\ \/ gaps[j][2] <= last.position
                             \/ gaps[j][1] >= range[2]
                             \/ last.position = range[2]
    BY <1>6, RangeOf DEF LabelledUpTo
  <2>2. o \in Offsets(gaps) <=>
          o \in Nat /\ \E j \in 1 .. Len(gaps) : gaps[j][1] <= o /\ o < gaps[j][2]
    BY OffsetInRange
  <2>3. ASSUME NEW j \in 1 .. n, gaps[j][1] <= o, o < gaps[j][2]
        PROVE  FALSE
    BY <1>2, <1>8, <1>9, <2>1, <2>3
  <2> QED BY <2>2, <2>3
<1> QED BY <1>2, <1>7, <1>8, <1>9, TilesOneMore

\* A concatenation has what both have.
LEMMA ToSetConcat ==
    ASSUME NEW T, NEW a \in Seq(T), NEW b \in Seq(T)
    PROVE  a \o b \in Seq(T) /\ ToSet(a \o b) = ToSet(a) \cup ToSet(b)
<1> DEFINE c == a \o b
<1>1. /\ c \in Seq(T) /\ Len(c) = Len(a) + Len(b) /\ Len(a) \in Nat /\ Len(b) \in Nat
      /\ \A i \in 1 .. Len(a) : c[i] = a[i]
      /\ \A i \in 1 .. Len(b) : c[Len(a) + i] = b[i]
  OBVIOUS
<1> HIDE DEF c
<1>2. ASSUME NEW i \in 1 .. Len(c)
      PROVE  c[i] \in ToSet(a) \cup ToSet(b)
  <2>1. CASE i \in 1 .. Len(a)
    BY <1>1, <2>1 DEF ToSet
  <2>2. CASE i - Len(a) \in 1 .. Len(b)
    <3>1. c[Len(a) + (i - Len(a))] = b[i - Len(a)] /\ Len(a) + (i - Len(a)) = i
      BY <1>1, <2>2
    <3> QED BY <2>2, <3>1 DEF ToSet
  <2> QED BY <1>1, <2>1, <2>2
<1>3. \A i \in 1 .. Len(a) : a[i] \in ToSet(c)
  <2> TAKE i \in 1 .. Len(a)
  <2>1. i \in 1 .. Len(c) /\ c[i] = a[i]
    BY <1>1
  <2>2. \A j \in 1 .. Len(c) : c[j] \in ToSet(c)
    BY <1>1 DEF ToSet
  <2> QED BY <2>1, <2>2
<1>4. \A i \in 1 .. Len(b) : b[i] \in ToSet(c)
  <2> TAKE i \in 1 .. Len(b)
  <2>1. Len(a) + i \in 1 .. Len(c) /\ c[Len(a) + i] = b[i]
    BY <1>1
  <2>2. \A j \in 1 .. Len(c) : c[j] \in ToSet(c)
    BY <1>1 DEF ToSet
  <2> QED BY <2>1, <2>2
<1>5. ToSet(c) = ToSet(a) \cup ToSet(b)
  <2>1. \A s \in Seq(T) : \A x : x \in ToSet(s) <=> \E i \in 1 .. Len(s) : x = s[i]
    BY DEF ToSet
  <2>2. \A x \in ToSet(c) : x \in ToSet(a) \cup ToSet(b)
    BY <1>1, <1>2, <2>1
  <2>3. \A x \in ToSet(a) \cup ToSet(b) : x \in ToSet(c)
    BY <1>3, <1>4, <2>1
  <2> QED BY <2>2, <2>3
<1> QED BY <1>1, <1>5 DEF c

\* One sequence of many: what it has, each of them had.
LEMMA FlattenHolds ==
    ASSUME NEW T, NEW seqs \in Seq(Seq(T))
    PROVE  /\ FlattenSeq(seqs) \in Seq(T)
           /\ ToSet(FlattenSeq(seqs)) = UNION { ToSet(seqs[i]) : i \in DOMAIN seqs }
<1> DEFINE n == Len(seqs)
           Step(i, st) == IF i = 1 THEN seqs[1] ELSE st \o seqs[i]
           step == [p \in (1 .. n) \X Seq(T) |-> Step(p[1], p[2])]
           Solves(f) == f = [i \in 1 .. n |-> IF i = 1 THEN seqs[i] ELSE f[i - 1] \o seqs[i]]
<1>1. /\ n \in Nat /\ DOMAIN seqs = 1 .. n /\ << >> \in Seq(T) /\ ToSet(<< >>) = {}
      /\ \A i \in 1 .. n : seqs[i] \in Seq(T)
  BY DEF ToSet
<1>2. CASE n = 0
  <2>1. FlattenSeq(seqs) = << >>
    BY <1>2 DEF FlattenSeq
  <2>2. UNION { ToSet(seqs[i]) : i \in DOMAIN seqs } = {}
    BY <1>1, <1>2
  <2> QED BY <1>1, <2>1, <2>2
<1>3. CASE n # 0
  <2>1. \A i \in 1 .. n, st \in Seq(T) : Step(i, st) \in Seq(T)
    <3> TAKE i \in 1 .. n, st \in Seq(T)
    <3>1. 1 \in 1 .. n
      BY <1>1, <1>3
    <3> QED BY <1>1, <3>1, ConcatType
  <2>2. step \in [(1 .. n) \X Seq(T) -> Seq(T)] /\ \A i \in 1 .. n, st \in Seq(T) : step[i, st] = Step(i, st)
    BY <2>1
  <2>3. \E f : Solves(f)
    <3> HIDE DEF step, n, Step
    <3>1. PICK iter : FoldsList(iter, n, Seq(T), << >>, step)
      BY <1>1, <2>2, LoopExists
    <3>2. ASSUME NEW i \in 1 .. n
          PROVE  iter[1 .. i] = Step(i, iter[1 .. i - 1])
      <4>1. /\ 1 .. i \in SUBSET (1 .. n) /\ 1 .. i # {} /\ Max(1 .. i) = i
            /\ (1 .. i) \ {i} = 1 .. i - 1
        BY <1>1, LastPosition
      <4>2. iter[1 .. i] = step[i, iter[1 .. i - 1]]
        BY <3>1, <4>1 DEF FoldsList
      <4>3. 1 .. i - 1 \in SUBSET (1 .. n)
        BY <4>1
      <4>4. iter[1 .. i - 1] \in Seq(T)
        BY <3>1, <4>3 DEF FoldsList
      <4> QED BY <2>2, <4>2, <4>4
    <3> DEFINE f == [i \in 1 .. n |-> iter[1 .. i]]
    <3>3. \A i \in 1 .. n : f[i] = IF i = 1 THEN seqs[i] ELSE f[i - 1] \o seqs[i]
      <4> TAKE i \in 1 .. n
      <4>1. i # 1 => i - 1 \in 1 .. n
        BY <1>1
      <4>2. f[i] = iter[1 .. i] /\ (i # 1 => f[i - 1] = iter[1 .. i - 1])
        BY <4>1
      <4> QED BY <3>2, <4>2 DEF Step
    <3>4. Solves(f)
      <4>1. f = [i \in 1 .. n |-> f[i]]
        OBVIOUS
      <4> HIDE DEF f
      <4> QED BY <3>3, <4>1
    <3> QED BY <3>4
  <2> DEFINE f == CHOOSE f : Solves(f)
  <2>4. Solves(f)
    BY <2>3
  <2>5. FlattenSeq(seqs) = f[n]
    BY <1>3 DEF FlattenSeq
  <2> HIDE DEF f
  <2>6. \A i \in 1 .. n : f[i] = IF i = 1 THEN seqs[i] ELSE f[i - 1] \o seqs[i]
    BY <2>4
  <2> HIDE DEF Solves, n, Step, step
  <2> DEFINE P == { k \in 0 .. n : k = 0 \/ /\ f[k] \in Seq(T)
                                            /\ ToSet(f[k]) = UNION { ToSet(seqs[i]) : i \in 1 .. k } }
  <2>7. ASSUME NEW k \in 1 .. n, k - 1 \in P
        PROVE  k \in P
    <3>1. k \in 0 .. n
      BY <1>1
    <3>2. CASE k = 1
      <4>1. f[1] = seqs[1] /\ 1 .. 1 = {1}
        BY <2>6, <3>2
      <4>2. UNION { ToSet(seqs[i]) : i \in {1} } = ToSet(seqs[1])
        OBVIOUS
      <4> QED BY <1>1, <3>1, <3>2, <4>1, <4>2
    <3>3. CASE k # 1
      <4>1. k - 1 # 0
        BY <3>3
      <4>2. /\ f[k - 1] \in Seq(T) /\ seqs[k] \in Seq(T)
            /\ ToSet(f[k - 1]) = UNION { ToSet(seqs[i]) : i \in 1 .. k - 1 }
            /\ f[k] = f[k - 1] \o seqs[k]
        BY <1>1, <2>6, <2>7, <3>3, <4>1
      <4>3. ToSet(f[k]) = ToSet(f[k - 1]) \cup ToSet(seqs[k]) /\ f[k] \in Seq(T)
        <5>1. PICK a \in Seq(T), b \in Seq(T) : a = f[k - 1] /\ b = seqs[k]
          BY <4>2
        <5>2. a \o b \in Seq(T) /\ ToSet(a \o b) = ToSet(a) \cup ToSet(b)
          BY ToSetConcat
        <5> QED BY <4>2, <5>1, <5>2
      <4>4. 1 .. k = (1 .. k - 1) \cup {k}
        BY <1>1
      <4>5. UNION { ToSet(seqs[i]) : i \in 1 .. k } =
              (UNION { ToSet(seqs[i]) : i \in 1 .. k - 1 }) \cup ToSet(seqs[k])
        BY <4>4
      <4> QED BY <3>1, <4>2, <4>3, <4>5
    <3> QED BY <3>2, <3>3
  <2>8. 0 \in P
    BY <1>1
  <2>9. n \in P
    <3> HIDE DEF P
    <3>1. \A k \in 0 .. n : k \in P
      BY <1>1, <2>7, <2>8, Throughout
    <3> QED BY <1>1, <3>1
  <2> QED BY <1>1, <1>3, <2>5, <2>9
<1> QED BY <1>2, <1>3

\* What stands for stream x in the ledger, and what is left of it.
Told(x) ==
    Offsets(stage.cited[InputOf(x.sid, x.pid)]) \cup Offsets(stage.marked[InputOf(x.sid, x.pid)])

Untold(x) == Owed(x) \ Told(x)

\* The blocks of a set that name an offset.
Naming(blocks, o) == { b \in blocks : o \in Span(b.start, b.end) }

\* What a set of blocks says of the offsets of U: each is named once, and told from
\* a hole.
Tells(blocks, U, holes) ==
    /\ \A o \in U : \E b \in blocks : Naming(blocks, o) = {b}
    /\ \A b \in blocks : \A o \in Span(b.start, b.end) :
          o \in U /\ b.reason = IF o \in holes THEN "gap" ELSE "skipped"

\* A range more, in a list that no offset of it is in.
LEMMA ConcatOffsets ==
    ASSUME NEW a \in Seq(Ranges), NEW b \in Seq(Ranges)
    PROVE  a \o b \in Seq(Ranges) /\ Offsets(a \o b) = Offsets(a) \cup Offsets(b)
<1>1. \A list \in Seq(Ranges) : \A o : o \in Offsets(list) <=>
        \E r \in ToSet(list) : o \in r[1] .. r[2] - 1
  BY DEF Offsets, ToSet
<1>2. a \o b \in Seq(Ranges) /\ ToSet(a \o b) = ToSet(a) \cup ToSet(b)
  BY ToSetConcat
<1>3. \A o : o \in Offsets(a \o b) <=> o \in Offsets(a) \cup Offsets(b)
  BY <1>1, <1>2
<1> QED BY <1>2, <1>3

\* What autofill finds uncovered: what neither a cite nor a mark nor a FIN stands for.
LEMMA UncoveredIsUntold ==
    ASSUME NEW x, InputStream(x),
           LET k == InputOf(x.sid, x.pid) IN stage.cited[k] \in Lists /\ stage.marked[k] \in Lists
    PROVE  /\ Uncovered(x) \in Seq(Ranges) /\ Coalesced(Uncovered(x))
           /\ Offsets(Uncovered(x)) = Untold(x)
<1> DEFINE k == InputOf(x.sid, x.pid)
           fins == [i \in DOMAIN x.fins |-> <<x.fins[i], x.fins[i] + 1>>]
           all == stage.cited[k] \o stage.marked[k] \o fins
<1>1. /\ stage.cited[k] \in Seq(Ranges) /\ stage.marked[k] \in Seq(Ranges)
      /\ x.fins \in Seq(Nat) /\ x.extent \in Nat
  BY DEF Lists, InputStream
<1>2. fins \in Seq(Ranges) /\ Len(fins) = Len(x.fins) /\ \A i \in 1 .. Len(fins) : fins[i] = <<x.fins[i], x.fins[i] + 1>>
  <2>1. \A i \in DOMAIN x.fins : <<x.fins[i], x.fins[i] + 1>> \in Ranges
    BY <1>1 DEF Ranges
  <2>2. DOMAIN x.fins = 1 .. Len(x.fins) /\ Len(x.fins) \in Nat
    BY <1>1
  <2> QED BY <2>1, <2>2
<1>3. Offsets(fins) = ToSet(x.fins)
  <2> HIDE DEF fins
  <2>1. \A o : o \in Offsets(fins) <=>
          o \in Nat /\ \E i \in 1 .. Len(fins) : fins[i][1] <= o /\ o < fins[i][2]
    BY <1>2, OffsetInRange
  <2>2. \A o : o \in ToSet(x.fins) <=> \E i \in 1 .. Len(x.fins) : o = x.fins[i]
    BY <1>1 DEF ToSet
  <2>3. \A i \in 1 .. Len(x.fins) : x.fins[i] \in Nat
    BY <1>1
  <2>4. \A o \in Nat, f \in Nat : <<f, f + 1>>[1] <= o /\ o < <<f, f + 1>>[2] <=> o = f
    OBVIOUS
  <2>5. ASSUME NEW o
        PROVE  o \in Offsets(fins) <=> o \in ToSet(x.fins)
    BY <1>2, <2>1, <2>2, <2>3, <2>4
  <2> QED BY <2>5
<1> HIDE DEF fins, k
<1>4. all \in Seq(Ranges) /\ Offsets(all) = Told(x) \cup ToSet(x.fins)
  <2>1. /\ stage.cited[k] \o stage.marked[k] \in Seq(Ranges)
        /\ Offsets(stage.cited[k] \o stage.marked[k]) = Told(x)
    BY <1>1, ConcatOffsets DEF Told, k
  <2> QED BY <1>2, <1>3, <2>1, ConcatOffsets
<1>5. Uncovered(x) = Complement(Coalesce(all), x.extent)
  BY DEF Uncovered, fins, k
<1> HIDE DEF all
<1>6. all \in Seq(Nat \X Nat)
  <2>1. Ranges \subseteq Nat \X Nat
    BY DEF Ranges
  <2> QED BY <1>4, <2>1
<1>7. /\ Coalesce(all) \in Seq(Ranges) /\ Coalesced(Coalesce(all))
      /\ Offsets(Coalesce(all)) = Told(x) \cup ToSet(x.fins)
  BY <1>4, <1>6, CoalesceIsUnion
<1>8. (0 .. x.extent - 1) \ (Told(x) \cup ToSet(x.fins)) = Untold(x)
  BY DEF Untold, Owed
<1> QED BY <1>1, <1>5, <1>7, <1>8, ComplementIsRest

\* The blocks autofill writes for a stream: each uncovered offset is named by one of
\* them, as the hole or the byte it is, and no other offset by any.
LEMMA FillsTell ==
    ASSUME NEW x, InputStream(x),
           LET k == InputOf(x.sid, x.pid) IN stage.cited[k] \in Lists /\ stage.marked[k] \in Lists
    PROVE  /\ FillsOf(x) \in Seq(Fills)
           /\ \A b \in ToSet(FillsOf(x)) : b.input = InputOf(x.sid, x.pid)
           /\ Tells(ToSet(FillsOf(x)), Untold(x), Offsets(x.gaps))
<1> DEFINE ranges == Uncovered(x)
           parts(i) == Labelled(ranges[i], x.gaps)
           seqs == [i \in DOMAIN ranges |-> [j \in DOMAIN parts(i) |-> UndecodedOf(x, parts(i)[j])]]
           blocks == ToSet(FillsOf(x))
<1>1. /\ ranges \in Seq(Ranges) /\ Coalesced(ranges) /\ Offsets(ranges) = Untold(x)
      /\ DOMAIN ranges = 1 .. Len(ranges)
  BY UncoveredIsUntold
<1>2. x.gaps \in Seq(Ranges) /\ Coalesced(x.gaps) /\ x.sid \in Sids /\ x.pid \in Pids
  BY DEF InputStream
<1>3. FillsOf(x) = FlattenSeq(seqs)
  BY DEF FillsOf
<1> HIDE DEF ranges
<1>4. \A i \in 1 .. Len(ranges) :
        /\ ranges[i] \in Ranges /\ ranges[i][1] \in Nat /\ ranges[i][2] \in Nat
        /\ Tiles(parts(i), ranges[i][1], ranges[i][2], Offsets(x.gaps))
        /\ parts(i) \in Seq(Parts)
  <2> TAKE i \in 1 .. Len(ranges)
  <2>1. ranges[i] \in Ranges /\ ranges[i][1] \in Nat /\ ranges[i][2] \in Nat
    BY <1>1, RangeOf
  <2>2. Tiles(parts(i), ranges[i][1], ranges[i][2], Offsets(x.gaps))
    BY <1>2, <2>1, LabelsAreTrue
  <2>3. parts(i) \in Seq(Parts)
    BY <2>2 DEF Tiles
  <2> QED BY <2>1, <2>2, <2>3
<1> HIDE DEF parts
<1>5. \A part \in Parts :
        /\ UndecodedOf(x, part) \in Fills
        /\ UndecodedOf(x, part).start = part.start /\ UndecodedOf(x, part).end = part.end
        /\ UndecodedOf(x, part).reason = part.reason
        /\ UndecodedOf(x, part).input = InputOf(x.sid, x.pid)
  <2> TAKE part \in Parts
  <2>1. InputOf(x.sid, x.pid) \in Inputs /\ 0 \in SourceIds /\ 0 \in DecoderIds
    BY <1>2, StageAssumption
  <2>2. part.start \in Nat /\ part.end \in Nat /\ part.reason \in {"gap", "skipped"}
    BY DEF Parts
  <2> QED BY <2>1, <2>2 DEF UndecodedOf, Fills
<1>6. \A i \in 1 .. Len(ranges) : seqs[i] \in Seq(Fills) /\ Len(seqs[i]) = Len(parts(i))
        /\ \A j \in 1 .. Len(parts(i)) : seqs[i][j] = UndecodedOf(x, parts(i)[j]) /\ parts(i)[j] \in Parts
  <2> TAKE i \in 1 .. Len(ranges)
  <2>1. parts(i) \in Seq(Parts)
    BY <1>4
  <2>2. seqs[i] = [j \in DOMAIN parts(i) |-> UndecodedOf(x, parts(i)[j])]
    BY <1>1
  <2>3. \A j \in DOMAIN parts(i) : parts(i)[j] \in Parts /\ UndecodedOf(x, parts(i)[j]) \in Fills
    BY <1>5, <2>1
  <2> QED BY <2>1, <2>2, <2>3
<1>7. seqs \in Seq(Seq(Fills)) /\ DOMAIN seqs = 1 .. Len(ranges)
  BY <1>1, <1>6
<1> HIDE DEF seqs
<1>8. FillsOf(x) \in Seq(Fills) /\ blocks = UNION { ToSet(seqs[i]) : i \in 1 .. Len(ranges) }
  BY <1>3, <1>7, FlattenHolds
<1> HIDE DEF blocks
<1>9. \A b : b \in blocks <=> \E i \in 1 .. Len(ranges) : \E j \in 1 .. Len(parts(i)) :
                                  b = UndecodedOf(x, parts(i)[j]) /\ parts(i)[j] \in Parts
  <2>1. ASSUME NEW i \in 1 .. Len(ranges), NEW b
        PROVE  b \in ToSet(seqs[i]) <=> \E j \in 1 .. Len(parts(i)) :
                                            b = UndecodedOf(x, parts(i)[j]) /\ parts(i)[j] \in Parts
    <3>1. b \in ToSet(seqs[i]) <=> \E j \in 1 .. Len(parts(i)) : b = seqs[i][j]
      BY <1>6 DEF ToSet
    <3>2. \A j \in 1 .. Len(parts(i)) : seqs[i][j] = UndecodedOf(x, parts(i)[j]) /\ parts(i)[j] \in Parts
      BY <1>6
    <3> QED BY <3>1, <3>2
  <2>2. \A b : b \in blocks <=> \E i \in 1 .. Len(ranges) : b \in ToSet(seqs[i])
    BY <1>8
  <2> QED BY <2>1, <2>2
<1>10. \A o : o \in Untold(x) <=>
         o \in Nat /\ \E i \in 1 .. Len(ranges) : ranges[i][1] <= o /\ o < ranges[i][2]
  BY <1>1, OffsetInRange
<1>11. \A b \in blocks : b.input = InputOf(x.sid, x.pid)
  BY <1>5, <1>9
<1>12. ASSUME NEW i \in 1 .. Len(ranges), NEW j \in 1 .. Len(parts(i)), NEW o
       PROVE  /\ o \in Span(UndecodedOf(x, parts(i)[j]).start, UndecodedOf(x, parts(i)[j]).end)
                    <=> o \in Nat /\ parts(i)[j].start <= o /\ o < parts(i)[j].end
              /\ parts(i)[j].start \in Nat /\ parts(i)[j].end \in Nat
              /\ ranges[i][1] <= parts(i)[j].start /\ parts(i)[j].end <= ranges[i][2]
              /\ ranges[i][1] \in Nat /\ ranges[i][2] \in Nat
  <2>1. PICK part \in Parts : part = parts(i)[j]
    BY <1>4
  <2>2. part.start \in Nat /\ part.end \in Nat
    BY DEF Parts
  <2>3. ranges[i][1] <= part.start /\ part.end <= ranges[i][2]
    BY <1>4, <2>1 DEF Tiles
  <2>4. o \in Span(part.start, part.end) <=> o \in Nat /\ part.start <= o /\ o < part.end
    BY <2>2 DEF Span
  <2> QED BY <1>4, <1>5, <2>1, <2>2, <2>3, <2>4
<1>13. ASSUME NEW b \in blocks, NEW o \in Span(b.start, b.end)
       PROVE  o \in Untold(x) /\ b.reason = IF o \in Offsets(x.gaps) THEN "gap" ELSE "skipped"
  <2>1. PICK i \in 1 .. Len(ranges) : \E j \in 1 .. Len(parts(i)) :
          b = UndecodedOf(x, parts(i)[j]) /\ parts(i)[j] \in Parts
    BY <1>9
  <2>2. PICK j \in 1 .. Len(parts(i)) : b = UndecodedOf(x, parts(i)[j]) /\ parts(i)[j] \in Parts
    BY <2>1
  <2>3. o \in Nat /\ parts(i)[j].start <= o /\ o < parts(i)[j].end
    BY <1>12, <1>13, <2>2
  <2>4. ranges[i][1] <= o /\ o < ranges[i][2]
    BY <1>12, <2>3
  <2>5. parts(i)[j].reason = IF o \in Offsets(x.gaps) THEN "gap" ELSE "skipped"
    BY <1>4, <2>3 DEF Tiles
  <2> QED BY <1>5, <1>10, <2>2, <2>3, <2>4, <2>5
<1>14. ASSUME NEW o \in Untold(x)
       PROVE  \E b \in blocks : Naming(blocks, o) = {b}
  <2>1. o \in Nat
    BY <1>10
  <2>2. PICK i \in 1 .. Len(ranges) : ranges[i][1] <= o /\ o < ranges[i][2]
    BY <1>10
  <2>3. PICK j \in 1 .. Len(parts(i)) : parts(i)[j].start <= o /\ o < parts(i)[j].end
    <3>1. o \in ranges[i][1] .. ranges[i][2] - 1
      BY <1>4, <2>1, <2>2
    <3> QED BY <1>4, <3>1 DEF Tiles
  <2>4. PICK b : b = UndecodedOf(x, parts(i)[j])
    OBVIOUS
  <2>5. b \in blocks /\ o \in Span(b.start, b.end)
    BY <1>6, <1>9, <1>12, <2>1, <2>3, <2>4
  <2>6. ASSUME NEW c \in blocks, o \in Span(c.start, c.end)
        PROVE  c = b
    <3>1. PICK h \in 1 .. Len(ranges) : \E m \in 1 .. Len(parts(h)) : c = UndecodedOf(x, parts(h)[m])
      BY <1>9
    <3>2. PICK m \in 1 .. Len(parts(h)) : c = UndecodedOf(x, parts(h)[m])
      BY <3>1
    <3>3. parts(h)[m].start <= o /\ o < parts(h)[m].end
      BY <1>12, <2>6, <3>2
    <3>4. ranges[h][1] <= o /\ o < ranges[h][2]
      BY <1>12, <2>1, <3>3
    <3>5. h = i
      <4>1. \A a, c1 \in 1 .. Len(ranges) : a < c1 => ranges[a][2] < ranges[c1][1]
        BY <1>1 DEF Coalesced
      <4>2. ~ (h < i) /\ ~ (i < h)
        BY <1>4, <2>1, <2>2, <3>4, <4>1
      <4> QED BY <4>2
    <3>6. m = j
      <4>1. \A a, c1 \in 1 .. Len(parts(i)) : a < c1 => parts(i)[a].end <= parts(i)[c1].start
        BY <1>4 DEF Tiles
      <4>2. m \in 1 .. Len(parts(i)) /\ parts(i)[m].start <= o /\ o < parts(i)[m].end
        BY <3>2, <3>3, <3>5
      <4>3. /\ parts(i)[m].start \in Nat /\ parts(i)[m].end \in Nat
            /\ parts(i)[j].start \in Nat /\ parts(i)[j].end \in Nat
        BY <1>12, <4>2
      <4>4. ~ (m < j) /\ ~ (j < m)
        BY <2>1, <2>3, <4>1, <4>2, <4>3
      <4> QED BY <4>2, <4>4
    <3> QED BY <2>4, <3>2, <3>5, <3>6
  <2>7. Naming(blocks, o) = {b}
    BY <2>5, <2>6 DEF Naming
  <2> QED BY <2>5, <2>7
<1>15. Tells(blocks, Untold(x), Offsets(x.gaps))
  BY <1>13, <1>14 DEF Tells
<1> QED BY <1>8, <1>11, <1>15 DEF blocks

-------------------------------------------------------------------------------
-------------------------------------------------------------------------------
(* The inductive invariant of a stage *)

\* The offsets a set of blocks names.
Named(blocks) == UNION { Span(b.start, b.end) : b \in blocks }

\* The blocks of input stream k that are in the file, and those autofill has yet to write.
Meant(k) == MarksInFile(k) \cup { b \in ToSet(stage.fills) : b.input = k }

\* What close() leaves behind for a stream: cites and marks do not meet, and what
\* neither stands for is named once and truthfully.
Answers(x, cited, marked, blocks) ==
    LET untold == Owed(x) \ (Offsets(cited) \cup Offsets(marked))
    IN  /\ Offsets(cited) \cap Offsets(marked) = {}
        /\ Offsets(marked) \subseteq Named(blocks)
        /\ Named(blocks) \subseteq Offsets(marked) \cup untold
        /\ \A o \in untold : \E b \in blocks :
              Naming(blocks, o) = {b} /\ b.reason = IF o \in Offsets(x.gaps) THEN "gap" ELSE "skipped"

Answered(x) ==
    LET k == InputOf(x.sid, x.pid)
    IN  Answers(x, stage.cited[k], stage.marked[k], Meant(k))

StageKnown ==
    /\ stage \in [inputs : InputFiles, fill : BOOLEAN,
                  cited : [Inputs -> Lists], marked : [Inputs -> Lists],
                  step : {"open", "fill", "end", "raise", "done"},
                  unfilled : Seq(ToSet(stage.inputs)), fills : Seq(Fills)]
    /\ stage.step = "fill" => call = Idle
    /\ call.op = "close" => stage.step = "end"
    /\ stage.step \in {"open", "end"} => stage.fills = << >>

\* The ledger's cites are those of the records accepted, each of its own session.
LedgerKnown ==
    /\ \A s \in Sids : ToSet(accepted[s]) \subseteq SentIn[s]
    /\ \A k \in Inputs : Offsets(stage.cited[k]) =
          UNION { CitedOffsets(SpansOn(b, k)) : b \in UNION { ToSet(accepted[s]) : s \in Sids } }

\* Its marks are those of the blocks written, until autofill comes to the stream.
MarksKnown ==
    /\ stage.step = "open" =>
          \A k \in Inputs : Offsets(stage.marked[k]) = Named(Meant(k))
    /\ stage.step = "fill" /\ stage.fill =>
          /\ \A i, j \in DOMAIN stage.unfilled : i # j => stage.unfilled[i] # stage.unfilled[j]
          /\ \A x \in ToSet(stage.inputs) :
                IF x \in ToSet(stage.unfilled)
                THEN Offsets(stage.marked[InputOf(x.sid, x.pid)]) = Named(Meant(InputOf(x.sid, x.pid)))
                ELSE Answered(x)
    /\ stage.step = "end" /\ stage.fill => \A x \in ToSet(stage.inputs) : Answered(x)

StageInv ==
    /\ StageKnown
    /\ LedgerKnown
    /\ MarksKnown
    /\ ClosedStageCovers
    /\ FillsAreHonest

-------------------------------------------------------------------------------
(* What a step leaves alone *)

MarksAlike == \A k \in Inputs : MarksInFile(k)' = MarksInFile(k)

\* The blocks of a file.
LEMMA FileHolds ==
    ASSUME HistoryKnown
    PROVE  /\ \A b \in ToSet(file) : b \in Blocks
           /\ \A b \in ToSet(file) : b.kind = "record" => b \in Producer.records
<1>1. file \in Seq(Blocks)
  BY DEF HistoryKnown
<1>2. \A b \in ToSet(file) : b \in Blocks
  BY <1>1 DEF ToSet
<1>3. \A b \in Blocks : b.kind = "record" => b \in Producer.records
  BY WriterAssumption DEF Blocks, Scaffolds, Fills, Stateless
<1> QED BY <1>2, <1>3

\* A block written is one more in the file.
LEMMA BlockWritten ==
    ASSUME HistoryKnown, NEW b \in Blocks, Emit(b)
    PROVE  ToSet(file') = ToSet(file) \cup (IF Emits(b) THEN {b} ELSE {})
<1>1. file \in Seq(Blocks)
  BY DEF HistoryKnown
<1>2. CASE ~ Emits(b)
  BY <1>2 DEF Emit
<1>3. CASE Emits(b)
  <2>1. file' = Append(file, b)
    BY <1>3 DEF Emit
  <2> QED BY <1>1, <1>3, <2>1, AppendMembers
<1> QED BY <1>2, <1>3

\* One that is no mark leaves the marks of the file as they were.
LEMMA NoMarkWritten ==
    ASSUME HistoryKnown, NEW b \in Blocks, b.kind # "undecoded", Emit(b)
    PROVE  MarksAlike
<1>1. \A c : c \in ToSet(file') /\ c.kind = "undecoded" <=> c \in ToSet(file) /\ c.kind = "undecoded"
  BY BlockWritten
<1> QED BY <1>1 DEF MarksAlike, MarksInFile

LEMMA MarksStay == ASSUME UNCHANGED file PROVE MarksAlike
BY DEF MarksAlike, MarksInFile

\* The streams of an input have numbers of their own.
LEMMA InputsFit ==
    ASSUME NEW inputs \in InputFiles
    PROVE  /\ inputs \in Seq(ToSet(inputs))
           /\ \A x \in ToSet(inputs) : InputStream(x) /\ InputOf(x.sid, x.pid) \in Inputs
           /\ \A x, y \in ToSet(inputs) :
                 x # y => InputOf(x.sid, x.pid) # InputOf(y.sid, y.pid)
           /\ \A i, j \in DOMAIN inputs : i # j => inputs[i] # inputs[j]
<1>1. /\ inputs \in Seq(ToSet(inputs))
      /\ \A i \in DOMAIN inputs : InputStream(inputs[i])
      /\ \A i, j \in DOMAIN inputs :
            i # j => InputOf(inputs[i].sid, inputs[i].pid) # InputOf(inputs[j].sid, inputs[j].pid)
      /\ \A s \in Sids, p \in Pids : InputOf(s, p) \in Inputs
  BY StageAssumption
<1>2. \A x : x \in ToSet(inputs) <=> \E i \in DOMAIN inputs : x = inputs[i]
  BY DEF ToSet
<1>3. \A x \in ToSet(inputs) : InputStream(x)
  BY <1>1, <1>2
<1>4. \A x \in ToSet(inputs) : InputOf(x.sid, x.pid) \in Inputs
  BY <1>1, <1>3 DEF InputStream
<1>5. \A x, y \in ToSet(inputs) : x # y => InputOf(x.sid, x.pid) # InputOf(y.sid, y.pid)
  BY <1>1, <1>2
<1> QED BY <1>1, <1>3, <1>4, <1>5

\* What a complete file holds stays true of it: it is not written any more, and more
\* may be counted, and more be lost.
LEMMA ClosedStays ==
    ASSUME ClosedStageCovers, FillsAreHonest, HistoryKnown,
           UNCHANGED file \/ ~ Complete', lost \subseteq lost',
           stage'.inputs = stage.inputs, stage'.fill = stage.fill,
           \A k \in Inputs : /\ Offsets(stage.cited[k]) \subseteq Offsets(stage'.cited[k])
                              /\ Offsets(stage.marked[k]) \subseteq Offsets(stage'.marked[k]),
           stage.inputs \in InputFiles
    PROVE  ClosedStageCovers' /\ FillsAreHonest'
<1>1. CASE ~ Complete'
  BY <1>1 DEF ClosedStageCovers, FillsAreHonest, Filled
<1>2. CASE UNCHANGED file
  <2>1. Filled' => Filled
    BY <1>2 DEF Filled, Complete
  <2>2. \A k : MarksInFile(k)' = MarksInFile(k) /\ MarkedInFile(k)' = MarkedInFile(k) /\ CitedInFile(k)' = CitedInFile(k)
    BY <1>2 DEF MarksInFile, MarkedInFile, CitedInFile, CitesOf
  <2>3. \A x \in ToSet(stage.inputs) : InputOf(x.sid, x.pid) \in Inputs
    BY InputsFit
  <2>4. ClosedStageCovers'
    BY <2>1, <2>2 DEF ClosedStageCovers
  <2>5. FillsAreHonest'
    <3> SUFFICES ASSUME Filled, NEW x \in ToSet(stage.inputs)
                 PROVE  LET k     == InputOf(x.sid, x.pid)
                            told  == Offsets(stage'.cited[k]) \cup Offsets(stage'.marked[k])
                        IN  /\ \A o \in Owed(x) \ told :
                                  \E b \in MarksInFile(k) :
                                      /\ { c \in MarksInFile(k) : o \in Span(c.start, c.end) } = {b}
                                      /\ b.reason = IF o \in Offsets(x.gaps) THEN "gap" ELSE "skipped"
                            /\ MarkedInFile(k) \cap ToSet(x.fins) \subseteq told
      BY <2>1, <2>2 DEF FillsAreHonest
    <3> DEFINE k == InputOf(x.sid, x.pid)
               before == Offsets(stage.cited[k]) \cup Offsets(stage.marked[k])
               after == Offsets(stage'.cited[k]) \cup Offsets(stage'.marked[k])
    <3>1. before \subseteq after
      BY <2>3
    <3>2. /\ \A o \in Owed(x) \ before :
                \E b \in MarksInFile(k) :
                    /\ { c \in MarksInFile(k) : o \in Span(c.start, c.end) } = {b}
                    /\ b.reason = IF o \in Offsets(x.gaps) THEN "gap" ELSE "skipped"
          /\ MarkedInFile(k) \cap ToSet(x.fins) \subseteq before
      BY DEF FillsAreHonest
    <3> HIDE DEF before, after
    <3>3. \A o \in Owed(x) \ after : o \in Owed(x) \ before
      BY <3>1
    <3> QED BY <3>1, <3>2, <3>3 DEF after
  <2> QED BY <2>4, <2>5
<1> QED BY <1>1, <1>2

\* A step that writes no mark and takes no record, and after which close() is where
\* it was, or through.
LEMMA StageStays ==
    ASSUME StageInv, HistoryKnown, UNCHANGED accepted, MarksAlike,
           UNCHANGED file \/ ~ Complete', lost \subseteq lost',
           NEW step \in {stage.step, "raise", "done"}, stage' = [stage EXCEPT !.step = step],
           step = "fill" => call' = Idle,
           call'.op = "close" => step = "end"
    PROVE  StageInv'
<1>1. stage \in [inputs : InputFiles, fill : BOOLEAN,
                 cited : [Inputs -> Lists], marked : [Inputs -> Lists],
                 step : {"open", "fill", "end", "raise", "done"},
                 unfilled : Seq(ToSet(stage.inputs)), fills : Seq(Fills)]
  BY DEF StageInv, StageKnown
<1>2. /\ stage'.inputs = stage.inputs /\ stage'.fill = stage.fill
      /\ stage'.cited = stage.cited /\ stage'.marked = stage.marked
      /\ stage'.unfilled = stage.unfilled /\ stage'.fills = stage.fills
      /\ stage'.step = step
  BY <1>1
<1>3. StageKnown'
  <2>1. stage' \in [inputs : InputFiles, fill : BOOLEAN,
                    cited : [Inputs -> Lists], marked : [Inputs -> Lists],
                    step : {"open", "fill", "end", "raise", "done"},
                    unfilled : Seq(ToSet(stage'.inputs)), fills : Seq(Fills)]
    <3>1. step \in {"open", "fill", "end", "raise", "done"}
      BY <1>1
    <3> QED BY <1>1, <1>2, <3>1
  <2>2. step \in {"open", "end"} => stage.fills = << >>
    BY DEF StageInv, StageKnown
  <2> QED BY <1>2, <2>1, <2>2 DEF StageKnown
<1>4. LedgerKnown'
  BY <1>2 DEF StageInv, LedgerKnown
<1>5. \A k \in Inputs : Meant(k)' = Meant(k)
  BY <1>2 DEF MarksAlike, Meant
<1>6. stage.inputs \in InputFiles /\ \A x \in ToSet(stage.inputs) : InputOf(x.sid, x.pid) \in Inputs
  BY <1>1, InputsFit
<1>7. \A x \in ToSet(stage.inputs) : Answered(x)' = Answered(x)
  BY <1>2, <1>5, <1>6 DEF Answered
<1>8. MarksKnown'
  <2>1. CASE step = stage.step
    <3>1. MarksKnown
      BY DEF StageInv
    <3> QED BY <1>2, <1>5, <1>6, <1>7, <2>1, <3>1 DEF MarksKnown
  <2>2. CASE step \in {"raise", "done"}
    BY <1>2, <2>2 DEF MarksKnown
  <2> QED BY <2>1, <2>2
<1>9. ClosedStageCovers' /\ FillsAreHonest'
  BY <1>2, <1>6, ClosedStays DEF StageInv
<1> QED BY <1>3, <1>4, <1>8, <1>9 DEF StageInv

\* The same for a step that leaves the stage alone.
LEMMA StageAlone ==
    ASSUME StageInv, HistoryKnown, UNCHANGED <<stage, accepted>>, MarksAlike,
           UNCHANGED file \/ ~ Complete', lost \subseteq lost',
           stage.step = "fill" => call' = Idle,
           call'.op = "close" => stage.step = "end"
    PROVE  StageInv'
<1>1. stage \in [inputs : InputFiles, fill : BOOLEAN,
                 cited : [Inputs -> Lists], marked : [Inputs -> Lists],
                 step : {"open", "fill", "end", "raise", "done"},
                 unfilled : Seq(ToSet(stage.inputs)), fills : Seq(Fills)]
  BY DEF StageInv, StageKnown
<1>2. stage' = [stage EXCEPT !.step = stage.step]
  BY <1>1
<1> QED BY <1>2, StageStays

\* A block that is no mark and no End is written, or refused.
LEMMA StageWrites ==
    ASSUME StageInv, WriterInv, NEW b \in Blocks, b.kind # "undecoded", b.kind # "end", Emit(b)
    PROVE  /\ HistoryKnown /\ MarksAlike
           /\ UNCHANGED file \/ ~ Complete'
<1>1. HistoryKnown
  BY DEF WriterInv
<1>2. MarksAlike
  BY <1>1, NoMarkWritten
<1>3. UNCHANGED file \/ ~ Complete'
  BY <1>1, FileGrows
<1> QED BY <1>1, <1>2, <1>3

-------------------------------------------------------------------------------
(* The producer's calls *)

LEMMA StageDiscontinuity ==
    ASSUME StageInv, WriterInv, NEW b \in Blocks, b.kind = "discontinuity", Discontinuity(b),
           UNCHANGED stage
    PROVE  StageInv'
<1>1. /\ Emit(b) /\ call = Idle /\ UNCHANGED <<call, accepted, lost>>
  BY DEF Discontinuity, MayCall, history
<1>2. HistoryKnown /\ MarksAlike /\ (UNCHANGED file \/ ~ Complete')
  BY <1>1, StageWrites
<1>3. call.op # "close"
  BY <1>1 DEF Idle
<1> QED BY <1>1, <1>2, <1>3, StageAlone

LEMMA StageParticipant ==
    ASSUME StageInv, WriterInv, NEW b \in Producer.participants, Participant(b), UNCHANGED stage
    PROVE  StageInv'
<1>1. /\ Emit(b) /\ call = Idle /\ UNCHANGED <<call, accepted, lost>>
  BY DEF Participant, MayCall, history
<1>2. b \in Blocks /\ b.kind = "participant"
  BY WriterAssumption DEF Blocks
<1>3. HistoryKnown /\ MarksAlike /\ (UNCHANGED file \/ ~ Complete')
  BY <1>1, <1>2, StageWrites
<1>4. call.op # "close"
  BY <1>1 DEF Idle
<1> QED BY <1>1, <1>3, <1>4, StageAlone

LEMMA StageBegins ==
    ASSUME StageInv, WriterInv, NEW s \in Sids, NEW mode, BeginSession(s, mode), UNCHANGED stage
    PROVE  StageInv'
<1>1. /\ Emit([kind |-> "session", sid |-> s]) /\ call = Idle /\ UNCHANGED <<call, accepted, lost>>
  BY DEF BeginSession, MayCall, history
<1>2. PICK b \in Blocks : b = [kind |-> "session", sid |-> s] /\ b.kind = "session"
  <2>1. [kind |-> "session", sid |-> s] \in Blocks
    BY DEF Blocks
  <2>2. [kind |-> "session", sid |-> s].kind = "session"
    OBVIOUS
  <2> QED BY <2>1, <2>2
<1>3. HistoryKnown /\ MarksAlike /\ (UNCHANGED file \/ ~ Complete')
  BY <1>1, <1>2, StageWrites
<1>4. call.op # "close"
  BY <1>1 DEF Idle
<1> QED BY <1>1, <1>3, <1>4, StageAlone

\* A call that leaves the file alone: end(), close() of the output.
LEMMA StageEnds ==
    ASSUME StageInv, WriterInv, NEW s, NEW extents, End(s, extents), UNCHANGED stage, stage.step # "fill"
    PROVE  StageInv'
<1>1. /\ UNCHANGED <<file, accepted, lost>> /\ call'.op = "end"
  BY DEF End, history
<1> QED BY <1>1, MarksStay, StageAlone DEF WriterInv

LEMMA StageCloses ==
    ASSUME StageInv, WriterInv, Close, UNCHANGED stage, stage.step = "end"
    PROVE  StageInv'
<1>1. UNCHANGED <<file, accepted, lost>>
  BY DEF Close, history
<1> QED BY <1>1, MarksStay, StageAlone DEF WriterInv

\* The output is closed without an End block.
LEMMA StageAbandons ==
    ASSUME StageInv, WriterInv, Abandon, stage' = [stage EXCEPT !.step = "done"]
    PROVE  StageInv'
<1>1. UNCHANGED <<file, accepted, lost, call>> /\ call = Idle
  BY DEF Abandon, history
<1>2. call'.op # "close"
  BY <1>1 DEF Idle
<1> QED BY <1>1, <1>2, MarksStay, StageStays DEF WriterInv

\* end() ends: its block is written, or refused and the call raises.
LEMMA StageEndsSession ==
    ASSUME StageInv, WriterInv, EndSession,
           NEW step \in {stage.step, "raise", "done"}, stage' = [stage EXCEPT !.step = step]
    PROVE  StageInv'
<1>1. /\ Emit(SessionEndOf(call.sid, call.extents)) /\ call' = Idle /\ UNCHANGED <<accepted, lost>>
  BY DEF EndSession, history
<1>2. PICK b \in Blocks : b = SessionEndOf(call.sid, call.extents) /\ b.kind = "sessionEnd"
  <2> DEFINE c == SessionEndOf(call.sid, call.extents)
  <2>1. c \in Blocks
    BY DEF WriterInv, CallKnown, SessionEndOf, Blocks
  <2>2. c.kind = "sessionEnd"
    BY DEF SessionEndOf
  <2> QED BY <2>1, <2>2
<1>3. HistoryKnown /\ MarksAlike /\ (UNCHANGED file \/ ~ Complete')
  BY <1>1, <1>2, StageWrites
<1>4. call'.op # "close"
  BY <1>1 DEF Idle
<1> QED BY <1>1, <1>3, <1>4, StageStays

\* A flush raised.
LEMMA StageUnwinds ==
    ASSUME StageInv, WriterInv, Unwind,
           NEW step \in {stage.step, "raise", "done"}, stage' = [stage EXCEPT !.step = step]
    PROVE  StageInv'
<1>1. /\ UNCHANGED <<file, accepted>> /\ call' = Idle /\ lost \subseteq lost'
  BY DEF Unwind
<1>2. call'.op # "close"
  BY <1>1 DEF Idle
<1> QED BY <1>1, <1>2, MarksStay, StageStays DEF WriterInv

\* A flush goes on.
LEMMA StageFlushes ==
    ASSUME StageInv, WriterInv, Flushes
    PROVE  StageInv'
<1>1. UNCHANGED stage
  BY DEF Flushes
<1>2. stage.step = "fill" => call = Idle
  BY DEF StageInv, StageKnown
<1>3. call.op = "close" => stage.step = "end"
  BY DEF StageInv, StageKnown
<1>4. call.step \in {"flush", "merge"} => stage.step # "fill"
  BY <1>2 DEF Idle
<1>5. CASE SkipFlush \/ StartFlush \/ FlushDone \/ MergeRuns
  <2>1. /\ UNCHANGED <<file, accepted, lost>> /\ call.step \in {"flush", "merge"}
    BY <1>5 DEF SkipFlush, StartFlush, FlushDone, MergeRuns, Flushing, history
  <2>2. call'.op = call.op
    <3>1. call \in [op : {"none", "end", "close"}, sid : Sids \cup {None}, extents : Seq(ExtentType),
                    left : Seq(Sids), step : {"none", "flush", "merge", "raise"}]
      BY DEF WriterInv, CallKnown
    <3> QED BY <1>5, <3>1 DEF SkipFlush, StartFlush, FlushDone, MergeRuns
  <2> QED BY <1>1, <1>3, <1>4, <2>1, <2>2, MarksStay, StageAlone DEF WriterInv
<1>6. ASSUME NEW p \in Pair, MergeYields(p)
      PROVE  StageInv'
  <2> DEFINE s == Head(call.left)
             b == frontier[p].head
  <2>1. /\ EmitRecord(s, b) /\ UNCHANGED <<accepted, lost>> /\ call.step = "merge"
        /\ call' = call \/ call' = [call EXCEPT !.step = "raise"]
    BY <1>6 DEF MergeYields
  <2>2. b \in Producer.records /\ b.sid = s
    BY <1>6, HeadYielded
  <2>3. b \in Blocks /\ b.kind = "record" /\ HistoryKnown
    BY <2>2, SentType DEF WriterInv
  <2>4. UNCHANGED file \/ Emit(b)
    BY <2>1 DEF EmitRecord
  <2>5. MarksAlike /\ (UNCHANGED file \/ ~ Complete')
    BY <2>3, <2>4, StageWrites, MarksStay
  <2>6. call'.op = call.op
    <3>1. call \in [op : {"none", "end", "close"}, sid : Sids \cup {None}, extents : Seq(ExtentType),
                    left : Seq(Sids), step : {"none", "flush", "merge", "raise"}]
      BY DEF WriterInv, CallKnown
    <3> QED BY <2>1, <3>1
  <2> QED BY <1>1, <1>3, <1>4, <2>1, <2>3, <2>5, <2>6, StageAlone
<1> QED BY <1>5, <1>6 DEF Flushes

\* record() of the writer returns, and the record is counted, or it raises and is not.
LEMMA RecordCounts ==
    ASSUME WriterInv, NEW b \in Producer.records, Record(b) \/ Buffer(b)
    PROVE  /\ MarksAlike /\ (UNCHANGED file \/ ~ Complete')
           /\ call = Idle /\ UNCHANGED <<call, lost>>
           /\ IF Takes(b) THEN accepted' = [accepted EXCEPT ![b.sid] = Append(@, b)]
                          ELSE UNCHANGED accepted
<1>1. b.sid \in Sids /\ b \in Blocks /\ b.kind = "record" /\ HistoryKnown
  BY SentType DEF WriterInv
<1>2. CASE Buffer(b)
  <2>1. /\ UNCHANGED <<file, call, lost>> /\ call = Idle
        /\ accepted' = [accepted EXCEPT ![b.sid] = Append(@, b)]
        /\ Takes(b)
    BY <1>2 DEF Buffer, MayCall, Takes
  <2> QED BY <2>1, MarksStay
<1>3. CASE Record(b)
  <2>1. /\ UNCHANGED <<call, lost>> /\ call = Idle /\ EmitRecord(b.sid, b)
        /\ accepted' = IF RecordEmits(b.sid, b)
                       THEN [accepted EXCEPT ![b.sid] = Append(@, b)] ELSE accepted
        /\ Takes(b) <=> RecordEmits(b.sid, b)
    BY <1>3 DEF Record, MayCall, Takes
  <2>2. UNCHANGED file \/ Emit(b)
    BY <2>1 DEF EmitRecord
  <2>3. MarksAlike /\ (UNCHANGED file \/ ~ Complete')
    BY <1>1, <2>2, NoMarkWritten, FileGrows, MarksStay
  <2> QED BY <2>1, <2>3
<1> QED BY <1>2, <1>3

LEMMA StageCounts ==
    ASSUME StageInv, WriterInv, NEW b \in Producer.records, Record(b) \/ Buffer(b),
           stage' = Counted(b), stage.step \in {"open", "done"}
    PROVE  StageInv'
<1>1. /\ MarksAlike /\ (UNCHANGED file \/ ~ Complete')
      /\ call = Idle /\ UNCHANGED <<call, lost>>
      /\ IF Takes(b) THEN accepted' = [accepted EXCEPT ![b.sid] = Append(@, b)]
                     ELSE UNCHANGED accepted
  BY RecordCounts
<1>2. call'.op # "close" /\ HistoryKnown
  BY <1>1 DEF Idle, WriterInv
<1>3. CASE ~ Takes(b)
  <2>1. UNCHANGED <<stage, accepted>>
    BY <1>1, <1>3 DEF Counted
  <2> QED BY <1>1, <1>2, <2>1, StageAlone
<1>4. CASE Takes(b)
  <2>1. stage \in [inputs : InputFiles, fill : BOOLEAN,
                   cited : [Inputs -> Lists], marked : [Inputs -> Lists],
                   step : {"open", "fill", "end", "raise", "done"},
                   unfilled : Seq(ToSet(stage.inputs)), fills : Seq(Fills)]
    BY DEF StageInv, StageKnown
  <2>2. PICK cited \in [Inputs -> Lists] :
          /\ cited = Cited(stage.cited, b)
          /\ \A k \in Inputs : Offsets(cited[k]) = Offsets(stage.cited[k]) \cup CitedOffsets(SpansOn(b, k))
    <3>1. PICK before \in [Inputs -> Lists] : before = stage.cited
      BY <2>1
    <3>2. /\ Cited(before, b) \in [Inputs -> Lists]
          /\ \A k \in Inputs :
                Offsets(Cited(before, b)[k]) = Offsets(before[k]) \cup CitedOffsets(SpansOn(b, k))
      BY CitedHolds
    <3> QED BY <3>1, <3>2
  <2>3. stage' = [stage EXCEPT !.cited = cited]
    BY <1>4, <2>2 DEF Counted
  <2>4. /\ stage'.inputs = stage.inputs /\ stage'.fill = stage.fill
        /\ stage'.cited = cited /\ stage'.marked = stage.marked
        /\ stage'.unfilled = stage.unfilled /\ stage'.fills = stage.fills
        /\ stage'.step = stage.step
    BY <2>1, <2>3
  <2>5. StageKnown'
    <3>1. stage' \in [inputs : InputFiles, fill : BOOLEAN,
                      cited : [Inputs -> Lists], marked : [Inputs -> Lists],
                      step : {"open", "fill", "end", "raise", "done"},
                      unfilled : Seq(ToSet(stage'.inputs)), fills : Seq(Fills)]
      BY <2>1, <2>3, <2>4
    <3>2. stage.step \in {"open", "end"} => stage.fills = << >>
      BY DEF StageInv, StageKnown
    <3> QED BY <1>1, <1>2, <2>4, <3>1, <3>2 DEF StageKnown
  <2>6. /\ b.sid \in Sids /\ accepted[b.sid] \in Seq(Producer.records)
        /\ accepted' = [accepted EXCEPT ![b.sid] = Append(accepted[b.sid], b)]
        /\ DOMAIN accepted = Sids /\ b \in SentIn[b.sid]
    BY <1>1, <1>2, <1>4, SentType DEF HistoryKnown
  <2>7. ToSet(accepted'[b.sid]) = ToSet(accepted[b.sid]) \cup {b}
    BY <2>6, AppendMembers
  <2>8. \A s \in Sids : s # b.sid => accepted'[s] = accepted[s]
    BY <2>6
  <2>9. LedgerKnown'
    <3>1. \A s \in Sids : ToSet(accepted[s]) \subseteq SentIn[s]
      BY DEF StageInv, LedgerKnown
    <3>2. \A s \in Sids : ToSet(accepted'[s]) \subseteq SentIn[s]
      BY <2>6, <2>7, <2>8, <3>1
    <3>3. UNION { ToSet(accepted'[s]) : s \in Sids } = (UNION { ToSet(accepted[s]) : s \in Sids }) \cup {b}
      <4>1. \A c : (\E s \in Sids : c \in ToSet(accepted'[s])) <=>
                   (\E s \in Sids : c \in ToSet(accepted[s])) \/ c = b
        BY <2>6, <2>7, <2>8
      <4> DEFINE after == UNION { ToSet(accepted'[s]) : s \in Sids }
                 whole == UNION { ToSet(accepted[s]) : s \in Sids }
      <4>2. \A c : c \in after <=> \E s \in Sids : c \in ToSet(accepted'[s])
        OBVIOUS
      <4>3. \A c : c \in whole <=> \E s \in Sids : c \in ToSet(accepted[s])
        OBVIOUS
      <4> HIDE DEF after, whole
      <4>4. after = whole \cup {b}
        BY <4>1, <4>2, <4>3
      <4> QED BY <4>4 DEF after, whole
    <3>4. \A k \in Inputs : Offsets(stage.cited[k]) =
            UNION { CitedOffsets(SpansOn(c, k)) : c \in UNION { ToSet(accepted[s]) : s \in Sids } }
      BY DEF StageInv, LedgerKnown
    <3> DEFINE before == UNION { ToSet(accepted[s]) : s \in Sids }
    <3>10. UNION { ToSet(accepted'[s]) : s \in Sids } = before \cup {b}
      BY <3>3
    <3> HIDE DEF before
    <3>5. \A k \in Inputs : UNION { CitedOffsets(SpansOn(c, k)) : c \in before \cup {b} } =
            (UNION { CitedOffsets(SpansOn(c, k)) : c \in before }) \cup CitedOffsets(SpansOn(b, k))
      <4> TAKE k \in Inputs
      <4> DEFINE f == [c \in before \cup {b} |-> CitedOffsets(SpansOn(c, k))]
      <4>1. /\ \A c \in before \cup {b} : f[c] = CitedOffsets(SpansOn(c, k))
            /\ { CitedOffsets(SpansOn(c, k)) : c \in before \cup {b} } = { f[c] : c \in before \cup {b} }
            /\ { CitedOffsets(SpansOn(c, k)) : c \in before } = { f[c] : c \in before }
        BY Zenon
      <4> HIDE DEF f
      <4>2. UNION { f[c] : c \in before \cup {b} } = (UNION { f[c] : c \in before }) \cup f[b]
        <5>1. \A o : o \in UNION { f[c] : c \in before \cup {b} } <=> \E c \in before \cup {b} : o \in f[c]
          OBVIOUS
        <5>2. \A o : o \in UNION { f[c] : c \in before } <=> \E c \in before : o \in f[c]
          OBVIOUS
        <5>3. \A o : o \in UNION { f[c] : c \in before \cup {b} } <=>
                      o \in (UNION { f[c] : c \in before }) \cup f[b]
          BY <5>1, <5>2
        <5> QED BY <5>3
      <4> QED BY <4>1, <4>2
    <3>7. \A k \in Inputs : Offsets(stage.cited[k]) =
            UNION { CitedOffsets(SpansOn(c, k)) : c \in before }
      BY <3>4 DEF before
    <3>8. \A k \in Inputs : Offsets(stage'.cited[k]) =
            UNION { CitedOffsets(SpansOn(c, k)) : c \in before \cup {b} }
      BY <2>2, <2>4, <3>5, <3>7
    <3>9. \A k \in Inputs : Offsets(stage'.cited[k]) =
            UNION { CitedOffsets(SpansOn(c, k)) : c \in UNION { ToSet(accepted'[s]) : s \in Sids } }
      BY <3>10, <3>8
    <3> QED BY <3>2, <3>9 DEF LedgerKnown
  <2>10. MarksKnown'
    <3>1. \A k \in Inputs : Meant(k)' = Meant(k)
      BY <1>1, <2>4 DEF MarksAlike, Meant
    <3>2. stage.step = "open" => \A k \in Inputs : Offsets(stage.marked[k]) = Named(Meant(k))
      BY DEF StageInv, MarksKnown
    <3> QED BY <2>4, <3>1, <3>2 DEF MarksKnown
  <2>11. ClosedStageCovers' /\ FillsAreHonest'
    <3>1. \A k \in Inputs : /\ Offsets(stage.cited[k]) \subseteq Offsets(stage'.cited[k])
                            /\ Offsets(stage.marked[k]) \subseteq Offsets(stage'.marked[k])
      BY <2>2, <2>4
    <3>2. lost \subseteq lost' /\ stage.inputs \in InputFiles
      BY <1>1, <2>1
    <3> QED BY <1>1, <1>2, <2>4, <3>1, <3>2, ClosedStays DEF StageInv
  <2> QED BY <2>5, <2>9, <2>10, <2>11 DEF StageInv
<1> QED BY <1>3, <1>4

\* undecoded(): a range is counted once its block is written.
LEMMA StageMarks ==
    ASSUME StageInv, WriterInv, NEW b \in Producer.declarations, MarkUndecoded(b)
    PROVE  StageInv'
<1>1. /\ Emit(b) /\ call = Idle /\ UNCHANGED <<call, accepted, lost>>
      /\ stage.step \in {"open", "done"}
      /\ stage' = IF Emits(b) THEN [stage EXCEPT !.marked[b.input] = Add(@, b.start, b.end)] ELSE stage
  <2>1. MayStage /\ Declare(b)
    BY DEF MarkUndecoded
  <2>2. stage' = IF Emits(b) THEN [stage EXCEPT !.marked[b.input] = Add(@, b.start, b.end)] ELSE stage
    BY DEF MarkUndecoded
  <2> QED BY <2>1, <2>2 DEF MayStage, Declare, MayCall, history
<1>2. call'.op # "close" /\ HistoryKnown
  BY <1>1 DEF Idle, WriterInv
<1>3. /\ b.kind = "undecoded" /\ b.source = 0 /\ b.input \in Inputs
      /\ b.start \in Nat /\ b.end \in Nat /\ b \in Blocks
  BY StageAssumption DEF Markable, Blocks
<1>4. UNCHANGED file \/ ~ Complete'
  BY <1>1, <1>2, <1>3, FileGrows
<1>5. CASE ~ Emits(b)
  <2>1. UNCHANGED <<stage, accepted, file>>
    BY <1>1, <1>5 DEF Emit
  <2> QED BY <1>1, <1>2, <2>1, MarksStay, StageAlone
<1>6. CASE Emits(b)
  <2>1. stage \in [inputs : InputFiles, fill : BOOLEAN,
                   cited : [Inputs -> Lists], marked : [Inputs -> Lists],
                   step : {"open", "fill", "end", "raise", "done"},
                   unfilled : Seq(ToSet(stage.inputs)), fills : Seq(Fills)]
    BY DEF StageInv, StageKnown
  <2>2. PICK list \in Lists : /\ list = Add(stage.marked[b.input], b.start, b.end)
                              /\ Offsets(list) = Offsets(stage.marked[b.input]) \cup Span(b.start, b.end)
    <3>1. PICK before \in Lists : before = stage.marked[b.input]
      BY <1>3, <2>1
    <3>2. before \in Seq(Ranges) /\ Coalesced(before) /\ b.start \in Nat /\ b.end \in Nat
      BY <1>3 DEF Lists
    <3>3. /\ Add(before, b.start, b.end) \in Seq(Ranges) /\ Coalesced(Add(before, b.start, b.end))
          /\ Offsets(Add(before, b.start, b.end)) = Offsets(before) \cup b.start .. b.end - 1
      BY <3>2, AddIsUnion
    <3> QED BY <3>1, <3>3 DEF Lists, Span
  <2>3. PICK marked \in [Inputs -> Lists] : marked = [stage.marked EXCEPT ![b.input] = list]
    BY <2>1
  <2>4. stage' = [stage EXCEPT !.marked = marked]
    BY <1>1, <1>6, <2>2, <2>3
  <2>5. /\ stage'.inputs = stage.inputs /\ stage'.fill = stage.fill
        /\ stage'.cited = stage.cited /\ stage'.marked = marked
        /\ stage'.unfilled = stage.unfilled /\ stage'.fills = stage.fills
        /\ stage'.step = stage.step
    BY <2>1, <2>4
  <2>6. StageKnown'
    <3>1. stage' \in [inputs : InputFiles, fill : BOOLEAN,
                      cited : [Inputs -> Lists], marked : [Inputs -> Lists],
                      step : {"open", "fill", "end", "raise", "done"},
                      unfilled : Seq(ToSet(stage'.inputs)), fills : Seq(Fills)]
      BY <2>1, <2>4, <2>5
    <3>2. stage.step \in {"open", "end"} => stage.fills = << >>
      BY DEF StageInv, StageKnown
    <3> QED BY <1>1, <1>2, <2>5, <3>1, <3>2 DEF StageKnown
  <2>7. LedgerKnown'
    BY <1>1, <2>5 DEF StageInv, LedgerKnown
  <2>8. ToSet(file') = ToSet(file) \cup {b}
    BY <1>1, <1>2, <1>3, <1>6, BlockWritten
  <2>9. MarksKnown'
    <3>1. CASE stage.step = "done"
      BY <2>5, <3>1 DEF MarksKnown
    <3>2. CASE stage.step = "open"
      <4>1. stage.fills = << >> /\ ToSet(<< >>) = {}
        BY <3>2 DEF StageInv, StageKnown, ToSet
      <4>2. \A k \in Inputs : Meant(k) = MarksInFile(k) /\ Meant(k)' = MarksInFile(k)'
        BY <2>5, <4>1 DEF Meant
      <4>3. \A k \in Inputs : MarksInFile(k)' = IF k = b.input THEN MarksInFile(k) \cup {b} ELSE MarksInFile(k)
        BY <1>3, <2>8 DEF MarksInFile
      <4>4. \A k \in Inputs : Offsets(stage.marked[k]) = Named(MarksInFile(k))
        BY <3>2, <4>2 DEF StageInv, MarksKnown
      <4>5. \A blocks : Named(blocks \cup {b}) = Named(blocks) \cup Span(b.start, b.end)
        BY DEF Named
      <4>6. \A k \in Inputs : Offsets(marked[k]) = Named(MarksInFile(k)')
        <5> TAKE k \in Inputs
        <5>1. CASE k = b.input
          <6>1. marked[k] = list
            BY <2>1, <2>3, <5>1
          <6> QED BY <2>2, <4>3, <4>4, <4>5, <5>1, <6>1
        <5>2. CASE k # b.input
          <6>1. marked[k] = stage.marked[k]
            BY <2>1, <2>3, <5>2
          <6> QED BY <4>3, <4>4, <5>2, <6>1
        <5> QED BY <5>1, <5>2
      <4>7. \A k \in Inputs : Offsets(stage'.marked[k]) = Named(Meant(k)')
        BY <2>5, <4>2, <4>6
      <4> QED BY <2>5, <3>2, <4>7 DEF MarksKnown
    <3> QED BY <1>1, <3>1, <3>2
  <2>10. ClosedStageCovers' /\ FillsAreHonest'
    <3>1. \A k \in Inputs : /\ Offsets(stage.cited[k]) \subseteq Offsets(stage'.cited[k])
                            /\ Offsets(stage.marked[k]) \subseteq Offsets(stage'.marked[k])
      BY <2>1, <2>2, <2>3, <2>5
    <3>2. lost \subseteq lost' /\ stage.inputs \in InputFiles
      BY <1>1, <2>1
    <3> QED BY <1>2, <1>4, <2>5, <3>1, <3>2, ClosedStays DEF StageInv
  <2> QED BY <2>6, <2>7, <2>9, <2>10 DEF StageInv
<1> QED BY <1>5, <1>6

-------------------------------------------------------------------------------
(* close() *)

LEMMA StageTurns ==
    ASSUME StageInv, HistoryKnown, CloseStage
    PROVE  StageInv'
<1>1. /\ stage.step = "open" /\ call = Idle /\ UNCHANGED vars
      /\ stage' = [stage EXCEPT !.step = "fill",
                                !.unfilled = IF stage.fill THEN stage.inputs ELSE << >>]
  BY DEF CloseStage, MayClose
<1>2. UNCHANGED <<file, accepted, lost, call>>
  BY <1>1 DEF vars, history
<1>3. stage \in [inputs : InputFiles, fill : BOOLEAN,
                 cited : [Inputs -> Lists], marked : [Inputs -> Lists],
                 step : {"open", "fill", "end", "raise", "done"},
                 unfilled : Seq(ToSet(stage.inputs)), fills : Seq(Fills)]
  BY DEF StageInv, StageKnown
<1>4. PICK unfilled \in Seq(ToSet(stage.inputs)) :
        unfilled = IF stage.fill THEN stage.inputs ELSE << >>
  <2>1. stage.inputs \in Seq(ToSet(stage.inputs)) /\ << >> \in Seq(ToSet(stage.inputs))
    BY <1>3, InputsFit
  <2> QED BY <2>1
<1>5. stage' = [stage EXCEPT !.step = "fill", !.unfilled = unfilled]
  BY <1>1, <1>4
<1>6. /\ stage'.inputs = stage.inputs /\ stage'.fill = stage.fill
      /\ stage'.cited = stage.cited /\ stage'.marked = stage.marked
      /\ stage'.unfilled = unfilled /\ stage'.fills = stage.fills
      /\ stage'.step = "fill"
  BY <1>3, <1>5
<1>7. stage.inputs \in InputFiles
  BY <1>3
<1>8. StageKnown'
  <2>1. stage' \in [inputs : InputFiles, fill : BOOLEAN,
                    cited : [Inputs -> Lists], marked : [Inputs -> Lists],
                    step : {"open", "fill", "end", "raise", "done"},
                    unfilled : Seq(ToSet(stage'.inputs)), fills : Seq(Fills)]
    BY <1>3, <1>5, <1>6
  <2>2. call'.op # "close"
    BY <1>1, <1>2 DEF Idle
  <2> QED BY <1>1, <1>2, <1>6, <2>1, <2>2 DEF StageKnown
<1>9. LedgerKnown'
  BY <1>2, <1>6 DEF StageInv, LedgerKnown
<1>10. MarksKnown'
  <2>1. \A k \in Inputs : Meant(k)' = Meant(k)
    BY <1>2, <1>6 DEF Meant, MarksInFile
  <2>2. \A k \in Inputs : Offsets(stage.marked[k]) = Named(Meant(k))
    BY <1>1 DEF StageInv, MarksKnown
  <2>3. /\ \A x \in ToSet(stage.inputs) : InputOf(x.sid, x.pid) \in Inputs
        /\ \A i, j \in DOMAIN stage.inputs : i # j => stage.inputs[i] # stage.inputs[j]
    BY <1>7, InputsFit
  <2>4. stage.fill => unfilled = stage.inputs
    BY <1>4
  <2> QED BY <1>6, <2>1, <2>2, <2>3, <2>4 DEF MarksKnown
<1>11. ClosedStageCovers' /\ FillsAreHonest'
  BY <1>2, <1>6, <1>7, ClosedStays DEF StageInv
<1> QED BY <1>8, <1>9, <1>10, <1>11 DEF StageInv

\* The blocks autofill is to write for a stream stand for what neither a cite nor a
\* mark of it does.
LEMMA FillsAnswer ==
    ASSUME NEW x, InputStream(x), ~ Clash(x),
           LET k == InputOf(x.sid, x.pid) IN stage.cited[k] \in Lists /\ stage.marked[k] \in Lists,
           NEW blocks, Named(blocks) = Offsets(stage.marked[InputOf(x.sid, x.pid)])
    PROVE  LET k == InputOf(x.sid, x.pid)
           IN  Answers(x, stage.cited[k], stage.marked[k], blocks \cup ToSet(FillsOf(x)))
<1> DEFINE k == InputOf(x.sid, x.pid)
           fills == ToSet(FillsOf(x))
<1>1. Offsets(stage.cited[k]) \cap Offsets(stage.marked[k]) = {}
  <2>1. stage.cited[k] \in Seq(Ranges) /\ stage.marked[k] \in Seq(Ranges)
    BY DEF Lists
  <2>2. Intersections(stage.cited[k], stage.marked[k]) = << >>
    BY DEF Clash
  <2>3. Rising(stage.cited[k]) /\ Rising(stage.marked[k])
    BY CoalescedRises DEF Lists
  <2> QED BY <2>1, <2>2, <2>3, IntersectionsMeet
<1>2. Tells(fills, Untold(x), Offsets(x.gaps))
  BY FillsTell
<1>3. Untold(x) = Owed(x) \ (Offsets(stage.cited[k]) \cup Offsets(stage.marked[k]))
  BY DEF Untold, Told
<1> HIDE DEF fills
<1>4. Named(fills) \subseteq Untold(x)
  BY <1>2 DEF Tells, Named
<1>5. Named(blocks \cup fills) = Named(blocks) \cup Named(fills)
  BY DEF Named
<1>6. ASSUME NEW o \in Untold(x)
      PROVE  \E b \in blocks \cup fills :
                Naming(blocks \cup fills, o) = {b}
                /\ b.reason = IF o \in Offsets(x.gaps) THEN "gap" ELSE "skipped"
  <2>1. PICK b \in fills : Naming(fills, o) = {b}
    BY <1>2, <1>6 DEF Tells
  <2>2. o \notin Named(blocks)
    BY <1>3, <1>6
  <2>3. Naming(blocks \cup fills, o) = {b}
    BY <2>1, <2>2 DEF Naming, Named
  <2>4. o \in Span(b.start, b.end)
    BY <2>1 DEF Naming
  <2>5. b.reason = IF o \in Offsets(x.gaps) THEN "gap" ELSE "skipped"
    BY <1>2, <2>4 DEF Tells
  <2> QED BY <2>3, <2>5
<1>7. Answers(x, stage.cited[k], stage.marked[k], blocks \cup fills)
  BY <1>1, <1>3, <1>4, <1>5, <1>6 DEF Answers
<1> QED BY <1>7 DEF fills

LEMMA StageFills ==
    ASSUME StageInv, HistoryKnown, FillStream
    PROVE  StageInv'
<1>0. PICK x : x = Head(stage.unfilled)
  OBVIOUS
<1>1. /\ stage.step = "fill" /\ stage.fills = << >> /\ stage.unfilled # << >> /\ ~ Clash(x)
      /\ stage' = [stage EXCEPT !.fills = FillsOf(x), !.unfilled = Tail(@)]
      /\ UNCHANGED vars
  BY <1>0 DEF FillStream, Filling
<1>2. UNCHANGED <<file, accepted, lost, call>>
  BY <1>1 DEF vars, history
<1>3. stage \in [inputs : InputFiles, fill : BOOLEAN,
                 cited : [Inputs -> Lists], marked : [Inputs -> Lists],
                 step : {"open", "fill", "end", "raise", "done"},
                 unfilled : Seq(ToSet(stage.inputs)), fills : Seq(Fills)]
  BY DEF StageInv, StageKnown
<1>4. /\ stage.inputs \in InputFiles /\ stage.unfilled \in Seq(ToSet(stage.inputs))
      /\ x \in ToSet(stage.inputs) /\ Tail(stage.unfilled) \in Seq(ToSet(stage.inputs))
  BY <1>0, <1>1, <1>3
<1> DEFINE k == InputOf(x.sid, x.pid)
<1>5. /\ InputStream(x) /\ k \in Inputs
      /\ \A y \in ToSet(stage.inputs) : InputOf(y.sid, y.pid) \in Inputs
      /\ \A y \in ToSet(stage.inputs) : y # x => InputOf(y.sid, y.pid) # k
  BY <1>4, InputsFit
<1>6. stage.cited[k] \in Lists /\ stage.marked[k] \in Lists
  BY <1>3, <1>5
<1>7. FillsOf(x) \in Seq(Fills) /\ \A b \in ToSet(FillsOf(x)) : b.input = k
  BY <1>5, <1>6, FillsTell
<1>8. PICK fills \in Seq(Fills), rest \in Seq(ToSet(stage.inputs)) :
        fills = FillsOf(x) /\ rest = Tail(stage.unfilled)
  BY <1>4, <1>7
<1>9. stage' = [stage EXCEPT !.fills = fills, !.unfilled = rest]
  BY <1>1, <1>8
<1>10. /\ stage'.inputs = stage.inputs /\ stage'.fill = stage.fill
       /\ stage'.cited = stage.cited /\ stage'.marked = stage.marked
       /\ stage'.unfilled = rest /\ stage'.fills = fills
       /\ stage'.step = "fill"
  BY <1>1, <1>3, <1>9
<1>11. StageKnown'
  <2>1. stage' \in [inputs : InputFiles, fill : BOOLEAN,
                    cited : [Inputs -> Lists], marked : [Inputs -> Lists],
                    step : {"open", "fill", "end", "raise", "done"},
                    unfilled : Seq(ToSet(stage'.inputs)), fills : Seq(Fills)]
    BY <1>3, <1>9, <1>10
  <2>2. call = Idle
    BY <1>1 DEF StageInv, StageKnown
  <2>3. call'.op # "close" /\ call' = Idle
    BY <1>2, <2>2 DEF Idle
  <2> QED BY <1>10, <2>1, <2>3 DEF StageKnown
<1>12. LedgerKnown'
  <2>1. stage'.cited = stage.cited /\ accepted' = accepted
    BY <1>2, <1>10
  <2>2. LedgerKnown
    BY DEF StageInv
  <2> QED BY <2>1, <2>2 DEF LedgerKnown
<1>13. MarksKnown'
  <2>1. CASE ~ stage.fill
    BY <1>10, <2>1 DEF MarksKnown
  <2>2. CASE stage.fill
    <3>1. /\ \A i, j \in DOMAIN stage.unfilled : i # j => stage.unfilled[i] # stage.unfilled[j]
          /\ \A y \in ToSet(stage.inputs) :
                IF y \in ToSet(stage.unfilled)
                THEN Offsets(stage.marked[InputOf(y.sid, y.pid)]) = Named(Meant(InputOf(y.sid, y.pid)))
                ELSE Answered(y)
      BY <1>1, <2>2 DEF StageInv, MarksKnown
    <3>2. /\ \A i \in DOMAIN rest : i + 1 \in DOMAIN stage.unfilled /\ rest[i] = stage.unfilled[i + 1]
          /\ 1 \in DOMAIN stage.unfilled /\ stage.unfilled[1] = x
          /\ \A i \in DOMAIN stage.unfilled : i = 1 \/ (i - 1 \in DOMAIN rest /\ rest[i - 1] = stage.unfilled[i])
          /\ \A i \in DOMAIN rest : i \in Nat /\ i >= 1
      <4>1. PICK list \in Seq(ToSet(stage.inputs)) : list = stage.unfilled
        BY <1>4
      <4>2. list # << >> /\ rest = Tail(list) /\ x = Head(list)
        BY <1>0, <1>1, <1>8, <4>1
      <4>3. /\ Len(list) \in Nat \ {0} /\ DOMAIN list = 1 .. Len(list)
            /\ DOMAIN rest = 1 .. Len(list) - 1
            /\ \A i \in 1 .. Len(list) - 1 : rest[i] = list[i + 1]
            /\ list[1] = x
        BY <4>2
      <4> QED BY <4>1, <4>3
    <3>3. \A i, j \in DOMAIN rest : i # j => rest[i] # rest[j]
      <4> TAKE i, j \in DOMAIN rest
      <4> HAVE i # j
      <4>1. i + 1 \in DOMAIN stage.unfilled /\ j + 1 \in DOMAIN stage.unfilled /\ i + 1 # j + 1
        BY <3>2
      <4> QED BY <3>1, <3>2, <4>1
    <3>4. ToSet(rest) = ToSet(stage.unfilled) \ {x}
      <4>1. \A y : y \in ToSet(rest) <=> y \in ToSet(stage.unfilled) /\ y # x
        <5> TAKE y
        <5>1. y \in ToSet(rest) => y \in ToSet(stage.unfilled) /\ y # x
          <6> HAVE y \in ToSet(rest)
          <6>1. PICK i \in DOMAIN rest : y = rest[i]
            BY DEF ToSet
          <6>2. /\ i + 1 \in DOMAIN stage.unfilled /\ y = stage.unfilled[i + 1] /\ i + 1 # 1
                /\ 1 \in DOMAIN stage.unfilled /\ stage.unfilled[1] = x
            BY <3>2, <6>1
          <6>3. y # x
            BY <3>1, <6>2
          <6> QED BY <6>2, <6>3 DEF ToSet
        <5>2. y \in ToSet(stage.unfilled) /\ y # x => y \in ToSet(rest)
          BY <3>2 DEF ToSet
        <5> QED BY <5>1, <5>2
      <4> QED BY <4>1
    <3>5. \A y \in ToSet(stage.inputs) : y # x => Meant(InputOf(y.sid, y.pid))' = Meant(InputOf(y.sid, y.pid))
      <4> SUFFICES ASSUME NEW j \in Inputs, j # k PROVE Meant(j)' = Meant(j)
        BY <1>5
      <4>1. ToSet(stage.fills) = {}
        BY <1>1 DEF ToSet
      <4>2. \A b \in ToSet(stage'.fills) : b.input # j
        BY <1>7, <1>8, <1>10
      <4>3. MarksInFile(j)' = MarksInFile(j)
        BY <1>2 DEF MarksInFile
      <4> QED BY <4>1, <4>2, <4>3 DEF Meant
    <3>6. Answered(x)'
      <4>1. x \in ToSet(stage.unfilled)
        BY <3>2 DEF ToSet
      <4>2. Named(Meant(k)) = Offsets(stage.marked[k])
        BY <1>4, <3>1, <4>1
      <4>3. Meant(k)' = Meant(k) \cup ToSet(FillsOf(x))
        <5>1. ToSet(stage.fills) = {}
          BY <1>1 DEF ToSet
        <5>2. MarksInFile(k)' = MarksInFile(k)
          BY <1>2 DEF MarksInFile
        <5> QED BY <1>7, <1>8, <1>10, <5>1, <5>2 DEF Meant
      <4>4. Answers(x, stage.cited[k], stage.marked[k], Meant(k) \cup ToSet(FillsOf(x)))
        BY <1>1, <1>5, <1>6, <4>2, FillsAnswer
      <4>5. Answers(x, stage'.cited[k], stage'.marked[k], Meant(k)')
        BY <1>10, <4>3, <4>4
      <4>6. \A y : Answered(y)' <=> Answers(y, stage'.cited[InputOf(y.sid, y.pid)], stage'.marked[InputOf(y.sid, y.pid)], Meant(InputOf(y.sid, y.pid))')
        BY DEF Answered
      <4> QED BY <4>5, <4>6
    <3>7. \A y \in ToSet(stage.inputs) : y # x => (Answered(y)' <=> Answered(y))
      BY <1>10, <3>5 DEF Answered
    <3>8. ASSUME NEW y \in ToSet(stage'.inputs)
          PROVE  IF y \in ToSet(stage'.unfilled)
                 THEN Offsets(stage'.marked[InputOf(y.sid, y.pid)]) = Named(Meant(InputOf(y.sid, y.pid))')
                 ELSE Answered(y)'
      <4>1. CASE y = x
        BY <1>10, <3>4, <3>6, <4>1
      <4>2. CASE y # x
        BY <1>10, <3>1, <3>4, <3>5, <3>7, <4>2
      <4> QED BY <4>1, <4>2
    <3> QED BY <1>10, <3>3, <3>8 DEF MarksKnown
  <2> QED BY <2>1, <2>2
<1>14. ClosedStageCovers' /\ FillsAreHonest'
  BY <1>2, <1>4, <1>10, ClosedStays DEF StageInv
<1> QED BY <1>11, <1>12, <1>13, <1>14 DEF StageInv

LEMMA StageFillWritten ==
    ASSUME StageInv, WriterInv, WriteFill
    PROVE  StageInv' /\ WriterInv'
<1>1. stage \in [inputs : InputFiles, fill : BOOLEAN,
                 cited : [Inputs -> Lists], marked : [Inputs -> Lists],
                 step : {"open", "fill", "end", "raise", "done"},
                 unfilled : Seq(ToSet(stage.inputs)), fills : Seq(Fills)]
  BY DEF StageInv, StageKnown
<1>2. /\ stage.step = "fill" /\ stage.fills # << >> /\ Emit(Head(stage.fills))
      /\ UNCHANGED <<sessions, linearizing, call, mergeVars, history>>
      /\ IF Emits(Head(stage.fills))
         THEN stage' = [stage EXCEPT !.fills = Tail(@)] /\ UNCHANGED closed
         ELSE stage' = [stage EXCEPT !.step = "done"] /\ closed' = TRUE
  BY DEF WriteFill
<1>3. PICK fills \in Seq(Fills), rest \in Seq(Fills), b \in Fills :
        /\ fills = stage.fills /\ rest = Tail(fills) /\ b = Head(fills)
        /\ ToSet(fills) = {b} \cup ToSet(rest)
  <2>1. PICK fills \in Seq(Fills) : fills = stage.fills /\ fills # << >>
    BY <1>1, <1>2
  <2>2. PICK rest \in Seq(Fills), b \in Fills : rest = Tail(fills) /\ b = Head(fills)
    <3>1. Tail(fills) \in Seq(Fills) /\ Head(fills) \in Fills
      BY <2>1
    <3> QED BY <3>1
  <2>3. /\ Len(fills) \in Nat /\ DOMAIN fills = 1 .. Len(fills) /\ 1 \in DOMAIN fills /\ fills[1] = b
        /\ DOMAIN rest = 1 .. Len(fills) - 1 /\ \A i \in 1 .. Len(fills) - 1 : rest[i] = fills[i + 1]
    BY <2>1, <2>2
  <2>4. \A c : c \in ToSet(fills) <=> c = b \/ c \in ToSet(rest)
    <3> TAKE c
    <3>1. c \in ToSet(rest) => c \in ToSet(fills)
      BY <2>3 DEF ToSet
    <3>2. c = b => c \in ToSet(fills)
      BY <2>3 DEF ToSet
    <3>3. ASSUME c \in ToSet(fills), c # b
          PROVE  c \in ToSet(rest)
      <4>1. PICK i \in 1 .. Len(fills) : c = fills[i]
        BY <2>3, <3>3 DEF ToSet
      <4>2. i - 1 \in DOMAIN rest /\ rest[i - 1] = c
        BY <2>3, <3>3, <4>1
      <4> QED BY <4>2 DEF ToSet
    <3> QED BY <3>1, <3>2, <3>3
  <2>5. ToSet(fills) = {b} \cup ToSet(rest)
    BY <2>4
  <2> QED BY <2>1, <2>2, <2>5
<1>4. b \in Blocks /\ b.kind = "undecoded" /\ b.source = 0 /\ b.input \in Inputs
  BY DEF Fills, Blocks
<1>5. /\ Emit(b) /\ call = Idle /\ UNCHANGED <<call, accepted, lost>> /\ HistoryKnown
      /\ call'.op # "close"
  <2>1. call = Idle
    BY <1>2 DEF StageInv, StageKnown
  <2> QED BY <1>2, <1>3, <2>1 DEF history, WriterInv, Idle
<1>6. WriterInv'
  <2>1. closed' \in BOOLEAN /\ (closed => closed')
    BY <1>2, <1>5 DEF HistoryKnown
  <2> QED BY <1>2, <1>5, <2>1, FillStep
<1>7. CASE ~ Emits(b)
  <2>1. UNCHANGED file /\ stage' = [stage EXCEPT !.step = "done"]
    BY <1>2, <1>3, <1>5, <1>7 DEF Emit
  <2>2. StageInv'
    BY <1>5, <2>1, MarksStay, StageStays
  <2> QED BY <1>6, <2>2
<1>8. CASE Emits(b)
  <2>1. stage' = [stage EXCEPT !.fills = rest]
    BY <1>2, <1>3, <1>8
  <2>2. /\ stage'.inputs = stage.inputs /\ stage'.fill = stage.fill
        /\ stage'.cited = stage.cited /\ stage'.marked = stage.marked
        /\ stage'.unfilled = stage.unfilled /\ stage'.fills = rest
        /\ stage'.step = "fill"
    BY <1>1, <1>2, <2>1
  <2>3. ToSet(file') = ToSet(file) \cup {b} /\ ~ Complete'
    <3>1. ToSet(file') = ToSet(file) \cup {b}
      BY <1>4, <1>5, <1>8, BlockWritten
    <3>2. ~ Complete'
      BY <1>4, <1>5, <1>8, FileGrows
    <3> QED BY <3>1, <3>2
  <2>4. StageKnown'
    <3>1. stage' \in [inputs : InputFiles, fill : BOOLEAN,
                      cited : [Inputs -> Lists], marked : [Inputs -> Lists],
                      step : {"open", "fill", "end", "raise", "done"},
                      unfilled : Seq(ToSet(stage'.inputs)), fills : Seq(Fills)]
      BY <1>1, <2>1, <2>2
    <3> QED BY <1>5, <2>2, <3>1 DEF StageKnown
  <2>5. LedgerKnown'
    <3>1. stage'.cited = stage.cited /\ accepted' = accepted
      BY <1>5, <2>2
    <3>2. LedgerKnown
      BY DEF StageInv
    <3> QED BY <3>1, <3>2 DEF LedgerKnown
  <2>6. ASSUME NEW k \in Inputs
        PROVE  Meant(k)' = Meant(k)
    <3>1. MarksInFile(k)' = MarksInFile(k) \cup { c \in {b} : c.input = k }
      BY <1>4, <2>3 DEF MarksInFile
    <3>2. { c \in ToSet(fills) : c.input = k } =
            { c \in {b} : c.input = k } \cup { c \in ToSet(rest) : c.input = k }
      BY <1>3
    <3>3. Meant(k) = MarksInFile(k) \cup { c \in ToSet(fills) : c.input = k }
      BY <1>3 DEF Meant
    <3>4. Meant(k)' = MarksInFile(k)' \cup { c \in ToSet(rest) : c.input = k }
      BY <2>2 DEF Meant
    <3> QED BY <3>1, <3>2, <3>3, <3>4
  <2>7. stage.inputs \in InputFiles /\ \A x \in ToSet(stage.inputs) : InputOf(x.sid, x.pid) \in Inputs
    BY <1>1, InputsFit
  <2>8. \A x \in ToSet(stage.inputs) : Answered(x)' = Answered(x)
    BY <2>2, <2>6, <2>7 DEF Answered
  <2>9. MarksKnown'
    <3>1. MarksKnown
      BY DEF StageInv
    <3> QED BY <1>2, <2>2, <2>6, <2>7, <2>8, <3>1 DEF MarksKnown
  <2>10. ClosedStageCovers' /\ FillsAreHonest'
    BY <1>5, <2>2, <2>3, <2>7, ClosedStays DEF StageInv
  <2> QED BY <1>6, <2>4, <2>5, <2>9, <2>10 DEF StageInv
<1> QED BY <1>7, <1>8

LEMMA StageFilled ==
    ASSUME StageInv, HistoryKnown, FillDone
    PROVE  StageInv'
<1>1. /\ stage.step = "fill" /\ stage.fills = << >> /\ stage.unfilled = << >>
      /\ stage' = [stage EXCEPT !.step = "end"] /\ UNCHANGED vars
  BY DEF FillDone, Filling
<1>2. UNCHANGED <<file, accepted, lost, call>>
  BY <1>1 DEF vars, history
<1>3. stage \in [inputs : InputFiles, fill : BOOLEAN,
                 cited : [Inputs -> Lists], marked : [Inputs -> Lists],
                 step : {"open", "fill", "end", "raise", "done"},
                 unfilled : Seq(ToSet(stage.inputs)), fills : Seq(Fills)]
  BY DEF StageInv, StageKnown
<1>4. /\ stage'.inputs = stage.inputs /\ stage'.fill = stage.fill
      /\ stage'.cited = stage.cited /\ stage'.marked = stage.marked
      /\ stage'.unfilled = stage.unfilled /\ stage'.fills = stage.fills
      /\ stage'.step = "end"
  BY <1>1, <1>3
<1>5. StageKnown'
  <2>1. stage' \in [inputs : InputFiles, fill : BOOLEAN,
                    cited : [Inputs -> Lists], marked : [Inputs -> Lists],
                    step : {"open", "fill", "end", "raise", "done"},
                    unfilled : Seq(ToSet(stage'.inputs)), fills : Seq(Fills)]
    BY <1>1, <1>3, <1>4
  <2> QED BY <1>1, <1>4, <2>1 DEF StageKnown
<1>6. LedgerKnown'
  <2>1. stage'.cited = stage.cited /\ accepted' = accepted
    BY <1>2, <1>4
  <2>2. LedgerKnown
    BY DEF StageInv
  <2> QED BY <2>1, <2>2 DEF LedgerKnown
<1>7. MarksKnown'
  <2>1. stage.inputs \in InputFiles /\ \A x \in ToSet(stage.inputs) : InputOf(x.sid, x.pid) \in Inputs
    BY <1>3, InputsFit
  <2>2. \A k \in Inputs : Meant(k)' = Meant(k)
    BY <1>2, <1>4 DEF Meant, MarksInFile
  <2>3. \A x \in ToSet(stage.inputs) : Answered(x)' = Answered(x)
    BY <1>4, <2>1, <2>2 DEF Answered
  <2>4. ToSet(stage.unfilled) = {}
    BY <1>1 DEF ToSet
  <2>5. stage.fill => \A x \in ToSet(stage.inputs) : Answered(x)
    BY <1>1, <2>4 DEF StageInv, MarksKnown
  <2> QED BY <1>4, <2>3, <2>5 DEF MarksKnown
<1>8. ClosedStageCovers' /\ FillsAreHonest'
  BY <1>2, <1>3, <1>4, ClosedStays DEF StageInv
<1> QED BY <1>5, <1>6, <1>7, <1>8 DEF StageInv

\* When close() has flushed every session and none raised, the records of the file
\* are those accepted.
LEMMA AllWritten ==
    ASSUME WriterInv, LedgerKnown, Flushed("close"), lost = {}
    PROVE  { b \in ToSet(file) : b.kind = "record" } = UNION { ToSet(accepted[s]) : s \in Sids }
<1>1. HistoryKnown /\ WritersKnown /\ CallKnown
  BY DEF WriterInv
<1>2. call.op = "close" /\ call.step = "flush" /\ call.left = << >>
  BY DEF Flushed
<1>3. \A s \in Sids : Conserved(s)
  BY <1>2 DEF WriterInv, Spoiled
<1>4. file \in Seq(Blocks) /\ \A s \in Sids : accepted[s] \in Seq(Producer.records)
  BY <1>1 DEF HistoryKnown
<1>5. ASSUME NEW s \in Sids, NEW p \in Pids
      PROVE  ToSet(accepted[s]) \cap Sent[s][p] = ToSet(file) \cap Sent[s][p]
  <2>1. Kept(accepted[s], Sent[s][p]) = Kept(file, Sent[s][p])
    <3>1. CASE sessions[s] = None
      <4>1. accepted[s] = << >> /\ Kept(file, Sent[s][p]) = << >>
        BY <1>1, <3>1 DEF WritersKnown
      <4> QED BY <4>1, KeptOfNone
    <3>2. CASE sessions[s] # None
      <4>1. sessions[s].pending = NoStreams
        <5>1. DOMAIN call.left = {}
          BY <1>2
        <5> QED BY <1>1, <1>2, <3>2, <5>1 DEF CallKnown
      <4>2. p \in Pair => Out(s, p) = << >>
        <5> HAVE p \in Pair
        <5>1. InFlight(s, p) = << >> /\ sessions[s].pending[p] = << >>
          BY <1>2, <4>1 DEF InFlight, NoStreams
        <5>2. << >> \o << >> = << >>
          OBVIOUS
        <5> QED BY <5>1, <5>2 DEF Out
      <4>3. Kept(accepted[s], Sent[s][p]) = Kept(file, Sent[s][p]) \o << >>
        BY <1>3, <3>2, <4>2 DEF Conserved
      <4>4. Kept(file, Sent[s][p]) \in Seq(Blocks)
        BY <1>4, KeptType
      <4>5. \A list \in Seq(Blocks) : list \o << >> = list
        OBVIOUS
      <4> QED BY <4>3, <4>4, <4>5
    <3> QED BY <3>1, <3>2
  <2>2. ToSet(Kept(accepted[s], Sent[s][p])) = ToSet(accepted[s]) \cap Sent[s][p]
    BY <1>4, KeptMembers
  <2>3. ToSet(Kept(file, Sent[s][p])) = ToSet(file) \cap Sent[s][p]
    BY <1>4, KeptMembers
  <2> QED BY <2>1, <2>2, <2>3
<1>6. \A b \in Producer.records : b.sid \in Sids /\ b.pid \in Pids /\ b \in Sent[b.sid][b.pid]
                                  /\ b.kind = "record"
  BY SentType
<1>7. ASSUME NEW b, b \in ToSet(file), b.kind = "record"
      PROVE  \E s \in Sids : b \in ToSet(accepted[s])
  <2>1. b \in Producer.records
    BY <1>1, <1>7, FileHolds
  <2> QED BY <1>5, <1>6, <1>7, <2>1
<1>8. ASSUME NEW s \in Sids, NEW b \in ToSet(accepted[s])
      PROVE  b \in ToSet(file) /\ b.kind = "record"
  <2>1. b \in SentIn[s]
    BY DEF LedgerKnown
  <2>2. b \in Producer.records /\ b.sid = s
    BY <2>1 DEF SentIn
  <2> QED BY <1>5, <1>6, <2>2
<1> DEFINE whole == UNION { ToSet(accepted[s]) : s \in Sids }
<1>9. \A b : b \in whole <=> \E s \in Sids : b \in ToSet(accepted[s])
  OBVIOUS
<1> HIDE DEF whole
<1>10. { b \in ToSet(file) : b.kind = "record" } = whole
  BY <1>7, <1>8, <1>9
<1> QED BY <1>10 DEF whole

\* What a stream's answer says of the file.
LEMMA AnswersCover ==
    ASSUME NEW x, NEW cited, NEW marked, NEW blocks, Answers(x, cited, marked, blocks)
    PROVE  /\ Offsets(cited) \cap Named(blocks) = {}
           /\ Owed(x) \subseteq Offsets(cited) \cup Named(blocks)
           /\ Named(blocks) \cap ToSet(x.fins) \subseteq Offsets(cited) \cup Offsets(marked)
<1> DEFINE untold == Owed(x) \ (Offsets(cited) \cup Offsets(marked))
<1>1. /\ Offsets(cited) \cap Offsets(marked) = {}
      /\ Offsets(marked) \subseteq Named(blocks)
      /\ Named(blocks) \subseteq Offsets(marked) \cup untold
      /\ \A o \in untold : \E b \in blocks : Naming(blocks, o) = {b}
  BY DEF Answers
<1>2. untold \subseteq Named(blocks)
  <2> HIDE DEF untold
  <2> SUFFICES ASSUME NEW o \in untold PROVE o \in Named(blocks)
    OBVIOUS
  <2>1. PICK b \in blocks : Naming(blocks, o) = {b}
    BY <1>1
  <2>2. o \in Span(b.start, b.end)
    BY <2>1 DEF Naming
  <2> QED BY <2>2 DEF Named
<1>3. untold \cap ToSet(x.fins) = {}
  BY DEF Owed
<1> QED BY <1>1, <1>2, <1>3

\* The End block is written, over an input that is accounted for.
LEMMA StageOutputClosed ==
    ASSUME StageInv, WriterInv, OutputClosed
    PROVE  StageInv'
<1>1. /\ EndFile /\ stage' = [stage EXCEPT !.step = "done"] /\ Flushed("close")
      /\ call' = Idle /\ UNCHANGED <<accepted, lost>>
      /\ IF Complete THEN UNCHANGED <<checker, file, tail>> ELSE Emit([kind |-> "end"])
  BY DEF OutputClosed, EndFile, history
<1>2. stage \in [inputs : InputFiles, fill : BOOLEAN,
                 cited : [Inputs -> Lists], marked : [Inputs -> Lists],
                 step : {"open", "fill", "end", "raise", "done"},
                 unfilled : Seq(ToSet(stage.inputs)), fills : Seq(Fills)]
  BY DEF StageInv, StageKnown
<1>3. /\ call.op = "close" /\ stage.step = "end" /\ ~ closed /\ HistoryKnown /\ ~ Complete
      /\ call'.op # "close" /\ stage.fills = << >>
  <2>1. call.op = "close"
    BY <1>1 DEF Flushed
  <2>2. stage.step = "end" /\ stage.fills = << >>
    BY <2>1 DEF StageInv, StageKnown
  <2>3. ~ closed /\ HistoryKnown
    BY <2>1 DEF WriterInv, CallKnown
  <2> QED BY <1>1, <2>1, <2>2, <2>3 DEF HistoryKnown, Idle
<1>4. CASE UNCHANGED file
  BY <1>1, <1>3, <1>4, MarksStay, StageStays
<1>5. CASE ~ UNCHANGED file
  <2>1. PICK b \in Blocks : b = [kind |-> "end"] /\ b.kind = "end"
    <3>1. [kind |-> "end"] \in Blocks
      BY DEF Blocks
    <3> QED BY <3>1
  <2>2. Emit(b) /\ Emits(b)
    BY <1>1, <1>3, <1>5, <2>1 DEF Emit
  <2>3. ToSet(file') = ToSet(file) \cup {b}
    BY <1>3, <2>2, BlockWritten
  <2>4. MarksAlike
    BY <1>3, <2>1, <2>2, NoMarkWritten
  <2>5. /\ stage'.inputs = stage.inputs /\ stage'.fill = stage.fill
        /\ stage'.cited = stage.cited /\ stage'.marked = stage.marked
        /\ stage'.unfilled = stage.unfilled /\ stage'.fills = stage.fills
        /\ stage'.step = "done"
    BY <1>1, <1>2
  <2>6. StageKnown'
    <3>1. stage' \in [inputs : InputFiles, fill : BOOLEAN,
                      cited : [Inputs -> Lists], marked : [Inputs -> Lists],
                      step : {"open", "fill", "end", "raise", "done"},
                      unfilled : Seq(ToSet(stage'.inputs)), fills : Seq(Fills)]
      BY <1>1, <1>2, <2>5
    <3> QED BY <1>3, <2>5, <3>1 DEF StageKnown
  <2>7. LedgerKnown'
    <3>1. stage'.cited = stage.cited /\ accepted' = accepted
      BY <1>1, <2>5
    <3>2. LedgerKnown
      BY DEF StageInv
    <3> QED BY <3>1, <3>2 DEF LedgerKnown
  <2>8. MarksKnown'
    BY <2>5 DEF MarksKnown
  <2>9. ASSUME stage.fill, lost = {}, NEW x \in ToSet(stage.inputs)
        PROVE  LET k == InputOf(x.sid, x.pid)
               IN  /\ k \in Inputs
                   /\ Answers(x, stage.cited[k], stage.marked[k], MarksInFile(k)')
                   /\ Offsets(stage.cited[k]) = CitedInFile(k)'
                   /\ Named(MarksInFile(k)') = MarkedInFile(k)'
    <3> DEFINE k == InputOf(x.sid, x.pid)
    <3>1. k \in Inputs
      BY <1>2, InputsFit
    <3>2. Answers(x, stage.cited[k], stage.marked[k], Meant(k))
      BY <1>3, <2>9 DEF StageInv, MarksKnown, Answered
    <3>3. Meant(k) = MarksInFile(k)
      <4>1. ToSet(stage.fills) = {}
        BY <1>3 DEF ToSet
      <4> QED BY <4>1 DEF Meant
    <3>4. MarksInFile(k)' = MarksInFile(k)
      BY <2>4, <3>1 DEF MarksAlike
    <3>5. LedgerKnown
      BY DEF StageInv
    <3>6. { c \in ToSet(file) : c.kind = "record" } = UNION { ToSet(accepted[s]) : s \in Sids }
      BY <1>1, <2>9, <3>5, AllWritten
    <3>7. { c \in ToSet(file') : c.kind = "record" } = { c \in ToSet(file) : c.kind = "record" }
      BY <2>1, <2>3
    <3>8. Offsets(stage.cited[k]) =
            UNION { CitedOffsets(SpansOn(c, k)) : c \in UNION { ToSet(accepted[s]) : s \in Sids } }
      BY <3>1, <3>5 DEF LedgerKnown
    <3>9. CitedInFile(k)' =
            UNION { CitedOffsets(SpansOn(c, k)) : c \in { d \in ToSet(file') : d.kind = "record" } }
      BY DEF CitedInFile, CitesOf, CitedOffsets
    <3>10. Named(MarksInFile(k)') = MarkedInFile(k)'
      BY DEF Named, MarkedInFile
    <3> QED BY <3>1, <3>2, <3>3, <3>4, <3>6, <3>7, <3>8, <3>9, <3>10
  <2>10. Filled' => stage.fill /\ lost = {}
    BY <1>1, <2>5 DEF Filled
  <2>11. ClosedStageCovers'
    <3> SUFFICES ASSUME stage.fill, lost = {}, NEW x \in ToSet(stage.inputs)
                 PROVE  LET k == InputOf(x.sid, x.pid)
                        IN  /\ CitedInFile(k)' \cap MarkedInFile(k)' = {}
                            /\ Owed(x) \subseteq CitedInFile(k)' \cup MarkedInFile(k)'
      BY <2>5, <2>10 DEF ClosedStageCovers
    <3> QED BY <2>9, AnswersCover
  <2>12. FillsAreHonest'
    <3> SUFFICES ASSUME stage.fill, lost = {}, NEW x \in ToSet(stage.inputs)
                 PROVE  LET k     == InputOf(x.sid, x.pid)
                            told  == Offsets(stage.cited[k]) \cup Offsets(stage.marked[k])
                        IN  /\ \A o \in Owed(x) \ told :
                                  \E c \in MarksInFile(k)' :
                                      /\ { d \in MarksInFile(k)' : o \in Span(d.start, d.end) } = {c}
                                      /\ c.reason = IF o \in Offsets(x.gaps) THEN "gap" ELSE "skipped"
                            /\ MarkedInFile(k)' \cap ToSet(x.fins) \subseteq told
      BY <2>5, <2>10 DEF FillsAreHonest
    <3> DEFINE k == InputOf(x.sid, x.pid)
    <3>1. /\ Answers(x, stage.cited[k], stage.marked[k], MarksInFile(k)')
          /\ Named(MarksInFile(k)') = MarkedInFile(k)'
      BY <2>9
    <3>2. MarkedInFile(k)' \cap ToSet(x.fins) \subseteq Offsets(stage.cited[k]) \cup Offsets(stage.marked[k])
      BY <3>1, AnswersCover
    <3>3. \A o \in Owed(x) \ (Offsets(stage.cited[k]) \cup Offsets(stage.marked[k])) :
            \E c \in MarksInFile(k)' :
                Naming(MarksInFile(k)', o) = {c}
                /\ c.reason = IF o \in Offsets(x.gaps) THEN "gap" ELSE "skipped"
      BY <3>1 DEF Answers
    <3> QED BY <3>2, <3>3 DEF Naming
  <2> QED BY <2>6, <2>7, <2>8, <2>11, <2>12 DEF StageInv
<1> QED BY <1>4, <1>5

-------------------------------------------------------------------------------
(* The start *)

\* A stage opened on a file with no mark and no record counts nothing.
LEMMA OpenedStage ==
    ASSUME WriterInv, NEW inputs \in InputFiles, NEW fill \in BOOLEAN, stage = Opened(inputs, fill),
           call = Idle, accepted = [s \in Sids |-> << >>], ~ Complete,
           \A b \in ToSet(file) : b.kind # "undecoded"
    PROVE  StageInv
<1>1. /\ stage.inputs = inputs /\ stage.fill = fill /\ stage.step = "open"
      /\ stage.cited = [k \in Inputs |-> << >>] /\ stage.marked = [k \in Inputs |-> << >>]
      /\ stage.unfilled = << >> /\ stage.fills = << >>
  BY DEF Opened
<1>2. << >> \in Lists /\ Offsets(<< >>) = {}
  <2>1. << >> \in Seq(Ranges) /\ DOMAIN << >> = {}
    OBVIOUS
  <2>2. Coalesced(<< >>)
    BY <2>1 DEF Coalesced
  <2>3. Offsets(<< >>) = {}
    BY <2>1 DEF Offsets
  <2> QED BY <2>1, <2>2, <2>3 DEF Lists
<1>3. stage \in [inputs : InputFiles, fill : BOOLEAN,
                 cited : [Inputs -> Lists], marked : [Inputs -> Lists],
                 step : {"open", "fill", "end", "raise", "done"},
                 unfilled : Seq(ToSet(stage.inputs)), fills : Seq(Fills)]
  <2>1. << >> \in Seq(ToSet(inputs)) /\ << >> \in Seq(Fills)
    OBVIOUS
  <2> QED BY <1>1, <1>2, <2>1 DEF Opened
<1>4. StageKnown
  BY <1>1, <1>3 DEF StageKnown, Idle
<1>5. LedgerKnown
  <2>1. \A s \in Sids : ToSet(accepted[s]) = {}
    BY DEF ToSet
  <2>2. UNION { ToSet(accepted[s]) : s \in Sids } = {}
    BY <2>1
  <2> QED BY <1>1, <1>2, <2>1, <2>2 DEF LedgerKnown
<1>6. MarksKnown
  <2>1. \A k \in Inputs : Meant(k) = {}
    <3>1. ToSet(stage.fills) = {}
      BY <1>1 DEF ToSet
    <3> QED BY <3>1 DEF Meant, MarksInFile
  <2>2. \A k \in Inputs : Named(Meant(k)) = {} /\ Offsets(stage.marked[k]) = {}
    BY <1>1, <1>2, <2>1 DEF Named
  <2> QED BY <1>1, <2>2 DEF MarksKnown
<1>7. ClosedStageCovers /\ FillsAreHonest
  BY DEF ClosedStageCovers, FillsAreHonest, Filled
<1> QED BY <1>4, <1>5, <1>6, <1>7 DEF StageInv

-------------------------------------------------------------------------------
(* The ledger *)

\* The records that a session whose flushes have not raised accepted are those the
\* file has of it, and those it still holds.
LEMMA AcceptedIsHeld ==
    ASSUME WriterInv, LedgerKnown, NEW s \in Sids \ Dropping
    PROVE  ToSet(accepted[s]) = WrittenOrHeld(s)
<1>1. HistoryKnown /\ WritersKnown
  BY DEF WriterInv
<1>2. /\ file \in Seq(Blocks) /\ accepted[s] \in Seq(Producer.records)
      /\ ToSet(accepted[s]) \subseteq SentIn[s]
  BY <1>1 DEF HistoryKnown, LedgerKnown
<1>3. \A b \in Producer.records : b.pid \in Pids /\ b \in Sent[b.sid][b.pid] /\ b.kind = "record"
  BY SentType
<1>4. \A b : b \in SentIn[s] <=> b \in Producer.records /\ b.sid = s
  BY DEF SentIn
<1>5. \A p \in Pids : \A b : b \in Sent[s][p] <=> b \in SentIn[s] /\ b.pid = p
  BY DEF Sent
<1> DEFINE Filed == { b \in ToSet(file) : b.kind = "record" /\ b.sid = s }
<1>6. \A b : b \in Filed <=> b \in ToSet(file) /\ b \in SentIn[s]
  BY <1>1, <1>3, <1>4, FileHolds
<1>7. \A p \in Pids : /\ ToSet(Kept(accepted[s], Sent[s][p])) = ToSet(accepted[s]) \cap Sent[s][p]
                       /\ ToSet(Kept(file, Sent[s][p])) = ToSet(file) \cap Sent[s][p]
  BY <1>2, KeptMembers
<1> HIDE DEF Filed
<1>8. CASE sessions[s] = None
  <2>1. accepted[s] = << >> /\ \A p \in Pids : Kept(file, Sent[s][p]) = << >>
    BY <1>1, <1>8 DEF WritersKnown
  <2>2. ToSet(<< >>) = {}
    BY DEF ToSet
  <2>3. Filed = {}
    <3> SUFFICES ASSUME NEW b \in Filed PROVE FALSE
      OBVIOUS
    <3>1. b \in ToSet(file) /\ b.pid \in Pids /\ b \in Sent[s][b.pid]
      BY <1>3, <1>4, <1>6
    <3> QED BY <1>7, <2>1, <2>2, <3>1
  <2>4. WrittenOrHeld(s) = Filed
    BY <1>8 DEF WrittenOrHeld, Filed
  <2> QED BY <2>1, <2>2, <2>3, <2>4
<1>9. CASE sessions[s] # None
  <2>1. Conserved(s)
    BY DEF WriterInv, Spoiled, Dropping
  <2>2. Pair \subseteq Pids
    BY WriterAssumption
  <2>3. ASSUME NEW p \in Pids
        PROVE  ToSet(accepted[s]) \cap Sent[s][p] =
                 (ToSet(file) \cap Sent[s][p])
                 \cup IF p \in Pair THEN ToSet(InFlight(s, p)) \cup ToSet(sessions[s].pending[p]) ELSE {}
    <3>1. Kept(accepted[s], Sent[s][p]) =
            Kept(file, Sent[s][p]) \o (IF p \in Pair THEN Out(s, p) ELSE << >>)
      BY <1>9, <2>1 DEF Conserved
    <3>2. PICK kept \in Seq(Blocks) : kept = Kept(file, Sent[s][p])
      BY <1>2, KeptType
    <3>3. CASE p \notin Pair
      <4>1. kept \o << >> = kept
        OBVIOUS
      <4> QED BY <1>7, <3>1, <3>2, <3>3, <4>1
    <3>4. CASE p \in Pair
      <4>1. PICK held \in Seq(Sent[s][p]), pending \in Seq(Sent[s][p]) :
               held = InFlight(s, p) /\ pending = sessions[s].pending[p]
        BY <1>9, <3>4, HeldType
      <4>2. Sent[s][p] \subseteq Blocks
        <5>1. \A b \in Producer.records : b \in Blocks
          BY SentType
        <5> QED BY <1>4, <1>5, <5>1
      <4>3. held \in Seq(Blocks) /\ pending \in Seq(Blocks)
        <5>1. \A T, U : T \subseteq U => Seq(T) \subseteq Seq(U)
          OBVIOUS
        <5> QED BY <4>1, <4>2, <5>1
      <4>4. held \o pending \in Seq(Blocks) /\ ToSet(held \o pending) = ToSet(held) \cup ToSet(pending)
        BY <4>3, ToSetConcat
      <4>5. ToSet(kept \o (held \o pending)) = ToSet(kept) \cup (ToSet(held) \cup ToSet(pending))
        <5>1. PICK rest \in Seq(Blocks) : rest = held \o pending
          BY <4>4
        <5>2. ToSet(kept \o rest) = ToSet(kept) \cup ToSet(rest)
          BY ToSetConcat
        <5> QED BY <4>4, <5>1, <5>2
      <4> QED BY <1>7, <3>1, <3>2, <3>4, <4>1, <4>5 DEF Out
    <3> QED BY <3>3, <3>4
  <2>4. \A p \in Pair : /\ ToSet(InFlight(s, p)) \subseteq Sent[s][p]
                         /\ ToSet(sessions[s].pending[p]) \subseteq Sent[s][p]
    <3> SUFFICES ASSUME NEW p \in Pair
                 PROVE  /\ ToSet(InFlight(s, p)) \subseteq Sent[s][p]
                        /\ ToSet(sessions[s].pending[p]) \subseteq Sent[s][p]
      OBVIOUS
    <3>1. PICK held \in Seq(Sent[s][p]), pending \in Seq(Sent[s][p]) :
             held = InFlight(s, p) /\ pending = sessions[s].pending[p]
      BY <1>9, HeldType
    <3>2. ToSet(held) \subseteq Sent[s][p] /\ ToSet(pending) \subseteq Sent[s][p]
      BY <3>1 DEF ToSet
    <3> QED BY <3>1, <3>2
  <2> DEFINE HeldOf(p) == ToSet(InFlight(s, p)) \cup ToSet(sessions[s].pending[p])
  <2>5. WrittenOrHeld(s) = Filed \cup UNION { HeldOf(p) : p \in Pair }
    BY <1>9 DEF WrittenOrHeld, Filed
  <2>6. ASSUME NEW b \in ToSet(accepted[s]) PROVE b \in WrittenOrHeld(s)
    <3>1. b \in SentIn[s] /\ b.pid \in Pids /\ b \in Sent[s][b.pid]
      BY <1>2, <1>3, <1>4
    <3>2. b \in ToSet(file) \/ (b.pid \in Pair /\ b \in HeldOf(b.pid))
      BY <2>3, <3>1
    <3> HIDE DEF HeldOf
    <3> QED BY <1>6, <2>5, <3>1, <3>2
  <2>7. ASSUME NEW b \in WrittenOrHeld(s) PROVE b \in ToSet(accepted[s])
    <3>1. CASE b \in Filed
      <4>1. b \in ToSet(file) /\ b.pid \in Pids /\ b \in Sent[s][b.pid]
        BY <1>3, <1>4, <1>6, <3>1
      <4> QED BY <2>3, <4>1
    <3>2. ASSUME NEW p \in Pair, b \in HeldOf(p) PROVE b \in ToSet(accepted[s])
      <4>1. p \in Pids /\ b \in Sent[s][p]
        BY <2>2, <2>4, <3>2
      <4> QED BY <2>3, <3>2, <4>1
    <3> HIDE DEF HeldOf
    <3> QED BY <2>5, <2>7, <3>1, <3>2
  <2> QED BY <2>6, <2>7
<1> QED BY <1>8, <1>9

\* What the invariants say of the ledger, in the words of the property.
LEMMA LedgerIsRead == ASSUME WriterInv, StageInv PROVE LedgerIsFile
<1>1. StageKnown /\ LedgerKnown /\ MarksKnown
  BY DEF StageInv
<1>2. \A k \in Inputs : stage.cited[k] \in Lists /\ stage.marked[k] \in Lists
  BY <1>1 DEF StageKnown
<1>3. \A k \in Inputs : Coalesced(stage.cited[k]) /\ Coalesced(stage.marked[k])
  BY <1>2 DEF Lists
<1> DEFINE CountedOf(s) == IF s \in Dropping THEN ToSet(accepted[s]) ELSE WrittenOrHeld(s)
<1>4. \A s \in Sids : ToSet(accepted[s]) = CountedOf(s)
  BY <1>1, AcceptedIsHeld
<1> HIDE DEF CountedOf
<1>5. { ToSet(accepted[s]) : s \in Sids } = { CountedOf(s) : s \in Sids }
  BY <1>4
<1>6. \A k \in Inputs : Offsets(stage.cited[k]) = CitesOf(UNION { CountedOf(s) : s \in Sids }, k)
  BY <1>1, <1>5 DEF LedgerKnown, CitedOffsets, CitesOf
<1>7. ASSUME stage.step = "open", NEW k \in Inputs
      PROVE  Offsets(stage.marked[k]) = MarkedInFile(k)
  <2>1. stage.fills = << >>
    BY <1>1, <1>7 DEF StageKnown
  <2>2. ToSet(stage.fills) = {}
    BY <2>1 DEF ToSet
  <2>3. Meant(k) = MarksInFile(k)
    BY <2>2 DEF Meant
  <2> QED BY <1>1, <1>7, <2>3 DEF MarksKnown, Named, MarkedInFile
<1> QED BY <1>3, <1>6, <1>7 DEF LedgerIsFile, CountedOf

-------------------------------------------------------------------------------
(* What a reader of the output makes of its coverage *)

\* The offsets of input stream k that the records, and the marks, of a list of blocks name.
CitedOn(list, k) ==
    UNION { UNION { Span(span.start, span.end) : span \in { x \in b.spans : <<x.source, x.input>> = k } } :
              b \in { x \in ToSet(list) : x.kind = "record" } }

MarkedOn(list, k) ==
    UNION { Span(b.start, b.end) :
              b \in { x \in ToSet(list) : x.kind = "undecoded" /\ <<x.source, x.input>> = k } }

\* The lengths its Session Ends declare of that stream.
DeclaredOn(list, k) ==
    UNION { { b.extents[i].extent : i \in { j \in DOMAIN b.extents :
                                              <<b.extents[j].source, b.extents[j].input>> = k } } :
              b \in { x \in ToSet(list) : x.kind = "sessionEnd" } }

\* A checker that has gone through the list, from a file whose source 0 is a ZPF file.
Reads(c, list) ==
    /\ {"coverage", "sources"} \subseteq DOMAIN c
    /\ c.sources[0] = "zpf"
    /\ c.coverage \in [Keys -> LedgerType]
    /\ \A k \in Keys :
          /\ c.coverage[k].spans = CitedOn(list, k)
          /\ c.coverage[k].undecoded = MarkedOn(list, k)
          /\ \A s \in Sids : c.coverage[k].declared[s] \in DeclaredOn(list, k) \cup {None}

\* The blocks a stage hands to its writer.
LEMMA BlockKinds ==
    ASSUME NEW b \in Blocks
    PROVE  /\ b.kind \in {"header", "source", "decoder", "session", "participant", "record",
                          "discontinuity", "undecoded", "sessionEnd", "end"}
           /\ b.kind = "record" => b \in Producer.records
           /\ b.kind = "undecoded" =>
                 b.source = 0 /\ b.input \in Inputs /\ b.start \in Nat /\ b.end \in Nat
           /\ b.kind = "sessionEnd" => b.extents \in Seq(ExtentType)
BY WriterAssumption, StageAssumption DEF Blocks, Scaffolds, Fills, SessionRecord, Markable

\* The handler of a block leaves coverage alone, and no block but a source declares one.
LEMMA HandlersLeave ==
    ASSUME NEW c, {"coverage", "sources"} \subseteq DOMAIN c, NEW b,
           b.kind \in {"header", "source", "decoder", "session", "participant", "record",
                       "discontinuity", "undecoded", "sessionEnd", "end"},
           b.kind = "undecoded" => b.start \in Nat /\ b.end \in Nat
    PROVE  /\ {"coverage", "sources"} \subseteq DOMAIN Handled(c, b)
           /\ Handled(c, b).coverage = c.coverage
           /\ b.kind # "source" => Handled(c, b).sources = c.sources
<1>1. CASE b.kind = "header"
  BY <1>1 DEF Handled
<1>2. CASE b.kind \in {"source", "decoder"}
  BY <1>2 DEF Handled
<1>3. CASE b.kind \in {"session", "participant"}
  BY <1>3 DEF Handled
<1>4. CASE b.kind \in {"record", "discontinuity"}
  BY <1>4 DEF Handled
<1>5. CASE b.kind = "undecoded"
  BY <1>5 DEF Handled, WithRegion
<1>6. CASE b.kind = "sessionEnd"
  BY <1>6 DEF Handled, Closed
<1>7. CASE b.kind = "end"
  BY <1>7 DEF Handled
<1> QED BY <1>1, <1>2, <1>3, <1>4, <1>5, <1>6, <1>7

\* One block more: what the reader counts is what the list has.
LEMMA ReadsOneMore ==
    ASSUME NEW list \in Seq(Blocks), NEW c, Reads(c, list), NEW b \in Blocks, b.kind # "source"
    PROVE  Reads(Absorbed(c, b), Append(list, b))
<1> DEFINE d == Handled(c, b)
           more == Append(list, b)
<1>1. /\ {"coverage", "sources"} \subseteq DOMAIN d
      /\ d.coverage = c.coverage /\ d.sources = c.sources
  BY BlockKinds, HandlersLeave DEF Reads
<1>2. /\ c.sources[0] = "zpf" /\ c.coverage \in [Keys -> LedgerType]
      /\ \A k \in Keys :
            /\ c.coverage[k].spans = CitedOn(list, k)
            /\ c.coverage[k].undecoded = MarkedOn(list, k)
            /\ \A s \in Sids : c.coverage[k].declared[s] \in DeclaredOn(list, k) \cup {None}
  BY DEF Reads
<1>3. ToSet(more) = ToSet(list) \cup {b}
  BY AppendMembers
<1> HIDE DEF d, more
<1>4. \A k : b.kind # "record" => CitedOn(more, k) = CitedOn(list, k)
  BY <1>3 DEF CitedOn
<1>5. \A k : b.kind # "undecoded" => MarkedOn(more, k) = MarkedOn(list, k)
  BY <1>3 DEF MarkedOn
<1>6. \A k : DeclaredOn(list, k) \subseteq DeclaredOn(more, k)
  BY <1>3 DEF DeclaredOn
<1>7. CASE b.kind = "record"
  <2> DEFINE cites(k) == UNION { Span(span.start, span.end) :
                                   span \in { x \in b.spans : <<x.source, x.input>> = k } }
             coverage == [k \in Keys |-> [d.coverage[k] EXCEPT !.spans = @ \cup cites(k)]]
  <2>1. Absorbed(c, b) = [d EXCEPT !.coverage = coverage]
    BY <1>7 DEF Absorbed, Covered, d
  <2>2. \A k : CitedOn(more, k) = CitedOn(list, k) \cup cites(k)
    <3>1. { x \in ToSet(more) : x.kind = "record" } = { x \in ToSet(list) : x.kind = "record" } \cup {b}
      BY <1>3, <1>7
    <3> QED BY <3>1 DEF CitedOn
  <2>3. \A k : cites(k) \subseteq Nat
    <3>1. \A span \in b.spans : span.start \in Nat /\ span.end \in Nat
      BY <1>7, BlockKinds, StageAssumption DEF Citable
    <3> QED BY <3>1 DEF Span
  <2> HIDE DEF cites
  <2>4. coverage \in [Keys -> LedgerType]
    BY <1>1, <1>2, <2>3 DEF LedgerType
  <2>5. \A k \in Keys : /\ coverage[k].spans = c.coverage[k].spans \cup cites(k)
                         /\ coverage[k].undecoded = c.coverage[k].undecoded
                         /\ coverage[k].declared = c.coverage[k].declared
    BY <1>1, <1>2 DEF LedgerType
  <2> HIDE DEF coverage
  <2>6. /\ {"coverage", "sources"} \subseteq DOMAIN Absorbed(c, b)
        /\ Absorbed(c, b).coverage = coverage /\ Absorbed(c, b).sources = c.sources
    BY <1>1, <2>1
  <2>7. \A k \in Keys :
          /\ coverage[k].spans = CitedOn(more, k)
          /\ coverage[k].undecoded = MarkedOn(more, k)
          /\ \A s \in Sids : coverage[k].declared[s] \in DeclaredOn(more, k) \cup {None}
    BY <1>2, <1>5, <1>6, <1>7, <2>2, <2>5
  <2> QED BY <1>2, <2>4, <2>6, <2>7 DEF Reads, more
<1>8. CASE b.kind = "undecoded"
  <2> DEFINE key == <<b.source, b.input>>
             coverage == [d.coverage EXCEPT ![key].undecoded = @ \cup Span(b.start, b.end)]
  <2>1. b.source = 0 /\ b.input \in Inputs /\ Span(b.start, b.end) \subseteq Nat
    BY <1>8, BlockKinds DEF Span
  <2>2. c.sources[b.source] # "capture"
    BY <1>2, <2>1
  <2>3. Absorbed(c, b) = [d EXCEPT !.coverage = coverage]
    BY <1>1, <1>8, <2>2 DEF Absorbed, Covered, d
  <2>4. key \in Keys
    BY <2>1, StageAssumption DEF Keys
  <2>5. \A k : MarkedOn(more, k) = MarkedOn(list, k) \cup (IF k = key THEN Span(b.start, b.end) ELSE {})
    BY <1>3, <1>8 DEF MarkedOn
  <2> HIDE DEF key
  <2>6. coverage \in [Keys -> LedgerType]
    BY <1>1, <1>2, <2>1, <2>4 DEF LedgerType
  <2>7. \A k \in Keys : /\ coverage[k].spans = c.coverage[k].spans
                         /\ coverage[k].undecoded =
                              c.coverage[k].undecoded \cup (IF k = key THEN Span(b.start, b.end) ELSE {})
                         /\ coverage[k].declared = c.coverage[k].declared
    BY <1>1, <1>2 DEF LedgerType
  <2> HIDE DEF coverage
  <2>8. /\ {"coverage", "sources"} \subseteq DOMAIN Absorbed(c, b)
        /\ Absorbed(c, b).coverage = coverage /\ Absorbed(c, b).sources = c.sources
    BY <1>1, <2>3
  <2>9. \A k \in Keys :
          /\ coverage[k].spans = CitedOn(more, k)
          /\ coverage[k].undecoded = MarkedOn(more, k)
          /\ \A s \in Sids : coverage[k].declared[s] \in DeclaredOn(more, k) \cup {None}
    BY <1>2, <1>4, <1>6, <1>8, <2>5, <2>7
  <2> QED BY <1>2, <2>6, <2>8, <2>9 DEF Reads, more
<1>9. CASE b.kind = "sessionEnd"
  <2> DEFINE coverage == [k \in Keys |-> [d.coverage[k] EXCEPT !.declared[b.sid] = DeclaredBy(b, k, @)]]
             named(k) == { i \in DOMAIN b.extents : <<b.extents[i].source, b.extents[i].input>> = k }
  <2>1. Absorbed(c, b) = [d EXCEPT !.coverage = coverage]
    BY <1>9 DEF Absorbed, Covered, d
  <2>2. PICK n \in Nat : DOMAIN b.extents = 1 .. n /\ \A i \in 1 .. n : b.extents[i].extent \in Nat
    <3>1. PICK extents \in Seq(ExtentType) : extents = b.extents
      BY <1>9, BlockKinds
    <3>2. \A i \in DOMAIN extents : extents[i] \in ExtentType
      OBVIOUS
    <3>3. \A i \in DOMAIN extents : extents[i].extent \in Nat
      BY <3>2 DEF ExtentType
    <3> QED BY <3>1, <3>3
  <2>3. \A k : named(k) # {} => Max(named(k)) \in named(k)
    <3>1. \A k : named(k) \in SUBSET (1 .. n)
      BY <2>2
    <3> HIDE DEF named
    <3> QED BY <3>1, LastPosition
  <2>4. \A k, before : \/ DeclaredBy(b, k, before) = before
                       \/ /\ DeclaredBy(b, k, before) \in Nat
                          /\ \E i \in named(k) : DeclaredBy(b, k, before) = b.extents[i].extent
    BY <2>2, <2>3 DEF DeclaredBy
  <2>5. \A k : \A i \in named(k) : b.extents[i].extent \in DeclaredOn(more, k)
    BY <1>3, <1>9 DEF DeclaredOn
  <2> HIDE DEF named
  <2>6. ASSUME NEW k \in Keys
        PROVE  /\ coverage[k] \in LedgerType
               /\ coverage[k].spans = c.coverage[k].spans
               /\ coverage[k].undecoded = c.coverage[k].undecoded
               /\ \A s \in Sids : coverage[k].declared[s] \in DeclaredOn(more, k) \cup {None}
    <3>1. PICK ledger \in LedgerType : ledger = c.coverage[k]
      BY <1>2
    <3>2. coverage[k] = [ledger EXCEPT !.declared[b.sid] = DeclaredBy(b, k, @)]
      BY <1>1, <3>1
    <3> DEFINE declared == [ledger.declared EXCEPT ![b.sid] = DeclaredBy(b, k, @)]
    <3>3. \A s \in Sids : \/ declared[s] = ledger.declared[s]
                          \/ declared[s] \in Nat /\ declared[s] \in DeclaredOn(more, k)
      BY <2>4, <2>5, <3>1 DEF LedgerType
    <3>4. declared \in [Sids -> Nat \cup {None}]
      BY <3>1, <3>3 DEF LedgerType
    <3>5. \A s \in Sids : declared[s] \in DeclaredOn(more, k) \cup {None}
      BY <1>2, <1>6, <3>1, <3>3
    <3>6. coverage[k] = [spans |-> ledger.spans, undecoded |-> ledger.undecoded, declared |-> declared]
      BY <3>2 DEF LedgerType
    <3> HIDE DEF declared, coverage
    <3> QED BY <3>1, <3>4, <3>5, <3>6 DEF LedgerType
  <2>7. coverage \in [Keys -> LedgerType]
    BY <2>6
  <2> HIDE DEF coverage
  <2>8. /\ {"coverage", "sources"} \subseteq DOMAIN Absorbed(c, b)
        /\ Absorbed(c, b).coverage = coverage /\ Absorbed(c, b).sources = c.sources
    BY <1>1, <2>1
  <2>9. \A k \in Keys :
          /\ coverage[k].spans = CitedOn(more, k)
          /\ coverage[k].undecoded = MarkedOn(more, k)
          /\ \A s \in Sids : coverage[k].declared[s] \in DeclaredOn(more, k) \cup {None}
    BY <1>2, <1>4, <1>5, <1>9, <2>6
  <2> QED BY <1>2, <2>7, <2>8, <2>9 DEF Reads, more
<1>10. CASE b.kind \notin {"record", "undecoded", "sessionEnd"}
  <2>1. Absorbed(c, b) = d
    BY <1>10 DEF Absorbed, Covered, d
  <2>2. \A k \in Keys :
          /\ c.coverage[k].spans = CitedOn(more, k)
          /\ c.coverage[k].undecoded = MarkedOn(more, k)
          /\ \A s \in Sids : c.coverage[k].declared[s] \in DeclaredOn(more, k) \cup {None}
    BY <1>2, <1>4, <1>5, <1>6, <1>10
  <2> QED BY <1>1, <1>2, <2>1, <2>2 DEF Reads, more
<1> QED BY <1>7, <1>8, <1>9, <1>10

\* What a stage opens its output with.
Openers ==
    {Header, [kind |-> "source", id |-> 0, source |-> "zpf"]}
    \cup [kind : {"session"}, sid : Sids]
    \cup [kind : {"decoder"}, id : DecoderIds, layer : {"transport", "decoded", "undefined"}]
    \cup [kind : {"participant"}, sid : Sids, pid : Pids, isn : SeqNum \cup {None},
          adjacency : {"contiguous", "units", "undefined"}]

\* A stream not yet declared, or declared and without a record.
FreshStreams ==
    {None} \cup { NewStream(x[1], x[2]) :
                     x \in (SeqNum \cup {None}) \X {"contiguous", "units", "undefined"} }

\* A checker that has seen nothing else.
Fresh ==
    [header : {None, "plain", "derived"}, digest : {FALSE, Header.digest},
     sources : [SourceIds -> {None, "zpf"}],
     decoders : [DecoderIds -> {None, "transport", "decoded", "undefined"}],
     live : SUBSET Sids, ended : {{}},
     streams : [Sids \X Pids -> FreshStreams],
     holes : {{}}, removed : {{}}, breaks : {{}},
     zpfSourced : {FALSE}, coverage : {[k \in Keys |-> NewLedger]}, over : {FALSE}]

LEMMA StaysFresh ==
    ASSUME NEW c \in Fresh, NEW b \in Openers
    PROVE  /\ Absorbed(c, b) \in Fresh
           /\ Absorbed(c, b).sources[0] = IF b.kind = "source" THEN "zpf" ELSE c.sources[0]
<1>0. 0 \in SourceIds
  BY StageAssumption
<1>1. CASE b = Header
  <2>1. b.kind = "header"
    BY <1>1, WriterAssumption
  <2>2. Absorbed(c, b) = [c EXCEPT !.header = IF b.derived THEN "derived" ELSE "plain", !.digest = b.digest]
    BY <2>1 DEF Absorbed, Handled, Covered
  <2> QED BY <1>1, <2>1, <2>2 DEF Fresh
<1>2. CASE b = [kind |-> "source", id |-> 0, source |-> "zpf"]
  <2>1. Absorbed(c, b) = [c EXCEPT !.sources[0] = "zpf"]
    BY <1>2 DEF Absorbed, Handled, Covered
  <2>2. b.kind = "source"
    BY <1>2
  <2>3. PICK sources \in [SourceIds -> {None, "zpf"}] :
          sources = [c.sources EXCEPT ![0] = "zpf"] /\ sources[0] = "zpf"
    <3>1. c.sources \in [SourceIds -> {None, "zpf"}]
      BY DEF Fresh
    <3>2. /\ [c.sources EXCEPT ![0] = "zpf"] \in [SourceIds -> {None, "zpf"}]
          /\ [c.sources EXCEPT ![0] = "zpf"][0] = "zpf"
      BY <1>0, <3>1
    <3> QED BY <3>2
  <2>4. Absorbed(c, b) = [c EXCEPT !.sources = sources]
    BY <2>1, <2>3 DEF Fresh
  <2>5. [c EXCEPT !.sources = sources] \in Fresh
    BY <2>3 DEF Fresh
  <2>6. [c EXCEPT !.sources = sources].sources = sources
    BY DEF Fresh
  <2> QED BY <2>2, <2>3, <2>4, <2>5, <2>6
<1>3. CASE b \in [kind : {"session"}, sid : Sids]
  <2>1. b.kind = "session" /\ b.sid \in Sids
    BY <1>3
  <2>2. Absorbed(c, b) = [c EXCEPT !.live = @ \cup {b.sid}]
    BY <2>1 DEF Absorbed, Handled, Covered
  <2>3. PICK live \in SUBSET Sids : live = c.live \cup {b.sid}
    BY <2>1 DEF Fresh
  <2>4. Absorbed(c, b) = [c EXCEPT !.live = live]
    BY <2>2, <2>3 DEF Fresh
  <2>5. [c EXCEPT !.live = live] \in Fresh
    BY DEF Fresh
  <2>6. [c EXCEPT !.live = live].sources = c.sources
    BY DEF Fresh
  <2> QED BY <2>1, <2>4, <2>5, <2>6
<1>4. CASE b \in [kind : {"decoder"}, id : DecoderIds, layer : {"transport", "decoded", "undefined"}]
  <2>1. b.kind = "decoder" /\ b.id \in DecoderIds /\ b.layer \in {"transport", "decoded", "undefined"}
    BY <1>4
  <2>2. Absorbed(c, b) = [c EXCEPT !.decoders[b.id] = b.layer]
    BY <2>1 DEF Absorbed, Handled, Covered
  <2>3. PICK decoders \in [DecoderIds -> {None, "transport", "decoded", "undefined"}] :
          decoders = [c.decoders EXCEPT ![b.id] = b.layer]
    BY <2>1 DEF Fresh
  <2>4. Absorbed(c, b) = [c EXCEPT !.decoders = decoders]
    BY <2>2, <2>3 DEF Fresh
  <2>5. [c EXCEPT !.decoders = decoders] \in Fresh
    BY DEF Fresh
  <2>6. [c EXCEPT !.decoders = decoders].sources = c.sources
    BY DEF Fresh
  <2> QED BY <2>1, <2>4, <2>5, <2>6
<1>5. CASE b \in [kind : {"participant"}, sid : Sids, pid : Pids, isn : SeqNum \cup {None},
                  adjacency : {"contiguous", "units", "undefined"}]
  <2>1. /\ b.kind = "participant" /\ b.sid \in Sids /\ b.pid \in Pids
        /\ b.isn \in SeqNum \cup {None} /\ b.adjacency \in {"contiguous", "units", "undefined"}
    BY <1>5
  <2>2. PICK stream \in FreshStreams : stream = NewStream(b.isn, b.adjacency)
    <3> DEFINE x == <<b.isn, b.adjacency>>
    <3>1. x \in (SeqNum \cup {None}) \X {"contiguous", "units", "undefined"}
          /\ x[1] = b.isn /\ x[2] = b.adjacency
      BY <2>1
    <3> QED BY <3>1 DEF FreshStreams
  <2>3. Absorbed(c, b) = [c EXCEPT !.streams[<<b.sid, b.pid>>] = stream]
    BY <2>1, <2>2 DEF Absorbed, Handled, Covered
  <2>4. c.streams \in [Sids \X Pids -> FreshStreams]
    BY DEF Fresh
  <2>5. [c.streams EXCEPT ![<<b.sid, b.pid>>] = stream] \in [Sids \X Pids -> FreshStreams]
    BY <2>4
  <2>6. Absorbed(c, b) = [c EXCEPT !.streams = [c.streams EXCEPT ![<<b.sid, b.pid>>] = stream]]
    BY <2>3 DEF Fresh
  <2>7. [c EXCEPT !.streams = [c.streams EXCEPT ![<<b.sid, b.pid>>] = stream]] \in Fresh
    BY <2>5 DEF Fresh
  <2>8. Absorbed(c, b).sources = c.sources
    BY <2>6 DEF Fresh
  <2> QED BY <2>1, <2>6, <2>7, <2>8
<1> QED BY <1>1, <1>2, <1>3, <1>4, <1>5 DEF Openers

LEMMA OpeningReads ==
    ASSUME NEW opening \in Seq(Openers), \E i \in DOMAIN opening : opening[i].kind = "source"
    PROVE  Reads(FoldLeft(Absorbed, NewChecker, opening), opening)
<1> DEFINE n == Len(opening)
           step == [p \in (1 .. n) \X Fresh |-> Absorbed(p[2], opening[p[1]])]
           Solves(iter) == iter = [U \in SUBSET DOMAIN opening |->
                              IF U = {} THEN NewChecker ELSE Absorbed(iter[U \ {Max(U)}], opening[Max(U)])]
<1>0. NewChecker \in Fresh
  BY DEF NewChecker, Fresh, FreshStreams
<1>1. n \in Nat /\ DOMAIN opening = 1 .. n /\ \A i \in 1 .. n : opening[i] \in Openers
  OBVIOUS
<1>2. \A i \in 1 .. n, c \in Fresh : Absorbed(c, opening[i]) \in Fresh
  BY <1>1, StaysFresh
<1>3. /\ step \in [(1 .. n) \X Fresh -> Fresh]
      /\ \A i \in 1 .. n, c \in Fresh : step[i, c] = Absorbed(c, opening[i])
  BY <1>2
<1>4. /\ \A U \in SUBSET (1 .. n) : U # {} => Max(U) \in U
      /\ \A k \in 1 .. n : Max(1 .. k) = k /\ (1 .. k) \ {k} = 1 .. k - 1
      /\ \A k \in 1 .. n : 1 .. k \in SUBSET (1 .. n) /\ 1 .. k # {} /\ k \in 0 .. n /\ k - 1 \in 0 .. n
  BY <1>1, LastPosition
<1>5. \E iter : Solves(iter)
  <2> HIDE DEF step, n
  <2>1. PICK iter : FoldsList(iter, n, Fresh, NewChecker, step)
    BY <1>0, <1>1, <1>3, LoopExists
  <2>2. ASSUME NEW U \in SUBSET (1 .. n), U # {}
        PROVE  step[Max(U), iter[U \ {Max(U)}]] = Absorbed(iter[U \ {Max(U)}], opening[Max(U)])
    <3>1. Max(U) \in 1 .. n /\ iter[U \ {Max(U)}] \in Fresh
      BY <1>4, <2>1, <2>2 DEF FoldsList
    <3> QED BY <1>3, <3>1
  <2>3. iter = [U \in SUBSET (1 .. n) |->
                  IF U = {} THEN NewChecker ELSE Absorbed(iter[U \ {Max(U)}], opening[Max(U)])]
    BY <2>1, <2>2 DEF FoldsList
  <2> QED BY <1>1, <2>3
<1> DEFINE iter == CHOOSE iter : Solves(iter)
<1>6. Solves(iter)
  BY <1>5
<1>7. FoldLeft(Absorbed, NewChecker, opening) = iter[DOMAIN opening]
  BY DEF FoldLeft, MapThenFoldSet
<1> HIDE DEF iter
<1>8. \A U \in SUBSET (1 .. n) :
        iter[U] = IF U = {} THEN NewChecker ELSE Absorbed(iter[U \ {Max(U)}], opening[Max(U)])
  BY <1>1, <1>6
<1> HIDE DEF n, step, Solves
<1> DEFINE P == { k \in 0 .. n : /\ iter[1 .. k] \in Fresh
                                 /\ \A i \in 1 .. k : opening[i].kind = "source" =>
                                       iter[1 .. k].sources[0] = "zpf" }
<1>9. 0 \in P
  <2>1. 1 .. 0 = {} /\ {} \in SUBSET (1 .. n) /\ 0 \in 0 .. n
    <3>1. n \in Nat
      BY <1>1
    <3> QED BY ONLY <3>1
  <2>2. iter[1 .. 0] = NewChecker
    BY <1>8, <2>1
  <2> QED BY <1>0, <2>1, <2>2
<1>10. ASSUME NEW k \in 1 .. n, k - 1 \in P
       PROVE  k \in P
  <2>1. iter[1 .. k] = Absorbed(iter[1 .. k - 1], opening[k])
    BY <1>4, <1>8
  <2>2. PICK c \in Fresh : c = iter[1 .. k - 1]
    BY <1>10
  <2>3. /\ Absorbed(c, opening[k]) \in Fresh
        /\ Absorbed(c, opening[k]).sources[0] = IF opening[k].kind = "source" THEN "zpf" ELSE c.sources[0]
    BY <1>1, StaysFresh
  <2>4. \A i \in 1 .. k : i = k \/ i \in 1 .. k - 1
    BY <1>1
  <2> QED BY <1>4, <1>10, <2>1, <2>2, <2>3, <2>4
<1>11. n \in P
  <2> HIDE DEF P
  <2>1. \A k \in 0 .. n : k \in P
    BY <1>1, <1>9, <1>10, Throughout
  <2> QED BY <1>1, <2>1
<1>12. PICK c \in Fresh : c = FoldLeft(Absorbed, NewChecker, opening) /\ c.sources[0] = "zpf"
  BY <1>1, <1>7, <1>11
<1>13. \A b \in ToSet(opening) : b.kind \notin {"record", "undecoded", "sessionEnd"}
  <2>1. \A b \in Openers : b.kind \notin {"record", "undecoded", "sessionEnd"}
    BY WriterAssumption DEF Openers
  <2>2. \A b \in ToSet(opening) : b \in Openers
    BY DEF ToSet
  <2> QED BY <2>1, <2>2
<1>14. \A k : CitedOn(opening, k) = {} /\ MarkedOn(opening, k) = {}
  BY <1>13 DEF CitedOn, MarkedOn
<1>15. c.coverage = [k \in Keys |-> NewLedger] /\ {"coverage", "sources"} \subseteq DOMAIN c
  BY DEF Fresh
<1>16. NewLedger \in LedgerType /\ NewLedger.spans = {} /\ NewLedger.undecoded = {}
       /\ \A s \in Sids : NewLedger.declared[s] = None
  BY DEF NewLedger, LedgerType
<1> QED BY <1>12, <1>14, <1>15, <1>16 DEF Reads

-------------------------------------------------------------------------------
(* The invariant about the reader of a stage's output *)

\* The offsets that lie inside input stream k.
Within(k) ==
    UNION { 0 .. x.extent - 1 : x \in { y \in ToSet(stage.inputs) : InputOf(y.sid, y.pid) = k } }

\* Extents that declare streams of the input, each of them whole.
DeclareInputs(extents) ==
    \A i \in DOMAIN extents : \E x \in ToSet(stage.inputs) : extents[i] = ExtentOf(x)

\* The reader has counted what the file has; what the file has of records was accepted,
\* of marks was counted or fills the input in, and of extents is the input's.
ReadKnown ==
    /\ Reads(tail.checker, file)
    /\ \A b \in ToSet(file) : b.kind = "sessionEnd" => DeclareInputs(b.extents)
    /\ call.op = "end" => DeclareInputs(call.extents)
    /\ \A b \in ToSet(file) : b.kind = "record" /\ b.sid \notin lost => b \in ToSet(accepted[b.sid])
    /\ \A k \in Inputs : Named(Meant(k)) \subseteq Offsets(stage.marked[k]) \cup Within(k)

\* The call under way, if it is an end(), was under way before.
SameEnd == call'.op = "end" => call.op = "end" /\ call'.extents = call.extents

\* What was accepted stays so, and what was lost.
TakesMore == (\A s \in Sids : ToSet(accepted[s]) \subseteq ToSet(accepted'[s])) /\ lost \subseteq lost'

SameMarks == stage'.inputs = stage.inputs /\ stage'.marked = stage.marked /\ stage'.fills = stage.fills

\* The reader follows a block written.
LEMMA ReaderFollows ==
    ASSUME HistoryKnown, Reads(tail.checker, file), NEW b \in Blocks, b.kind # "source", Emit(b)
    PROVE  Reads(tail.checker, file)'
<1>1. CASE ~ Emits(b)
  BY <1>1 DEF Emit
<1>2. CASE Emits(b)
  <2>1. file' = Append(file, b) /\ tail'.checker = Absorbed(tail.checker, b)
    BY <1>2 DEF Emit
  <2>2. PICK list \in Seq(Blocks) : \E c : list = file /\ c = tail.checker /\ Reads(c, list)
    BY DEF HistoryKnown
  <2>3. PICK c : list = file /\ c = tail.checker /\ Reads(c, list)
    BY <2>2
  <2>4. Reads(Absorbed(c, b), Append(list, b))
    BY <2>3, ReadsOneMore
  <2> QED BY <2>1, <2>3, <2>4
<1> QED BY <1>1, <1>2

LEMMA ReadsStay ==
    ASSUME ReadKnown, UNCHANGED <<file, tail>>, SameMarks, SameEnd, TakesMore, HistoryKnown
    PROVE  ReadKnown'
<1>1. Reads(tail.checker, file)'
  BY DEF ReadKnown
<1>2. \A extents : DeclareInputs(extents)' <=> DeclareInputs(extents)
  BY DEF DeclareInputs, SameMarks
<1>3. \A b \in ToSet(file') : b.kind = "sessionEnd" => DeclareInputs(b.extents)'
  BY <1>2 DEF ReadKnown
<1>4. call'.op = "end" => DeclareInputs(call.extents)'
  <2>1. ASSUME call'.op = "end" PROVE DeclareInputs(call'.extents)
    <3>1. call.op = "end" /\ call'.extents = call.extents
      BY <2>1 DEF SameEnd
    <3> QED BY <3>1 DEF ReadKnown
  <2> QED BY <2>1 DEF DeclareInputs, SameMarks
<1>5. \A b \in ToSet(file') : b.kind = "record" /\ b.sid \notin lost' => b \in ToSet(accepted'[b.sid])
  <2>1. \A b \in ToSet(file) : b.kind = "record" => b.sid \in Sids
    BY FileHolds, SentType
  <2> QED BY <2>1 DEF ReadKnown, TakesMore
<1>6. \A k \in Inputs : Meant(k)' = Meant(k) /\ Within(k)' = Within(k)
  BY DEF SameMarks, Meant, MarksInFile, Within
<1>7. \A k \in Inputs : Named(Meant(k))' \subseteq Offsets(stage'.marked[k]) \cup Within(k)'
  BY <1>6 DEF ReadKnown, SameMarks
<1> QED BY <1>1, <1>3, <1>4, <1>5, <1>7 DEF ReadKnown

LEMMA ReadsBlock ==
    ASSUME ReadKnown, HistoryKnown, NEW b \in Blocks, Emit(b), b.kind \notin {"source", "undecoded"},
           b.kind = "sessionEnd" => DeclareInputs(b.extents),
           b.kind = "record" /\ b.sid \notin lost /\ Emits(b) => b \in ToSet(accepted'[b.sid]),
           SameMarks, SameEnd, TakesMore
    PROVE  ReadKnown'
<1>1. Reads(tail.checker, file)'
  BY ReaderFollows DEF ReadKnown
<1>2. \A extents : DeclareInputs(extents)' <=> DeclareInputs(extents)
  BY DEF DeclareInputs, SameMarks
<1>3. \A c \in ToSet(file') : c \in ToSet(file) \/ (c = b /\ Emits(b))
  BY BlockWritten
<1>4. \A c \in ToSet(file') : c.kind = "sessionEnd" => DeclareInputs(c.extents)'
  BY <1>2, <1>3 DEF ReadKnown
<1>5. call'.op = "end" => DeclareInputs(call.extents)'
  <2>1. ASSUME call'.op = "end" PROVE DeclareInputs(call'.extents)
    <3>1. call.op = "end" /\ call'.extents = call.extents
      BY <2>1 DEF SameEnd
    <3> QED BY <3>1 DEF ReadKnown
  <2> QED BY <2>1 DEF DeclareInputs, SameMarks
<1>6. \A c \in ToSet(file') : c.kind = "record" /\ c.sid \notin lost' => c \in ToSet(accepted'[c.sid])
  <2>1. \A c \in ToSet(file) : c.kind = "record" => c.sid \in Sids
    BY FileHolds, SentType
  <2> QED BY <1>3, <2>1 DEF ReadKnown, TakesMore
<1>7. MarksAlike
  BY NoMarkWritten
<1>8. \A k \in Inputs : Meant(k)' = Meant(k) /\ Within(k)' = Within(k)
  BY <1>7 DEF MarksAlike, SameMarks, Meant, Within
<1>9. \A k \in Inputs : Named(Meant(k))' \subseteq Offsets(stage'.marked[k]) \cup Within(k)'
  BY <1>8 DEF ReadKnown, SameMarks
<1> QED BY <1>1, <1>4, <1>5, <1>6, <1>9 DEF ReadKnown

-------------------------------------------------------------------------------
(* The steps of a stage, and the reader of its output *)

StageTyped ==
    stage \in [inputs : InputFiles, fill : BOOLEAN,
               cited : [Inputs -> Lists], marked : [Inputs -> Lists],
               step : {"open", "fill", "end", "raise", "done"},
               unfilled : Seq(ToSet(stage.inputs)), fills : Seq(Fills)]

LEMMA StageIsTyped == ASSUME StageInv PROVE StageTyped
BY DEF StageInv, StageKnown, StageTyped

\* Steps of close() that touch nothing but how far it has come.
LEMMA SameMarksStep ==
    ASSUME StageTyped, NEW step, stage' = [stage EXCEPT !.step = step]
    PROVE  SameMarks
BY DEF StageTyped, SameMarks

LEMMA CallTyped ==
    ASSUME WriterInv
    PROVE  call \in [op : {"none", "end", "close"}, sid : Sids \cup {None}, extents : Seq(ExtentType),
                     left : Seq(Sids), step : {"none", "flush", "merge", "raise"}]
BY DEF WriterInv, CallKnown

\* A step that writes nothing and takes nothing.
LEMMA ReadQuiet ==
    ASSUME WriterInv, ReadKnown, UNCHANGED <<file, tail, accepted>>, lost \subseteq lost',
           SameMarks, SameEnd
    PROVE  ReadKnown'
<1>1. TakesMore /\ HistoryKnown
  BY DEF TakesMore, WriterInv
<1> QED BY <1>1, ReadsStay

\* A session, a participant, a break.
LEMMA ReadCalls ==
    ASSUME WriterInv, ReadKnown, UNCHANGED stage,
           \/ \E b \in Blocks : b.kind = "discontinuity" /\ Discontinuity(b)
           \/ \E b \in Producer.participants : Participant(b)
           \/ \E s \in Sids, mode \in [verify : BOOLEAN, linearize : BOOLEAN] : BeginSession(s, mode)
    PROVE  ReadKnown'
<1>1. PICK b \in Blocks : /\ Emit(b) /\ b.kind \in {"discontinuity", "participant", "session"}
                          /\ UNCHANGED <<call, accepted, lost>>
  <2>1. ASSUME NEW b \in Blocks, b.kind = "discontinuity", Discontinuity(b)
        PROVE  Emit(b) /\ UNCHANGED <<call, accepted, lost>>
    BY <2>1 DEF Discontinuity, history
  <2>2. ASSUME NEW b \in Producer.participants, Participant(b)
        PROVE  Emit(b) /\ UNCHANGED <<call, accepted, lost>> /\ b \in Blocks /\ b.kind = "participant"
    BY <2>2, WriterAssumption DEF Participant, history, Blocks
  <2>3. ASSUME NEW s \in Sids, NEW mode, BeginSession(s, mode)
        PROVE  \E b \in Blocks : Emit(b) /\ UNCHANGED <<call, accepted, lost>> /\ b.kind = "session"
    <3>1. Emit([kind |-> "session", sid |-> s]) /\ UNCHANGED <<call, accepted, lost>>
      BY <2>3 DEF BeginSession, history
    <3>2. [kind |-> "session", sid |-> s] \in Blocks /\ [kind |-> "session", sid |-> s].kind = "session"
      BY DEF Blocks
    <3> QED BY <3>1, <3>2
  <2> QED BY <2>1, <2>2, <2>3
<1>2. SameMarks /\ SameEnd /\ TakesMore /\ HistoryKnown
  BY <1>1 DEF SameMarks, SameEnd, TakesMore, WriterInv
<1> QED BY <1>1, <1>2, ReadsBlock

\* record(), which returns or raises.
LEMMA ReadCounts ==
    ASSUME WriterInv, StageTyped, ReadKnown, NEW b \in Producer.records, Record(b) \/ Buffer(b),
           stage' = Counted(b)
    PROVE  ReadKnown'
<1>1. SameMarks
  <2>1. stage' = stage \/ \E cited : stage' = [stage EXCEPT !.cited = cited]
    BY DEF Counted
  <2> QED BY <2>1 DEF SameMarks, StageTyped
<1>2. /\ UNCHANGED <<call, lost>>
      /\ IF Takes(b) THEN accepted' = [accepted EXCEPT ![b.sid] = Append(@, b)] ELSE UNCHANGED accepted
  BY RecordCounts
<1>3. b.sid \in Sids /\ b \in Blocks /\ b.kind = "record" /\ HistoryKnown
  BY SentType DEF WriterInv
<1>4. TakesMore /\ (Takes(b) => b \in ToSet(accepted'[b.sid]))
  <2>1. accepted[b.sid] \in Seq(Producer.records) /\ DOMAIN accepted = Sids
    BY <1>3 DEF HistoryKnown
  <2>2. CASE Takes(b)
    <3>1. /\ accepted'[b.sid] = Append(accepted[b.sid], b)
          /\ \A s \in Sids : s # b.sid => accepted'[s] = accepted[s]
      BY <1>2, <1>3, <2>1, <2>2
    <3>2. ToSet(accepted'[b.sid]) = ToSet(accepted[b.sid]) \cup {b}
      BY <2>1, <3>1, AppendMembers
    <3> QED BY <1>2, <3>1, <3>2 DEF TakesMore
  <2> QED BY <1>2, <2>2 DEF TakesMore
<1>5. SameEnd
  BY <1>2 DEF SameEnd
<1>6. CASE Buffer(b)
  <2>1. UNCHANGED <<file, tail>>
    BY <1>6 DEF Buffer
  <2> QED BY <1>1, <1>3, <1>4, <1>5, <2>1, ReadsStay
<1>7. CASE Record(b)
  <2>1. EmitRecord(b.sid, b) /\ ~ sessions[b.sid].linearize
    BY <1>7 DEF Record
  <2>2. CASE Stopped(sessions[b.sid], b)
    <3>1. UNCHANGED <<file, tail>>
      BY <2>1, <2>2 DEF EmitRecord
    <3> QED BY <1>1, <1>3, <1>4, <1>5, <3>1, ReadsStay
  <2>3. CASE ~ Stopped(sessions[b.sid], b)
    <3>1. Emit(b) /\ (Emits(b) => Takes(b))
      BY <2>1, <2>3 DEF EmitRecord, Takes, RecordEmits
    <3> QED BY <1>1, <1>3, <1>4, <1>5, <3>1, ReadsBlock
  <2> QED BY <2>2, <2>3
<1> QED BY <1>6, <1>7

\* The merge yields records its session accepted.
LEMMA ReadYields ==
    ASSUME WriterInv, ReadKnown, NEW p \in Pair, MergeYields(p), UNCHANGED stage
    PROVE  ReadKnown'
<1>1. PICK s : s = Head(call.left)
  OBVIOUS
<1>2. PICK b \in Producer.records : b = frontier[p].head /\ b.sid = s /\ b.pid = p
  BY <1>1, HeadYielded
<1>3. /\ EmitRecord(s, b) /\ UNCHANGED <<accepted, lost>> /\ call.step = "merge"
      /\ call' = call \/ call' = [call EXCEPT !.step = "raise"]
  BY <1>1, <1>2 DEF MergeYields
<1>4. s \in Sids /\ b \in Blocks /\ b.kind = "record" /\ HistoryKnown /\ TakesMore /\ SameMarks
  BY <1>2, <1>3, SentType DEF WriterInv, TakesMore, SameMarks
<1>5. SameEnd
  BY <1>3, CallTyped DEF SameEnd
<1>6. s \notin lost => b \in ToSet(accepted[s])
  <2> HAVE s \notin lost
  <2>1. sessions[s] # None /\ p \in Pids
    <3>1. call.left # << >> /\ call.left \in Seq(Sids)
      BY <1>3, CallTyped DEF WriterInv, CallKnown
    <3>2. 1 \in DOMAIN call.left /\ call.left[1] = s
      BY <1>1, <3>1
    <3>3. Pair \subseteq Pids
      BY WriterAssumption
    <3> QED BY <3>2, <3>3 DEF WriterInv, CallKnown
  <2>2. Kept(accepted[s], Sent[s][p]) =
          Kept(file, Sent[s][p]) \o (InFlight(s, p) \o sessions[s].pending[p])
    BY <1>3, <1>4, <2>1, SoundConserves DEF RecordsConserved
  <2>3. InFlight(s, p) = <<b>> \o Held(p)'
    BY <1>1, <1>2, <1>3, HeadYielded DEF InFlight
  <2>4. PICK whole \in Seq(Producer.records), written \in Seq(Blocks) :
          whole = Kept(accepted[s], Sent[s][p]) /\ written = Kept(file, Sent[s][p])
    <3>1. accepted[s] \in Seq(Producer.records) /\ file \in Seq(Blocks)
      BY <1>4 DEF HistoryKnown
    <3> QED BY <3>1, KeptType
  <2>5. PICK rest \in Seq(Sent[s][p]), behind \in Seq(Sent[s][p]) :
          rest = Held(p)' /\ behind = sessions[s].pending[p]
    <3>1. sessions[s].pending[p] \in Seq(Sent[s][p])
      BY <1>4, <2>1 DEF WriterInv, WritersKnown
    <3>2. Held(p)' \in Seq(Sent[s][p])
      <4>1. PICK list \in Seq(Sent[s][p]) : list = streams'[p]
        BY <1>1, <1>3, HeadYielded DEF WriterInv, MergeKnown
      <4>2. PICK m \in 1 .. Len(list) + 1 : Held(p)' = SubSeq(list, m, Len(list))
        <5>1. HeadInStream(p)'
          BY HeadYielded
        <5>2. PICK loaded \in 0 .. Len(list) :
                loaded = frontier'[p].loaded /\ (frontier'[p].head # None => loaded > 0)
          BY <4>1, <5>1 DEF HeadInStream
        <5>3. Held(p)' = SubSeq(list, IF frontier'[p].head = None THEN loaded + 1 ELSE loaded, Len(list))
          BY <4>1, <5>2 DEF Held
        <5>4. loaded + 1 \in 1 .. Len(list) + 1 /\ (loaded > 0 => loaded \in 1 .. Len(list) + 1)
          BY <4>1, <5>2
        <5>5. CASE frontier'[p].head = None
          BY <5>3, <5>4, <5>5
        <5>6. CASE frontier'[p].head # None
          BY <5>2, <5>3, <5>4, <5>6
        <5> QED BY <5>5, <5>6
      <4>3. SubSeq(list, m, Len(list)) \in Seq(Sent[s][p])
        BY RestEnds
      <4> QED BY <4>2, <4>3
    <3> QED BY <3>1, <3>2
  <2>6. whole = written \o ((<<b>> \o rest) \o behind)
    BY <2>2, <2>3, <2>4, <2>5
  <2>7. b \in ToSet(whole)
    <3>1. /\ Len(whole) = Len(written) + (1 + Len(rest) + Len(behind))
          /\ Len(written) + 1 \in 1 .. Len(whole)
          /\ whole[Len(written) + 1] = b
      BY <2>6
    <3> QED BY <3>1 DEF ToSet
  <2>8. ToSet(whole) \subseteq ToSet(accepted[s])
    BY <1>4, <2>4, KeptMembers DEF HistoryKnown
  <2> QED BY <2>7, <2>8
<1>7. CASE UNCHANGED <<file, tail>>
  BY <1>4, <1>5, <1>7, ReadsStay
<1>8. CASE Emit(b)
  BY <1>2, <1>3, <1>4, <1>5, <1>6, <1>8, ReadsBlock
<1> QED BY <1>3, <1>7, <1>8 DEF EmitRecord

\* A flush goes on.
LEMMA ReadFlushes ==
    ASSUME WriterInv, ReadKnown, Flushes
    PROVE  ReadKnown'
<1>1. UNCHANGED stage
  BY DEF Flushes
<1>2. CASE SkipFlush \/ StartFlush \/ FlushDone \/ MergeRuns
  <2>1. UNCHANGED <<file, tail, accepted, lost>>
    BY <1>2 DEF SkipFlush, StartFlush, FlushDone, MergeRuns, history
  <2>2. call'.op = call.op /\ call'.extents = call.extents
    BY <1>2, CallTyped DEF SkipFlush, StartFlush, FlushDone, MergeRuns
  <2> QED BY <1>1, <2>1, <2>2, ReadQuiet DEF SameMarks, SameEnd
<1>3. ASSUME NEW p \in Pair, MergeYields(p)
      PROVE  ReadKnown'
  BY <1>1, <1>3, ReadYields
<1> QED BY <1>2, <1>3 DEF Flushes

\* An end() that flushed writes the Session End it was called with.
LEMMA ReadEndsSession ==
    ASSUME WriterInv, StageTyped, ReadKnown, EndSession,
           NEW step, stage' = [stage EXCEPT !.step = step]
    PROVE  ReadKnown'
<1>1. /\ Emit(SessionEndOf(call.sid, call.extents)) /\ call' = Idle /\ UNCHANGED <<accepted, lost>>
      /\ call.op = "end"
  BY DEF EndSession, Flushed, history
<1>2. PICK b \in Blocks : /\ b = SessionEndOf(call.sid, call.extents)
                          /\ b.kind = "sessionEnd" /\ b.extents = call.extents
  <2> DEFINE c == SessionEndOf(call.sid, call.extents)
  <2>1. c \in Blocks
    BY DEF WriterInv, CallKnown, SessionEndOf, Blocks
  <2>2. c.kind = "sessionEnd" /\ c.extents = call.extents
    BY DEF SessionEndOf
  <2> QED BY <2>1, <2>2
<1>3. DeclareInputs(b.extents)
  BY <1>1, <1>2 DEF ReadKnown
<1>4. SameMarks /\ SameEnd /\ TakesMore /\ HistoryKnown
  BY <1>1, SameMarksStep DEF SameEnd, TakesMore, WriterInv, Idle
<1> QED BY <1>1, <1>2, <1>3, <1>4, ReadsBlock

\* The End block.
LEMMA ReadEndsFile ==
    ASSUME WriterInv, StageTyped, ReadKnown, EndFile,
           NEW step, stage' = [stage EXCEPT !.step = step]
    PROVE  ReadKnown'
<1>1. call' = Idle /\ UNCHANGED <<accepted, lost>>
  BY DEF EndFile, history
<1>2. SameMarks /\ SameEnd /\ TakesMore /\ HistoryKnown
  BY <1>1, SameMarksStep DEF SameEnd, TakesMore, WriterInv, Idle
<1>3. CASE Complete
  <2>1. UNCHANGED <<file, tail>>
    BY <1>3 DEF EndFile
  <2> QED BY <1>2, <2>1, ReadsStay
<1>4. CASE ~ Complete
  <2>1. PICK b \in Blocks : Emit(b) /\ b.kind = "end"
    <3>1. [kind |-> "end"] \in Blocks /\ [kind |-> "end"].kind = "end"
      BY DEF Blocks
    <3> QED BY <1>4, <3>1 DEF EndFile
  <2> QED BY <1>2, <2>1, ReadsBlock
<1> QED BY <1>3, <1>4

\* A mark is written and counted, or neither.
LEMMA ReadMarks ==
    ASSUME WriterInv, StageTyped, ReadKnown, NEW b \in Producer.declarations, MarkUndecoded(b)
    PROVE  ReadKnown'
<1>1. /\ Emit(b) /\ UNCHANGED <<call, accepted, lost>>
      /\ stage' = IF Emits(b) THEN [stage EXCEPT !.marked[b.input] = Add(@, b.start, b.end)] ELSE stage
  BY DEF MarkUndecoded, Declare, history
<1>2. /\ b.kind = "undecoded" /\ b.source = 0 /\ b.input \in Inputs
      /\ b.start \in Nat /\ b.end \in Nat /\ b \in Blocks /\ HistoryKnown
  BY StageAssumption DEF Markable, Blocks, WriterInv
<1>3. SameEnd /\ TakesMore
  BY <1>1 DEF SameEnd, TakesMore
<1>4. CASE ~ Emits(b)
  <2>1. UNCHANGED <<file, tail>> /\ SameMarks
    BY <1>1, <1>4 DEF Emit, SameMarks
  <2> QED BY <1>2, <1>3, <2>1, ReadsStay
<1>5. CASE Emits(b)
  <2>1. PICK list \in Lists : /\ list = Add(stage.marked[b.input], b.start, b.end)
                              /\ Offsets(list) = Offsets(stage.marked[b.input]) \cup Span(b.start, b.end)
    <3>1. PICK before \in Lists : before = stage.marked[b.input]
      BY <1>2 DEF StageTyped
    <3>2. before \in Seq(Ranges) /\ Coalesced(before) /\ b.start \in Nat /\ b.end \in Nat
      BY <1>2 DEF Lists
    <3>3. /\ Add(before, b.start, b.end) \in Seq(Ranges) /\ Coalesced(Add(before, b.start, b.end))
          /\ Offsets(Add(before, b.start, b.end)) = Offsets(before) \cup b.start .. b.end - 1
      BY <3>2, AddIsUnion
    <3> QED BY <3>1, <3>3 DEF Lists, Span
  <2>2. PICK marked \in [Inputs -> Lists] : marked = [stage.marked EXCEPT ![b.input] = list]
    BY <2>1 DEF StageTyped
  <2>3. stage' = [stage EXCEPT !.marked = marked]
    BY <1>1, <1>5, <2>1, <2>2 DEF StageTyped
  <2>4. stage'.inputs = stage.inputs /\ stage'.marked = marked /\ stage'.fills = stage.fills
    BY <2>3 DEF StageTyped
  <2>5. ToSet(file') = ToSet(file) \cup {b}
    BY <1>1, <1>2, <1>5, BlockWritten
  <2>6. Reads(tail.checker, file)'
    BY <1>1, <1>2, ReaderFollows DEF ReadKnown
  <2>7. \A extents : DeclareInputs(extents)' <=> DeclareInputs(extents)
    BY <2>4 DEF DeclareInputs
  <2>8. \A c \in ToSet(file') : c.kind = "sessionEnd" => DeclareInputs(c.extents)'
    BY <1>2, <2>5, <2>7 DEF ReadKnown
  <2>9. call'.op = "end" => DeclareInputs(call.extents)'
    BY <1>1, <2>4 DEF ReadKnown, DeclareInputs
  <2>10. \A c \in ToSet(file') : c.kind = "record" /\ c.sid \notin lost' => c \in ToSet(accepted'[c.sid])
    BY <1>1, <1>2, <2>5 DEF ReadKnown
  <2>11. ASSUME NEW k \in Inputs
         PROVE  Named(Meant(k))' \subseteq Offsets(stage'.marked[k]) \cup Within(k)'
    <3>1. Within(k)' = Within(k)
      BY <2>4 DEF Within
    <3>2. Named(Meant(k)) \subseteq Offsets(stage.marked[k]) \cup Within(k)
      BY DEF ReadKnown
    <3>3. CASE k = b.input
      <4>1. Meant(k)' = Meant(k) \cup {b}
        BY <1>2, <2>4, <2>5, <3>3 DEF Meant, MarksInFile
      <4>2. Named(Meant(k))' = Named(Meant(k)) \cup Span(b.start, b.end)
        BY <4>1 DEF Named
      <4>3. marked[k] = list
        BY <2>2, <3>3 DEF StageTyped
      <4> QED BY <2>1, <2>4, <3>1, <3>2, <3>3, <4>2, <4>3
    <3>4. CASE k # b.input
      <4>1. Meant(k)' = Meant(k)
        BY <1>2, <2>4, <2>5, <3>4 DEF Meant, MarksInFile
      <4>2. marked[k] = stage.marked[k]
        BY <2>2, <3>4 DEF StageTyped
      <4> QED BY <2>4, <3>1, <3>2, <4>1, <4>2
    <3> QED BY <3>3, <3>4
  <2> QED BY <2>6, <2>8, <2>9, <2>10, <2>11 DEF ReadKnown
<1> QED BY <1>4, <1>5

\* What autofill writes for a stream lies inside it.
LEMMA ReadFills ==
    ASSUME WriterInv, StageTyped, ReadKnown, FillStream
    PROVE  ReadKnown'
<1>0. PICK x : x = Head(stage.unfilled)
  OBVIOUS
<1>1. /\ stage.fills = << >> /\ stage.unfilled # << >>
      /\ stage' = [stage EXCEPT !.fills = FillsOf(x), !.unfilled = Tail(@)]
      /\ UNCHANGED vars
  BY <1>0 DEF FillStream, Filling
<1>2. UNCHANGED <<file, tail, accepted, lost, call>> /\ HistoryKnown
  BY <1>1 DEF vars, history, WriterInv
<1>3. x \in ToSet(stage.inputs)
  <2>1. stage.unfilled \in Seq(ToSet(stage.inputs))
    BY DEF StageTyped
  <2> QED BY <1>0, <1>1, <2>1
<1> DEFINE j == InputOf(x.sid, x.pid)
<1>4. InputStream(x) /\ j \in Inputs
  BY <1>3, InputsFit DEF StageTyped
<1>5. /\ \A b \in ToSet(FillsOf(x)) : b.input = j
      /\ Tells(ToSet(FillsOf(x)), Untold(x), Offsets(x.gaps))
  <2>1. stage.cited[j] \in Lists /\ stage.marked[j] \in Lists
    BY <1>4 DEF StageTyped
  <2> QED BY <1>4, <2>1, FillsTell
<1>6. stage'.inputs = stage.inputs /\ stage'.marked = stage.marked /\ stage'.fills = FillsOf(x)
  BY <1>1 DEF StageTyped
<1>7. \A extents : DeclareInputs(extents)' <=> DeclareInputs(extents)
  BY <1>6 DEF DeclareInputs
<1>8. ASSUME NEW k \in Inputs
      PROVE  Named(Meant(k))' \subseteq Offsets(stage'.marked[k]) \cup Within(k)'
  <2>1. Within(k)' = Within(k)
    BY <1>6 DEF Within
  <2>2. Named(Meant(k)) \subseteq Offsets(stage.marked[k]) \cup Within(k)
    BY DEF ReadKnown
  <2>3. Meant(k) = MarksInFile(k)
    <3>1. ToSet(stage.fills) = {}
      BY <1>1 DEF ToSet
    <3> QED BY <3>1 DEF Meant
  <2>4. MarksInFile(k)' = MarksInFile(k)
    BY <1>2 DEF MarksInFile
  <2>5. CASE k # j
    <3>1. Meant(k)' = Meant(k)
      BY <1>5, <1>6, <2>3, <2>4, <2>5 DEF Meant
    <3> QED BY <1>6, <2>1, <2>2, <3>1
  <2>6. CASE k = j
    <3>1. Meant(k)' = Meant(k) \cup ToSet(FillsOf(x))
      BY <1>5, <1>6, <2>3, <2>4, <2>6 DEF Meant
    <3>2. Named(Meant(k))' = Named(Meant(k)) \cup Named(ToSet(FillsOf(x)))
      BY <3>1 DEF Named
    <3>3. Named(ToSet(FillsOf(x))) \subseteq Untold(x)
      BY <1>5 DEF Named, Tells
    <3>4. Untold(x) \subseteq Within(k)
      BY <1>3, <2>6 DEF Untold, Owed, Within
    <3> QED BY <1>6, <2>1, <2>2, <3>2, <3>3, <3>4
  <2> QED BY <2>5, <2>6
<1>9. Reads(tail.checker, file)'
  BY <1>2 DEF ReadKnown
<1>10. \A b \in ToSet(file') : b.kind = "sessionEnd" => DeclareInputs(b.extents)'
  BY <1>2, <1>7 DEF ReadKnown
<1>11. call'.op = "end" => DeclareInputs(call.extents)'
  BY <1>2, <1>6 DEF ReadKnown, DeclareInputs
<1>12. \A b \in ToSet(file') : b.kind = "record" /\ b.sid \notin lost' => b \in ToSet(accepted'[b.sid])
  BY <1>2 DEF ReadKnown
<1> QED BY <1>8, <1>9, <1>10, <1>11, <1>12 DEF ReadKnown

\* A block of a fill goes from the stage to the file, or is dropped with the close.
LEMMA ReadFillWritten ==
    ASSUME WriterInv, StageTyped, ReadKnown, WriteFill
    PROVE  ReadKnown'
<1>1. /\ stage.fills # << >> /\ Emit(Head(stage.fills))
      /\ UNCHANGED <<call, accepted, lost>>
      /\ IF Emits(Head(stage.fills))
         THEN stage' = [stage EXCEPT !.fills = Tail(@)]
         ELSE stage' = [stage EXCEPT !.step = "done"]
  BY DEF WriteFill, history
<1>2. PICK fills \in Seq(Fills), rest \in Seq(Fills), b \in Fills :
        fills = stage.fills /\ rest = Tail(fills) /\ b = Head(fills) /\ b = fills[1] /\ Len(fills) > 0
  <2>1. PICK fills \in Seq(Fills) : fills = stage.fills /\ fills # << >>
    BY <1>1 DEF StageTyped
  <2>2. Tail(fills) \in Seq(Fills) /\ Head(fills) \in Fills /\ Head(fills) = fills[1] /\ Len(fills) > 0
    BY <2>1
  <2> QED BY <2>1, <2>2
<1>3. b \in Blocks /\ b.kind = "undecoded" /\ b.source = 0 /\ HistoryKnown /\ Emit(b)
  BY <1>1, <1>2 DEF Fills, Blocks, WriterInv
<1>4. SameEnd /\ TakesMore
  BY <1>1 DEF SameEnd, TakesMore
<1>5. CASE ~ Emits(b)
  <2>1. UNCHANGED <<file, tail>>
    BY <1>3, <1>5 DEF Emit
  <2>2. SameMarks
    BY <1>1, <1>2, <1>5, SameMarksStep
  <2> QED BY <1>3, <1>4, <2>1, <2>2, ReadsStay
<1>6. CASE Emits(b)
  <2>1. stage' = [stage EXCEPT !.fills = rest]
    BY <1>1, <1>2, <1>6
  <2>2. stage'.inputs = stage.inputs /\ stage'.marked = stage.marked /\ stage'.fills = rest
    BY <2>1 DEF StageTyped
  <2>3. ToSet(file') = ToSet(file) \cup {b}
    BY <1>3, <1>6, BlockWritten
  <2>4. b \in ToSet(fills) /\ ToSet(rest) \subseteq ToSet(fills)
    <3>1. 1 \in DOMAIN fills
      BY <1>2
    <3>2. \A i \in DOMAIN rest : i + 1 \in DOMAIN fills /\ rest[i] = fills[i + 1]
      BY <1>2
    <3>3. b \in ToSet(fills)
      BY <1>2, <3>1 DEF ToSet
    <3>4. ToSet(rest) \subseteq ToSet(fills)
      BY <3>2 DEF ToSet
    <3> QED BY <3>3, <3>4
  <2>5. ASSUME NEW k \in Inputs
        PROVE  Named(Meant(k))' \subseteq Offsets(stage'.marked[k]) \cup Within(k)'
    <3>1. Meant(k)' \subseteq Meant(k)
      BY <1>2, <1>3, <2>2, <2>3, <2>4 DEF Meant, MarksInFile
    <3>2. Named(Meant(k))' \subseteq Named(Meant(k))
      BY <3>1 DEF Named
    <3>3. Within(k)' = Within(k)
      BY <2>2 DEF Within
    <3> QED BY <2>2, <3>2, <3>3 DEF ReadKnown
  <2>6. Reads(tail.checker, file)'
    BY <1>3, ReaderFollows DEF ReadKnown
  <2>7. \A extents : DeclareInputs(extents)' <=> DeclareInputs(extents)
    BY <2>2 DEF DeclareInputs
  <2>8. \A c \in ToSet(file') : c.kind = "sessionEnd" => DeclareInputs(c.extents)'
    BY <1>3, <2>3, <2>7 DEF ReadKnown
  <2>9. call'.op = "end" => DeclareInputs(call.extents)'
    BY <1>1, <2>2 DEF ReadKnown, DeclareInputs
  <2>10. \A c \in ToSet(file') : c.kind = "record" /\ c.sid \notin lost' => c \in ToSet(accepted'[c.sid])
    BY <1>1, <1>3, <2>3 DEF ReadKnown
  <2> QED BY <2>5, <2>6, <2>8, <2>9, <2>10 DEF ReadKnown
<1> QED BY <1>5, <1>6

\* end() of a session, whose extents the stage takes from its input.
LEMMA ReadEnds ==
    ASSUME WriterInv, ReadKnown, NEW s, NEW extents, DeclareInputs(extents), End(s, extents), UNCHANGED stage
    PROVE  ReadKnown'
<1>1. UNCHANGED <<file, tail, accepted, lost>> /\ call'.extents = extents
  BY DEF End, history
<1>2. Reads(tail.checker, file)'
  BY <1>1 DEF ReadKnown
<1>3. \A list : DeclareInputs(list)' <=> DeclareInputs(list)
  BY DEF DeclareInputs
<1>4. \A b \in ToSet(file') : b.kind = "sessionEnd" => DeclareInputs(b.extents)'
  BY <1>1, <1>3 DEF ReadKnown
<1>5. DeclareInputs(call.extents)'
  BY <1>1 DEF DeclareInputs
<1>6. \A b \in ToSet(file') : b.kind = "record" /\ b.sid \notin lost' => b \in ToSet(accepted'[b.sid])
  BY <1>1 DEF ReadKnown
<1>7. \A k \in Inputs : Named(Meant(k))' \subseteq Offsets(stage'.marked[k]) \cup Within(k)'
  BY <1>1 DEF ReadKnown, Meant, MarksInFile, Within
<1> QED BY <1>2, <1>4, <1>5, <1>6, <1>7 DEF ReadKnown

-------------------------------------------------------------------------------
(* What the reader makes of it *)

LEMMA GreatestOffset ==
    ASSUME NEW n \in Nat, NEW S \in SUBSET (0 .. n - 1), S # {}
    PROVE  Max(S) \in S /\ \A o \in S : o <= Max(S)
<1> DEFINE Back == { m \in Nat : \E o \in S : m = n - o }
<1>1. Back # {} /\ Back \subseteq Nat
  <2>1. PICK o \in S : TRUE
    OBVIOUS
  <2>2. n - o \in Nat
    BY <2>1
  <2> QED BY <2>2
<1>2. PICK m \in Back : \A k \in Back : m <= k
  BY <1>1, LeastNatural
<1>3. PICK last \in S : m = n - last
  BY <1>2
<1>4. \A o \in S : last >= o
  <2> TAKE o \in S
  <2>1. n - o \in Back
    OBVIOUS
  <2>2. m <= n - o
    BY <1>2, <2>1
  <2>3. last \in Int /\ o \in Int /\ m = n - last
    BY <1>3
  <2> HIDE DEF Back
  <2> QED BY <2>2, <2>3
<1>5. Max(S) \in S /\ \A o \in S : Max(S) >= o
  BY <1>4 DEF Max
<1>6. \A o \in S : o \in Nat
  OBVIOUS
<1> QED BY <1>5, <1>6

\* A ledger that covers its stream but for a FIN at its end, and declares its length.
LEMMA LedgerIsRight ==
    ASSUME NEW ledger \in LedgerType, NEW extent \in Nat, NEW fins \in SUBSET {extent - 1},
           ledger.spans \cup ledger.undecoded \subseteq 0 .. extent - 1,
           (0 .. extent - 1) \ fins \subseteq ledger.spans \cup ledger.undecoded,
           \A s \in Sids : ledger.declared[s] \in {extent, None}
    PROVE  ~ CoverageFault(ledger)
<1> DEFINE covered == ledger.spans \cup ledger.undecoded
           values == { ledger.declared[s] : s \in Sids } \ {None}
           reach == Reached(ledger)
<1>1. values \subseteq {extent}
  OBVIOUS
<1>2. ~ (Cardinality(values) > 1)
  <2>1. Cardinality({}) = 0 /\ Cardinality({extent}) = 1
    BY FS_EmptySet, FS_Singleton
  <2>2. values = {} \/ values = {extent}
    BY <1>1
  <2> HIDE DEF values
  <2>3. Cardinality(values) = 0 \/ Cardinality(values) = 1
    BY <2>1, <2>2
  <2> QED BY <2>3
<1>3. extent - 1 <= reach /\ reach <= extent /\ Span(0, reach) \subseteq covered
  <2>1. CASE covered = {}
    <3>1. reach = 0 /\ Span(0, 0) = {}
      BY <2>1 DEF Reached, Span
    <3>2. extent <= 1
      <4>1. ASSUME extent > 1 PROVE FALSE
        <5>1. 0 \in 0 .. extent - 1 /\ 0 \notin fins
          BY <4>1
        <5> QED BY <2>1, <5>1
      <4> QED BY <4>1
    <3> QED BY <3>1, <3>2
  <2>2. CASE covered # {}
    <3>1. Max(covered) \in covered /\ \A o \in covered : o <= Max(covered)
      BY <2>2, GreatestOffset
    <3>2. PICK last \in covered : reach = last + 1 /\ \A o \in covered : o <= last
      BY <2>2, <3>1 DEF Reached
    <3>3. last \in 0 .. extent - 1
      BY <3>2
    <3>4. \A o \in 0 .. extent - 2 : o \in covered
      <4> TAKE o \in 0 .. extent - 2
      <4>1. o \in 0 .. extent - 1 /\ o \notin fins
        OBVIOUS
      <4> QED BY <4>1
    <3>5. extent - 2 <= last
      <4>1. CASE extent >= 2
        <5>1. extent - 2 \in 0 .. extent - 2
          BY <4>1
        <5> QED BY <3>2, <3>4, <5>1
      <4>2. CASE extent < 2
        BY <3>3, <4>2
      <4> QED BY <4>1, <4>2
    <3>6. ASSUME NEW o \in Span(0, reach)
          PROVE  o \in covered
      <4>1. o \in 0 .. last
        BY <3>2, <3>3 DEF Span
      <4>2. CASE o = last
        BY <4>2
      <4>3. CASE o # last
        <5>1. o \in 0 .. extent - 2
          BY <3>3, <4>1, <4>3
        <5> QED BY <3>4, <5>1
      <4> QED BY <4>2, <4>3
    <3> HIDE DEF covered, reach
    <3>7. extent - 1 <= reach /\ reach <= extent
      BY <3>2, <3>3, <3>5
    <3> QED BY <3>6, <3>7
  <2> QED BY <2>1, <2>2
<1>4. \A v \in values : v = extent
  BY <1>1
<1>5. reach \in Int
  <2>1. CASE covered = {}
    BY <2>1 DEF Reached
  <2>2. CASE covered # {}
    <3>1. Max(covered) \in covered
      BY <2>2, GreatestOffset
    <3> QED BY <2>2, <3>1 DEF Reached
  <2> QED BY <2>1, <2>2
<1> HIDE DEF covered, values, reach
<1>6. ~ \E v \in values : v > reach + 1 \/ v < reach
  BY <1>3, <1>4, <1>5
<1> QED BY <1>2, <1>3, <1>6 DEF CoverageFault, covered, values, reach

\* A ledger of nothing.
LEMMA LedgerIsEmpty ==
    ASSUME NEW ledger \in LedgerType, ledger.spans = {}, ledger.undecoded = {},
           \A s \in Sids : ledger.declared[s] = None
    PROVE  ~ CoverageFault(ledger)
<1>1. Reached(ledger) = 0 /\ { ledger.declared[s] : s \in Sids } \ {None} = {}
  BY DEF Reached
<1>2. Cardinality({}) = 0
  BY FS_EmptySet
<1> QED BY <1>1, <1>2 DEF CoverageFault

\* A stage that closed, inside its input: its reader finds no fault.
LEMMA ReaderIsRight ==
    ASSUME StageInv, HistoryKnown, ReadKnown, StaysInside
    PROVE  ReaderAgrees
<1> SUFFICES ASSUME Filled, NEW k \in Keys
             PROVE  ~ CoverageFault(tail.checker.coverage[k])
  BY DEF ReaderAgrees
<1>1. /\ StageTyped /\ LedgerKnown
      /\ Reads(tail.checker, file)
      /\ \A b \in ToSet(file) : b.kind = "sessionEnd" => DeclareInputs(b.extents)
      /\ \A b \in ToSet(file) : b.kind = "record" => b \in ToSet(accepted[b.sid])
      /\ \A n \in Inputs : Named(Meant(n)) \subseteq Offsets(stage.marked[n]) \cup Within(n)
  BY StageIsTyped DEF StageInv, ReadKnown, Filled
<1>2. /\ \A b \in ToSet(file) : b.kind = "record" => b.sid \in Sids /\ \A span \in b.spans : span.source = 0
      /\ \A b \in ToSet(file) : b.kind = "undecoded" => b.source = 0 /\ b.start \in Nat /\ b.end \in Nat
  <2>1. \A b \in ToSet(file) : b.kind = "record" => b.sid \in Sids
    BY FileHolds, SentType
  <2>2. \A b \in ToSet(file) : b.kind = "undecoded" => b.source = 0 /\ b.start \in Nat /\ b.end \in Nat
    BY FileHolds, BlockKinds
  <2> QED BY <1>1, <2>1, <2>2 DEF StaysInside
<1>3. PICK src \in SourceIds, n \in Inputs : k = <<src, n>>
  BY DEF Keys
<1>4. PICK ledger \in LedgerType :
        /\ ledger = tail.checker.coverage[k]
        /\ ledger.spans = CitedOn(file, k) /\ ledger.undecoded = MarkedOn(file, k)
        /\ \A s \in Sids : ledger.declared[s] \in DeclaredOn(file, k) \cup {None}
  BY <1>1 DEF Reads
<1>5. \A v \in DeclaredOn(file, k) : src = 0 /\ \E x \in ToSet(stage.inputs) :
         InputOf(x.sid, x.pid) = n /\ v = x.extent
  <2> TAKE v \in DeclaredOn(file, k)
  <2>1. PICK b \in ToSet(file) : b.kind = "sessionEnd" /\ \E i \in DOMAIN b.extents :
          v = b.extents[i].extent /\ <<b.extents[i].source, b.extents[i].input>> = k
    BY DEF DeclaredOn
  <2>2. PICK i \in DOMAIN b.extents :
          v = b.extents[i].extent /\ <<b.extents[i].source, b.extents[i].input>> = k
    BY <2>1
  <2>3. PICK x \in ToSet(stage.inputs) : b.extents[i] = ExtentOf(x)
    BY <1>1, <2>1, <2>2 DEF DeclareInputs
  <2> QED BY <1>3, <2>2, <2>3 DEF ExtentOf
<1>6. CASE src # 0
  <2>1. CitedOn(file, k) = {}
    BY <1>2, <1>3, <1>6 DEF CitedOn
  <2>2. MarkedOn(file, k) = {}
    BY <1>2, <1>3, <1>6 DEF MarkedOn
  <2>3. DeclaredOn(file, k) = {}
    BY <1>5, <1>6
  <2> QED BY <1>4, <2>1, <2>2, <2>3, LedgerIsEmpty
<1>7. CASE src = 0
  <2>1. CitedOn(file, k) = CitedInFile(n)
    <3>1. \A b \in ToSet(file) : b.kind = "record" =>
            { x \in b.spans : <<x.source, x.input>> = k } = SpansOn(b, n)
      BY <1>3, <1>7 DEF SpansOn
    <3>2. { x \in ToSet(file) : x.kind = "record" } = { b \in ToSet(file) : b.kind = "record" }
      OBVIOUS
    <3> QED BY <3>1 DEF CitedOn, CitedInFile, CitesOf
  <2>2. MarkedOn(file, k) = MarkedInFile(n)
    <3>1. { x \in ToSet(file) : x.kind = "undecoded" /\ <<x.source, x.input>> = k } = MarksInFile(n)
      BY <1>3, <1>7 DEF MarksInFile
    <3> QED BY <3>1 DEF MarkedOn, MarkedInFile
  <2>3. CitedOn(file, k) \subseteq Offsets(stage.cited[n])
    <3>1. ASSUME NEW o \in CitedInFile(n) PROVE o \in Offsets(stage.cited[n])
      <4>1. PICK b \in ToSet(file) : b.kind = "record" /\ o \in CitedOffsets(SpansOn(b, n))
        BY <3>1 DEF CitedInFile, CitesOf, CitedOffsets
      <4>2. b.sid \in Sids /\ b \in ToSet(accepted[b.sid])
        BY <1>1, <1>2, <4>1
      <4>3. Offsets(stage.cited[n]) =
              UNION { CitedOffsets(SpansOn(c, n)) : c \in UNION { ToSet(accepted[s]) : s \in Sids } }
        BY <1>1 DEF LedgerKnown
      <4> QED BY <4>1, <4>2, <4>3
    <3> QED BY <2>1, <3>1
  <2>4. Offsets(stage.cited[n]) \cup Offsets(stage.marked[n]) \subseteq Within(n)
    <3> SUFFICES ASSUME NEW o \in Offsets(stage.cited[n]) \cup Offsets(stage.marked[n])
                 PROVE  o \in Within(n)
      OBVIOUS
    <3>1. PICK x \in ToSet(stage.inputs) : InputOf(x.sid, x.pid) = n /\ o < x.extent
      BY DEF StaysInside
    <3>2. o \in Nat
      <4>1. stage.cited[n] \in Seq(Ranges) /\ stage.marked[n] \in Seq(Ranges)
        BY <1>1 DEF StageTyped, Lists
      <4> QED BY <4>1, OffsetInRange
    <3>3. x.extent \in Nat
      BY <1>1, <3>1, InputsFit DEF StageTyped, InputStream
    <3> QED BY <3>1, <3>2, <3>3 DEF Within
  <2>5. MarkedOn(file, k) \subseteq Within(n)
    <3>1. MarkedInFile(n) \subseteq Named(Meant(n))
      BY DEF MarkedInFile, Named, Meant
    <3> QED BY <1>1, <2>2, <2>4, <3>1
  <2>6. CASE \E x \in ToSet(stage.inputs) : InputOf(x.sid, x.pid) = n
    <3>1. PICK x \in ToSet(stage.inputs) : InputOf(x.sid, x.pid) = n
      BY <2>6
    <3>2. \A y \in ToSet(stage.inputs) : InputOf(y.sid, y.pid) = n => y = x
      BY <1>1, <3>1, InputsFit DEF StageTyped
    <3>3. x.extent \in Nat
      BY <1>1, InputsFit DEF StageTyped, InputStream
    <3>4. Within(n) = 0 .. x.extent - 1
      BY <3>1, <3>2 DEF Within
    <3>5. ToSet(x.fins) \in SUBSET {x.extent - 1}
      BY DEF StaysInside
    <3>6. (0 .. x.extent - 1) \ ToSet(x.fins) \subseteq ledger.spans \cup ledger.undecoded
      <4>1. Owed(x) \subseteq CitedInFile(n) \cup MarkedInFile(n)
        BY <3>1 DEF StageInv, ClosedStageCovers
      <4> QED BY <1>4, <2>1, <2>2, <4>1 DEF Owed
    <3>7. ledger.spans \cup ledger.undecoded \subseteq 0 .. x.extent - 1
      BY <1>4, <2>3, <2>4, <2>5, <3>4
    <3>8. \A s \in Sids : ledger.declared[s] \in {x.extent, None}
      BY <1>4, <1>5, <3>2
    <3>9. ~ CoverageFault(ledger)
      BY <3>3, <3>5, <3>6, <3>7, <3>8, LedgerIsRight
    <3> QED BY <1>4, <3>9
  <2>7. CASE ~ \E x \in ToSet(stage.inputs) : InputOf(x.sid, x.pid) = n
    <3>1. Within(n) = {} /\ DeclaredOn(file, k) = {}
      BY <1>5, <2>7 DEF Within
    <3>2. ledger.spans = {} /\ ledger.undecoded = {} /\ \A s \in Sids : ledger.declared[s] = None
      BY <1>4, <2>3, <2>4, <2>5, <3>1
    <3> QED BY <1>4, <3>2, LedgerIsEmpty
  <2> QED BY <2>6, <2>7
<1> QED BY <1>6, <1>7

\* What a stage opens its output with, its reader reads.
LEMMA OpenedReads ==
    ASSUME NEW opening \in Seq(Openers), \E i \in DOMAIN opening : opening[i].kind = "source",
           NEW modes, InitAfter(opening, modes), NEW inputs \in InputFiles, NEW fill \in BOOLEAN,
           stage = Opened(inputs, fill)
    PROVE  ReadKnown
<1>1. /\ file = opening /\ tail.checker = FoldLeft(Absorbed, NewChecker, opening) /\ call = Idle
  BY DEF InitAfter
<1>2. Reads(tail.checker, file)
  BY <1>1, OpeningReads
<1>3. \A b \in ToSet(file) : b.kind \notin {"record", "undecoded", "sessionEnd"}
  <2>1. \A b \in Openers : b.kind \notin {"record", "undecoded", "sessionEnd"}
    BY WriterAssumption DEF Openers
  <2>2. \A b \in ToSet(opening) : b \in Openers
    BY DEF ToSet
  <2> QED BY <1>1, <2>1, <2>2
<1>4. \A k \in Inputs : Named(Meant(k)) = {}
  <2>1. ToSet(stage.fills) = {}
    BY DEF Opened, ToSet
  <2> QED BY <1>3, <2>1 DEF Meant, MarksInFile, Named
<1>5. call.op # "end"
  BY <1>1 DEF Idle
<1> QED BY <1>2, <1>3, <1>4, <1>5 DEF ReadKnown

\* The rest of close().
LEMMA ReadCloses ==
    ASSUME WriterInv, StageTyped, ReadKnown,
           \/ CloseStage
           \/ Autofill
           \/ Close /\ UNCHANGED stage
           \/ Abandon /\ \E step : stage' = [stage EXCEPT !.step = step]
           \/ Unwind /\ \E step : stage' = [stage EXCEPT !.step = step]
           \/ UNCHANGED <<vars, stage>>
    PROVE  ReadKnown'
<1>1. CASE CloseStage
  <2>1. UNCHANGED <<file, tail, accepted, lost, call>>
    BY <1>1 DEF CloseStage, vars, history
  <2>2. SameMarks
    BY <1>1 DEF CloseStage, StageTyped, SameMarks
  <2> QED BY <2>1, <2>2, ReadQuiet DEF SameEnd
<1>2. ASSUME Abandon, NEW step, stage' = [stage EXCEPT !.step = step]
      PROVE  ReadKnown'
  <2>1. UNCHANGED <<file, tail, accepted, lost, call>>
    BY <1>2 DEF Abandon, history
  <2> QED BY <1>2, <2>1, SameMarksStep, ReadQuiet DEF SameEnd
<1>3. ASSUME Unwind, NEW step, stage' = [stage EXCEPT !.step = step]
      PROVE  ReadKnown'
  <2>1. UNCHANGED <<file, tail, accepted>> /\ lost \subseteq lost' /\ call' = Idle
    BY <1>3 DEF Unwind
  <2> QED BY <1>3, <2>1, SameMarksStep, ReadQuiet DEF SameEnd, Idle
<1>4. CASE Close /\ UNCHANGED stage
  <2>1. UNCHANGED <<file, tail, accepted, lost>> /\ call'.op = "close"
    BY <1>4 DEF Close, history
  <2> QED BY <1>4, <2>1, ReadQuiet DEF SameMarks, SameEnd
<1>5. CASE UNCHANGED <<vars, stage>>
  <2>1. UNCHANGED <<file, tail, accepted, lost, call>>
    BY <1>5 DEF vars, history
  <2> QED BY <1>5, <2>1, ReadQuiet DEF SameMarks, SameEnd
<1>6. CASE Autofill
  <2>1. CASE FillStream
    BY <2>1, ReadFills
  <2>2. CASE WriteFill
    BY <2>2, ReadFillWritten
  <2>3. CASE FillClashes
    BY <1>2, <2>3 DEF FillClashes
  <2>4. CASE FillDone
    <3>1. UNCHANGED <<file, tail, accepted, lost, call>>
      BY <2>4 DEF FillDone, vars, history
    <3>2. SameMarks
      BY <2>4 DEF FillDone, StageTyped, SameMarks
    <3> QED BY <3>1, <3>2, ReadQuiet DEF SameEnd
  <2> QED BY <1>6, <2>1, <2>2, <2>3, <2>4 DEF Autofill
<1> QED BY <1>1, <1>2, <1>3, <1>4, <1>5, <1>6

===============================================================================
