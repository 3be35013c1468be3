---------------------------- MODULE ContainerProofs ----------------------------
(***************************************************************************)
(* The locators of a binary file hold for every file, any sizes of blocks, *)
(* wherever it is cut and however it grows; and what a flat reader yields  *)
(* of a file of either face, and reports of it, is what the file holds.    *)
(***************************************************************************)
EXTENDS Container, TLAPS

\* Blocks stand behind one another, and one begins wherever another ends.
Boundary(n) == n = total \/ \E i \in DOMAIN medium : starts[i] = n

Contiguous ==
    /\ \A i \in DOMAIN medium : EndOf(i) <= total /\ Boundary(EndOf(i))
    /\ \A i, j \in DOMAIN medium : i < j => EndOf(i) <= starts[j]
    /\ \A n \in Nat : n < total => \E i \in DOMAIN medium : starts[i] <= n /\ n < EndOf(i)
    /\ Boundary(0)

\* The flat reader is where a block begins, and FileReader has counted as far.
ReaderPlaced ==
    /\ reader.offset <= grown
    /\ reader.step = "content" => face = "binary" /\ reader.offset < grown
    /\ face = "binary" =>
          /\ Boundary(reader.offset)
          /\ reader.step # "raised" => reader.position = reader.offset

\* Each entry is where its block is.
IndexPlaced ==
    face = "binary" =>
        \A n \in DOMAIN index :
            /\ index[n].block \in DOMAIN medium
            /\ index[n].at = starts[index[n].block]
            /\ EndOf(index[n].block) <= grown

PlacesInv == TypeOK /\ Contiguous /\ ReaderPlaced /\ IndexPlaced

-------------------------------------------------------------------------------

\* A block that was handed over has a place and an end behind it.
LEMMA BlockHasPlace ==
    ASSUME TypeOK, NEW j \in DOMAIN medium
    PROVE  /\ j \in Nat /\ j \in DOMAIN starts /\ starts[j] \in Nat
           /\ medium[j].size \in Nat
           /\ EndOf(j) \in Nat /\ starts[j] < EndOf(j)
<1>1. medium[j] \in BlockType
  BY DEF TypeOK
<1>2. medium[j].size \in Nat \ {0}
  BY <1>1 DEF BlockType
<1>3. j \in Nat /\ j \in DOMAIN starts /\ starts[j] \in Nat
  BY DEF TypeOK
<1> QED BY <1>2, <1>3 DEF EndOf

\* Two blocks do not begin at one place.
LEMMA PlacesDiffer ==
    ASSUME TypeOK, Contiguous, NEW i \in DOMAIN medium, NEW j \in DOMAIN medium,
           starts[i] <= starts[j], starts[j] < EndOf(i)
    PROVE  i = j
<1>1. /\ i \in Nat /\ starts[i] \in Nat /\ starts[i] < EndOf(i) /\ EndOf(i) \in Nat
      /\ j \in Nat /\ starts[j] \in Nat /\ starts[j] < EndOf(j) /\ EndOf(j) \in Nat
  BY BlockHasPlace
<1>2. ~ (i < j)
  BY <1>1 DEF Contiguous
<1>3. ~ (j < i)
  BY <1>1 DEF Contiguous
<1> QED BY <1>1, <1>2, <1>3

\* Each part of the stream is in the block BlockAt names.
LEMMA BlockAtPart ==
    ASSUME TypeOK, Contiguous, NEW n \in Nat, n < total
    PROVE  /\ BlockAt(n) \in DOMAIN medium
           /\ starts[BlockAt(n)] <= n /\ n < EndOf(BlockAt(n))
<1>1. \E i \in DOMAIN medium : starts[i] <= n /\ n < EndOf(i)
  BY DEF Contiguous
<1> QED BY <1>1 DEF BlockAt

\* Where a block begins, short of the end, BlockAt names that one.
LEMMA BlockAtBoundary ==
    ASSUME TypeOK, Contiguous, NEW n \in Nat, Boundary(n), n < total
    PROVE  BlockAt(n) \in DOMAIN medium /\ starts[BlockAt(n)] = n
<1>1. PICK i \in DOMAIN medium : starts[i] = n
  BY DEF Boundary
<1>2. /\ BlockAt(n) \in DOMAIN medium
      /\ starts[BlockAt(n)] <= starts[i] /\ starts[i] < EndOf(BlockAt(n))
  BY <1>1, BlockAtPart
<1> QED BY <1>1, <1>2, PlacesDiffer

\* A locator that is a block's place finds that block alone.
LEMMA PlacedLocatorsHold ==
    ASSUME PlacesInv
    PROVE  LocatorsHold
<1> SUFFICES ASSUME face = "binary", NEW n \in DOMAIN index
             PROVE  Resolved(index[n].at) = {index[n].block}
  BY DEF LocatorsHold
<1> DEFINE b == index[n].block
<1>1. b \in DOMAIN medium /\ index[n].at = starts[b] /\ EndOf(b) <= grown
  BY DEF PlacesInv, IndexPlaced
<1>2. ASSUME NEW j \in DOMAIN medium, starts[j] = starts[b]
      PROVE  j = b
  <2>1. starts[j] <= starts[b] /\ starts[b] < EndOf(j)
    BY <1>2, BlockHasPlace DEF PlacesInv
  <2> QED BY <1>1, <2>1, PlacesDiffer DEF PlacesInv
<1> QED BY <1>1, <1>2 DEF Resolved

-------------------------------------------------------------------------------

\* The initial state.
LEMMA PlacesInit == Init => PlacesInv
<1> SUFFICES ASSUME Init PROVE PlacesInv
  OBVIOUS
<1>a. PICK strict \in BOOLEAN : reader = NewReader(strict)
  BY DEF Init
<1>1. reader \in ReaderType /\ reader.offset = 0 /\ reader.position = 0 /\ reader.step = "new"
  BY <1>a DEF NewReader, ReaderType
<1>2. TypeOK
  BY <1>1, BlocksAssumption DEF Init, TypeOK
<1>3. Contiguous
  BY DEF Init, Contiguous, Boundary
<1>4. ReaderPlaced /\ IndexPlaced
  BY <1>1 DEF Init, ReaderPlaced, IndexPlaced, Boundary
<1> QED BY <1>2, <1>3, <1>4 DEF PlacesInv

\* What becomes of a reader that raises, stops or notes a finding.
LEMMA ReaderEnds ==
    ASSUME NEW r \in ReaderType, NEW category \in {"invalid", "truncated", "trailing"},
           NEW error \in {"structural", "semantic", "truncated", "decoding"}
    PROVE  /\ Raised(r, error) = [r EXCEPT !.step = "raised", !.error = error]
           /\ Raised(r, error) \in ReaderType
           /\ Stopped(r) \in ReaderType
           /\ Noted(r, category, error) \in ReaderType
           /\ Noted(r, category, error).offset = r.offset
           /\ Noted(r, category, error).position = r.position
           /\ Noted(r, category, error).step \in {r.step, "raised"}
  BY DEF Raised, Stopped, Noted, ReaderType

\* A reader that is truncated, or at the end of a whole file, goes no further.
LEMMA ReaderLeaves ==
    ASSUME NEW r \in ReaderType
    PROVE  \A left \in {TruncatedAt(r), Trailing(r), Stopped(r)} :
           /\ left \in ReaderType
           /\ left.offset = r.offset /\ left.position = r.position
           /\ left.step \in {"stopped", "raised"}
<1>1. /\ Stopped(r) \in ReaderType /\ Stopped(r).step = "stopped"
      /\ Stopped(r).offset = r.offset /\ Stopped(r).position = r.position
  BY DEF Stopped, ReaderType
<1>2. /\ Stopped([r EXCEPT !.truncated = TRUE]) \in ReaderType
      /\ Stopped([r EXCEPT !.truncated = TRUE]).step = "stopped"
      /\ Stopped([r EXCEPT !.truncated = TRUE]).offset = r.offset
      /\ Stopped([r EXCEPT !.truncated = TRUE]).position = r.position
  BY DEF Stopped, ReaderType
<1>3. ASSUME NEW c \in ReaderType, c.step = "stopped",
             c.offset = r.offset, c.position = r.position,
             NEW category \in {"invalid", "truncated", "trailing"},
             NEW error \in {"semantic", "truncated"}
      PROVE  /\ Noted(c, category, error) \in ReaderType
             /\ Noted(c, category, error).offset = r.offset
             /\ Noted(c, category, error).position = r.position
             /\ Noted(c, category, error).step \in {"stopped", "raised"}
  BY <1>3 DEF Noted, Raised, ReaderType
<1>4. /\ TruncatedAt(r) \in ReaderType /\ TruncatedAt(r).step \in {"stopped", "raised"}
      /\ TruncatedAt(r).offset = r.offset /\ TruncatedAt(r).position = r.position
  BY <1>2, <1>3 DEF TruncatedAt
<1>5. /\ Trailing(r) \in ReaderType /\ Trailing(r).step \in {"stopped", "raised"}
      /\ Trailing(r).offset = r.offset /\ Trailing(r).position = r.position
  BY <1>1, <1>3 DEF Trailing
<1> QED BY <1>1, <1>4, <1>5

\* A step of the reader alone that leaves it where it was.
LEMMA ReaderStays ==
    ASSUME PlacesInv, UNCHANGED <<handed, grown, index>>, reader' \in ReaderType,
           reader'.offset = reader.offset,
           reader'.step = "content" => face = "binary" /\ reader.offset < grown,
           face = "binary" =>
              /\ reader.step # "raised"
              /\ reader'.step # "raised" => reader'.position = reader.position
    PROVE  PlacesInv'
<1>1. TypeOK'
  BY DEF PlacesInv, TypeOK, handed
<1>2. Contiguous'
  BY DEF PlacesInv, Contiguous, Boundary, EndOf, handed
<1>3. ReaderPlaced'
  BY DEF PlacesInv, ReaderPlaced, Boundary, handed
<1>4. IndexPlaced'
  BY DEF PlacesInv, IndexPlaced, EndOf, handed
<1> QED BY <1>1, <1>2, <1>3, <1>4 DEF PlacesInv

\* A step of a reader of lines.
LEMMA LinesStay ==
    ASSUME PlacesInv, face = "jsonl", UNCHANGED <<handed, grown>>,
           reader' \in ReaderType, reader'.step # "content", reader'.offset <= grown,
           index' \in Seq([block : Nat, isolated : BOOLEAN, at : Nat])
    PROVE  PlacesInv'
<1>1. TypeOK'
  BY DEF PlacesInv, TypeOK, handed
<1>2. Contiguous'
  BY DEF PlacesInv, Contiguous, Boundary, EndOf, handed
<1>3. ReaderPlaced' /\ IndexPlaced'
  BY DEF ReaderPlaced, IndexPlaced, handed
<1> QED BY <1>1, <1>2, <1>3 DEF PlacesInv

\* A step of the producer that hands over nothing.
LEMMA ProducerStays ==
    ASSUME PlacesInv, UNCHANGED <<face, medium, starts, total, reader, index>>,
           grown' \in grown .. total,
           producer' \in [library : BOOLEAN, step : {"open", "closed", "crashed"}]
    PROVE  PlacesInv'
<1>1. TypeOK /\ grown \in Nat /\ total \in Nat /\ grown' \in 0 .. total /\ grown <= grown'
  BY DEF PlacesInv, TypeOK
<1>2. TypeOK'
  BY <1>1 DEF TypeOK
<1>3. Contiguous'
  BY DEF PlacesInv, Contiguous, Boundary, EndOf
<1>4. ReaderPlaced'
  <2>1. reader.offset \in Nat
    BY <1>1 DEF TypeOK, ReaderType
  <2> QED BY <1>1, <2>1 DEF PlacesInv, ReaderPlaced, Boundary
<1>5. IndexPlaced'
  <2> SUFFICES ASSUME face = "binary", NEW n \in DOMAIN index
               PROVE  /\ index[n].block \in DOMAIN medium
                      /\ index[n].at = starts[index[n].block]
                      /\ EndOf(index[n].block) <= grown'
    BY DEF IndexPlaced, EndOf
  <2>1. /\ index[n].block \in DOMAIN medium
        /\ index[n].at = starts[index[n].block]
        /\ EndOf(index[n].block) <= grown
    BY DEF PlacesInv, IndexPlaced
  <2>2. EndOf(index[n].block) \in Nat
    BY <1>1, <2>1, BlockHasPlace
  <2> QED BY <1>1, <2>1, <2>2
<1> QED BY <1>2, <1>3, <1>4, <1>5 DEF PlacesInv

\* A block that is handed over begins where the one before it ends.
LEMMA PlacesWrite ==
    ASSUME PlacesInv, NEW block \in BlockType, Write(block)
    PROVE  PlacesInv'
<1>0. PICK last \in Nat : last = Len(medium) + 1
  BY DEF PlacesInv, TypeOK
<1>1. /\ TypeOK /\ Contiguous /\ ReaderPlaced /\ IndexPlaced
      /\ total \in Nat /\ grown \in 0 .. total /\ Len(medium) \in Nat
      /\ block.size \in Nat /\ block.size > 0
  BY DEF PlacesInv, TypeOK, BlockType
<1>2. /\ medium' \in Seq(BlockType) /\ starts' \in Seq(Nat) /\ Len(starts') = Len(medium')
      /\ DOMAIN medium = 1 .. Len(medium) /\ DOMAIN medium' = 1 .. last
      /\ medium'[last] = block /\ starts'[last] = total
      /\ \A i \in DOMAIN medium : medium'[i] = medium[i] /\ starts'[i] = starts[i]
  BY <1>0, <1>1 DEF TypeOK, Write
<1>3. /\ total' = total + block.size /\ total' \in Nat /\ grown \in 0 .. total'
      /\ UNCHANGED <<face, grown, producer, reader, index>>
  BY <1>1 DEF Write
<1>4. TypeOK'
  BY <1>1, <1>2, <1>3 DEF TypeOK
<1>5. last \in DOMAIN medium' /\ DOMAIN medium' = DOMAIN medium \cup {last} /\ last \notin DOMAIN medium
  BY <1>0, <1>1, <1>2
<1> DEFINE End(i) == starts'[i] + medium'[i].size
<1>6. End(last) = total' /\ \A i \in DOMAIN medium : End(i) = EndOf(i) /\ End(i) \in Nat /\ End(i) <= total
  BY <1>1, <1>2, <1>3, BlockHasPlace DEF EndOf, Contiguous
<1>7. \A n : Boundary(n) => n = total' \/ \E i \in DOMAIN medium' : starts'[i] = n
  BY <1>2, <1>5 DEF Boundary
<1>8. Contiguous'
  <2> HIDE DEF End
  <2>1. \A i \in DOMAIN medium' : End(i) <= total' /\ (End(i) = total' \/ \E k \in DOMAIN medium' : starts'[k] = End(i))
    <3> SUFFICES ASSUME NEW i \in DOMAIN medium'
                 PROVE  End(i) <= total' /\ (End(i) = total' \/ \E k \in DOMAIN medium' : starts'[k] = End(i))
      OBVIOUS
    <3>1. CASE i = last
      BY <3>1, <1>3, <1>6
    <3>2. CASE i \in DOMAIN medium
      <4>1. Boundary(End(i))
        BY <3>2, <1>1, <1>6 DEF Contiguous
      <4> QED BY <3>2, <4>1, <1>1, <1>3, <1>6, <1>7
    <3> QED BY <1>5, <3>1, <3>2
  <2>2. \A i, j \in DOMAIN medium' : i < j => End(i) <= starts'[j]
    <3> SUFFICES ASSUME NEW i \in DOMAIN medium', NEW j \in DOMAIN medium', i < j
                 PROVE  End(i) <= starts'[j]
      OBVIOUS
    <3>1. i \in DOMAIN medium
      BY <1>0, <1>1, <1>2
    <3>2. CASE j = last
      BY <3>1, <3>2, <1>2, <1>6
    <3>3. CASE j \in DOMAIN medium
      BY <3>1, <3>3, <1>1, <1>2, <1>6 DEF Contiguous
    <3> QED BY <1>5, <3>2, <3>3
  <2>3. \A n \in Nat : n < total' => \E i \in DOMAIN medium' : starts'[i] <= n /\ n < End(i)
    <3> SUFFICES ASSUME NEW n \in Nat, n < total'
                 PROVE  \E i \in DOMAIN medium' : starts'[i] <= n /\ n < End(i)
      OBVIOUS
    <3>1. CASE n < total
      <4>1. PICK i \in DOMAIN medium : starts[i] <= n /\ n < EndOf(i)
        BY <3>1, <1>1 DEF Contiguous
      <4> QED BY <4>1, <1>2, <1>5, <1>6
    <3>2. CASE ~ (n < total)
      <4>1. starts'[last] <= n /\ n < End(last)
        BY <3>2, <1>1, <1>2, <1>6
      <4> QED BY <4>1, <1>5
    <3> QED BY <3>1, <3>2
  <2>4. 0 = total' \/ \E i \in DOMAIN medium' : starts'[i] = 0
    BY <1>1, <1>7 DEF Contiguous
  <2> QED BY <2>1, <2>2, <2>3, <2>4 DEF Contiguous, Boundary, EndOf, End
<1>9. ReaderPlaced'
  <2>1. face = "binary" => (reader.offset = total' \/ \E i \in DOMAIN medium' : starts'[i] = reader.offset)
    BY <1>1, <1>7 DEF ReaderPlaced
  <2> QED BY <2>1, <1>1, <1>3 DEF ReaderPlaced, Boundary
<1>10. IndexPlaced'
  BY <1>1, <1>2, <1>3, <1>5, <1>6 DEF IndexPlaced, EndOf
<1> QED BY <1>4, <1>8, <1>9, <1>10 DEF PlacesInv

-------------------------------------------------------------------------------

\* What the reader's state is, where it is needed.
LEMMA ReaderTyped ==
    ASSUME PlacesInv
    PROVE  /\ reader \in ReaderType /\ reader.offset \in Nat /\ reader.position \in Nat
           /\ grown \in Nat /\ total \in Nat /\ grown <= total
  BY DEF PlacesInv, TypeOK, ReaderType

\* Opening a file, and the steps that read no content.
LEMMA PlacesOpen == PlacesInv /\ Open => PlacesInv'
<1> SUFFICES ASSUME PlacesInv, Open PROVE PlacesInv'
  OBVIOUS
<1>1. reader \in ReaderType /\ grown \in Nat /\ reader.step = "new"
  BY ReaderTyped DEF Open
<1>2. \/ reader' = [reader EXCEPT !.step = "next", !.opened = grown]
      \/ reader' = Raised(reader, "structural")
  BY DEF Open
<1>3. /\ reader' \in ReaderType /\ reader'.offset = reader.offset
      /\ reader'.position = reader.position /\ reader'.step \in {"next", "raised"}
  BY <1>1, <1>2 DEF Raised, ReaderType
<1> QED BY <1>1, <1>3, ReaderStays DEF Open

LEMMA PlacesFrame == PlacesInv /\ ReadFrame => PlacesInv'
<1> SUFFICES ASSUME PlacesInv, ReadFrame PROVE PlacesInv'
  OBVIOUS
<1>1. /\ reader \in ReaderType /\ reader.offset \in Nat /\ grown \in Nat
      /\ face = "binary" /\ reader.step = "next" /\ reader.offset <= grown
      /\ FrameSize \in Nat \ {0}
  BY ReaderTyped, SizesAssumption DEF PlacesInv, ReaderPlaced, ReadFrame, Ready
<1>2. \/ reader' = Raised(reader, "structural")
      \/ reader' \in {Stopped(reader), TruncatedAt(reader), Trailing(reader)}
      \/ reader' = [reader EXCEPT !.step = "content"] /\ grown - reader.offset >= FrameSize
  <2> DEFINE here == grown - reader.offset
  <2>1. here \in Nat
    BY <1>1
  <2>2. CASE here = 0
    BY <2>2, <1>1 DEF ReadFrame
  <2>3. CASE here > 0 /\ here < FrameSize
    BY <2>3, <1>1 DEF ReadFrame
  <2>4. CASE here > 0 /\ here >= FrameSize
    BY <2>4, <1>1 DEF ReadFrame
  <2> QED BY <1>1, <2>1, <2>2, <2>3, <2>4
<1>3. /\ reader' \in ReaderType /\ reader'.offset = reader.offset
      /\ reader'.position = reader.position
      /\ reader'.step = "content" => reader.offset < grown
  <2>1. CASE reader' = Raised(reader, "structural")
    BY <2>1, <1>1 DEF Raised, ReaderType
  <2>2. CASE reader' \in {Stopped(reader), TruncatedAt(reader), Trailing(reader)}
    BY <2>2, <1>1, ReaderLeaves
  <2>3. CASE reader' = [reader EXCEPT !.step = "content"] /\ grown - reader.offset >= FrameSize
    BY <2>3, <1>1 DEF ReaderType
  <2> QED BY <1>2, <2>1, <2>2, <2>3
<1> QED BY <1>1, <1>3, ReaderStays DEF ReadFrame

LEMMA PlacesBehindEnd == PlacesInv /\ ReadBehindEnd => PlacesInv'
<1> SUFFICES ASSUME PlacesInv, ReadBehindEnd PROVE PlacesInv'
  OBVIOUS
<1>1. reader \in ReaderType /\ reader.step = "next"
  BY ReaderTyped DEF ReadBehindEnd
<1>2. reader' \in {TruncatedAt(reader), Trailing(reader), Stopped(reader)}
  BY DEF ReadBehindEnd
<1>3. /\ reader' \in ReaderType /\ reader'.offset = reader.offset
      /\ reader'.position = reader.position /\ reader'.step \in {"stopped", "raised"}
  BY <1>1, <1>2, ReaderLeaves
<1> QED BY <1>1, <1>3, ReaderStays DEF ReadBehindEnd

\* Content that is read whole ends where the next block begins, and its entry is where
\* the reader was.
LEMMA PlacesContent == PlacesInv /\ ReadContent => PlacesInv'
<1> SUFFICES ASSUME PlacesInv, ReadContent PROVE PlacesInv'
  OBVIOUS
<1>1. /\ reader \in ReaderType /\ reader.offset \in Nat /\ grown \in Nat /\ total \in Nat
      /\ face = "binary" /\ reader.step = "content" /\ reader.offset < grown /\ grown <= total
      /\ Boundary(reader.offset) /\ reader.position = reader.offset
      /\ UNCHANGED <<handed, grown>>
  BY ReaderTyped DEF PlacesInv, ReaderPlaced, ReadContent
<1>2. PICK i : i = BlockAt(reader.offset)
  OBVIOUS
<1>3. i \in DOMAIN medium /\ starts[i] = reader.offset
  BY <1>1, <1>2, BlockAtBoundary DEF PlacesInv
<1>4. /\ i \in Nat /\ EndOf(i) \in Nat /\ medium[i].size \in Nat
      /\ EndOf(i) = reader.offset + medium[i].size /\ Boundary(EndOf(i))
  BY <1>3, BlockHasPlace DEF PlacesInv, Contiguous, EndOf
<1>5. PICK isolated \in BOOLEAN : isolated = (medium[i].form = "invalid")
  OBVIOUS
<1>6. PICK read \in ReaderType : read = [reader EXCEPT !.step = "next", !.offset = EndOf(i)]
  BY <1>1, <1>4 DEF ReaderType
<1>7. read.offset = EndOf(i) /\ read.position = reader.position /\ read.step = "next"
  BY <1>1, <1>6 DEF ReaderType
<1>8. PICK noted \in ReaderType :
         /\ noted = (IF isolated THEN Noted(read, "invalid", "semantic") ELSE read)
         /\ noted.offset = EndOf(i) /\ noted.position = reader.position
         /\ noted.step \in {"next", "raised"}
  <2>1. CASE isolated
    <3>1. /\ Noted(read, "invalid", "semantic") \in ReaderType
          /\ Noted(read, "invalid", "semantic").offset = read.offset
          /\ Noted(read, "invalid", "semantic").position = read.position
          /\ Noted(read, "invalid", "semantic").step \in {read.step, "raised"}
      BY ReaderEnds
    <3> QED BY <2>1, <3>1, <1>7
  <2>2. CASE ~ isolated
    BY <2>2, <1>7
  <2> QED BY <2>1, <2>2
<1>9. CASE ContentIsShort(i)
  <2>1. reader' = TruncatedAt(reader) /\ UNCHANGED index
    BY <1>2, <1>9 DEF ReadContent
  <2>2. /\ reader' \in ReaderType /\ reader'.offset = reader.offset
        /\ reader'.position = reader.position /\ reader'.step \in {"stopped", "raised"}
    BY <2>1, <1>1, ReaderLeaves
  <2> QED BY <1>1, <2>1, <2>2, ReaderStays
<1>10. CASE ~ ContentIsShort(i)
  <2>0. EndOf(i) <= grown
    BY <1>1, <1>4, <1>10 DEF ContentIsShort
  <2>1. \/ reader' = Raised(read, "structural") /\ index' = index
        \/ reader' = noted /\ noted.step = "raised" /\ index' = index
        \/ /\ reader' = Yielded(noted, i, isolated) /\ noted.step = "next"
           /\ index' = Append(index, Entry(i, isolated))
    <3>1. CASE Unreadable(i)
      BY <3>1, <1>2, <1>6, <1>10 DEF ReadContent
    <3>2. CASE ~ Unreadable(i) /\ noted.step = "raised"
      BY <3>2, <1>2, <1>5, <1>6, <1>8, <1>10 DEF ReadContent
    <3>3. CASE ~ Unreadable(i) /\ noted.step # "raised"
      BY <3>3, <1>2, <1>5, <1>6, <1>8, <1>10 DEF ReadContent
    <3> QED BY <3>1, <3>2, <3>3
  <2>2. /\ reader' \in ReaderType /\ reader'.offset = EndOf(i) /\ reader'.step \in {"next", "raised"}
        /\ reader'.step # "raised" => reader'.position = EndOf(i)
    <3>1. CASE reader' = Raised(read, "structural")
      BY <3>1, <1>7 DEF Raised, ReaderType
    <3>2. CASE reader' = noted /\ noted.step = "raised"
      BY <3>2, <1>8
    <3>3. CASE reader' = Yielded(noted, i, isolated) /\ noted.step = "next"
      <4>1. PICK position \in Nat : position = noted.position + medium[i].size
        BY <1>1, <1>4, <1>8
      <4>2. PICK header \in BOOLEAN : header = (noted.header \/ medium[i].kind = "header")
        OBVIOUS
      <4>3. PICK complete \in BOOLEAN :
               complete = (noted.complete \/ (medium[i].kind = "end" /\ ~ isolated))
        OBVIOUS
      <4>4. reader' = [noted EXCEPT !.position = position, !.header = header, !.complete = complete]
        BY <3>3, <4>1, <4>2, <4>3 DEF Yielded
      <4>5. position = EndOf(i)
        BY <4>1, <1>1, <1>4, <1>8
      <4> QED BY <3>3, <4>4, <4>5, <1>8 DEF ReaderType
    <3> QED BY <2>1, <3>1, <3>2, <3>3
  <2>3. Entry(i, isolated) = [block |-> i, isolated |-> isolated, at |-> starts[i]]
    BY <1>1, <1>3 DEF Entry
  <2>4. /\ index' \in Seq([block : Nat, isolated : BOOLEAN, at : Nat])
        /\ \A n \in DOMAIN index' :
              \/ n \in DOMAIN index /\ index'[n] = index[n]
              \/ index'[n].block = i /\ index'[n].at = starts[i]
    <3>1. index \in Seq([block : Nat, isolated : BOOLEAN, at : Nat])
      BY DEF PlacesInv, TypeOK
    <3>2. /\ Entry(i, isolated) \in [block : Nat, isolated : BOOLEAN, at : Nat]
          /\ Entry(i, isolated).block = i /\ Entry(i, isolated).at = starts[i]
      BY <2>3, <1>1, <1>3, <1>4, <1>5
    <3>3. PICK entry : entry = Entry(i, isolated)
      OBVIOUS
    <3>4. index' = index \/ index' = Append(index, entry)
      BY <2>1, <3>3
    <3>5. CASE index' = index
      BY <3>1, <3>5
    <3>6. CASE index' = Append(index, entry)
      BY <3>1, <3>2, <3>3, <3>6
    <3> QED BY <3>4, <3>5, <3>6
  <2>5. TypeOK'
    BY <1>1, <2>2, <2>4 DEF PlacesInv, TypeOK, handed
  <2>6. Contiguous'
    BY <1>1 DEF PlacesInv, Contiguous, Boundary, EndOf, handed
  <2>7. ReaderPlaced'
    BY <1>1, <1>4, <2>0, <2>2 DEF ReaderPlaced, Boundary, handed
  <2>8. IndexPlaced'
    BY <1>1, <1>3, <2>0, <2>4 DEF PlacesInv, IndexPlaced, EndOf, handed
  <2> QED BY <2>5, <2>6, <2>7, <2>8 DEF PlacesInv
<1> QED BY <1>9, <1>10

\* A line that is read leaves the reader of its type, and names the block it is in.
LEMMA PlacesLine == PlacesInv /\ ReadLine => PlacesInv'
<1> SUFFICES ASSUME PlacesInv, ReadLine PROVE PlacesInv'
  OBVIOUS
<1>1. /\ reader \in ReaderType /\ reader.offset \in Nat /\ grown \in Nat /\ total \in Nat
      /\ reader.position \in Nat /\ reader.offset < total
      /\ face = "jsonl" /\ reader.step = "next" /\ UNCHANGED <<handed, grown>>
      /\ index \in Seq([block : Nat, isolated : BOOLEAN, at : Nat])
  BY ReaderTyped DEF ReadLine, PlacesInv, TypeOK
<1>2. PICK i : i = BlockAt(reader.offset)
  OBVIOUS
<1>3. i \in DOMAIN medium /\ i \in Nat /\ LineEnd(i) \in Nat /\ medium[i].size \in Nat
  <2>1. i \in DOMAIN medium
    BY <1>1, <1>2, BlockAtPart DEF PlacesInv
  <2>2. i \in Nat /\ EndOf(i) \in Nat /\ medium[i].size \in Nat
    BY <2>1, BlockHasPlace DEF PlacesInv
  <2> QED BY <2>1, <2>2, <1>1 DEF LineEnd
<1>4. PICK read \in ReaderType : read = [reader EXCEPT !.offset = LineEnd(i), !.lines = TRUE]
  BY <1>1, <1>3 DEF ReaderType
<1>5. read.step = "next"
  BY <1>1, <1>4 DEF ReaderType
<1>6. \/ /\ reader' \in {Raised(reader, "decoding"), read, Trailing(read), [read EXCEPT !.step = "undecodable"],
                         Raised(read, "structural"), Noted(read, "invalid", "semantic")}
         /\ index' = index
      \/ /\ reader' = Yielded(read, i, FALSE)
         /\ index' = Append(index, Entry(i, FALSE))
  <2>1. CASE ~ EndsInCharacter(i) /\ ~ IsBlank(i) /\ ~ reader.complete /\ Decodes(i)
    <3>1. Parsed(read, i)
      BY <2>1, <1>2, <1>4 DEF ReadLine
    <3> QED BY <3>1 DEF Parsed
  <2>2. CASE ~ (~ EndsInCharacter(i) /\ ~ IsBlank(i) /\ ~ reader.complete /\ Decodes(i))
    BY <2>2, <1>2, <1>4 DEF ReadLine
  <2> QED BY <2>1, <2>2
<1>7. /\ read.offset = LineEnd(i) /\ read.offset <= grown /\ reader.offset <= grown
  BY <1>1, <1>3, <1>4 DEF ReaderType, LineEnd, PlacesInv, ReaderPlaced
<1>8. reader' \in ReaderType /\ reader'.step # "content" /\ reader'.offset <= grown
  <2>1. CASE reader' \in {Raised(reader, "decoding"), read, [read EXCEPT !.step = "undecodable"], Raised(read, "structural")}
    BY <2>1, <1>1, <1>5, <1>7 DEF Raised, ReaderType
  <2>2. CASE reader' = Trailing(read)
    BY <2>2, <1>7, ReaderLeaves
  <2>3. CASE reader' = Noted(read, "invalid", "semantic")
    <3>1. /\ Noted(read, "invalid", "semantic") \in ReaderType
          /\ Noted(read, "invalid", "semantic").offset = read.offset
          /\ Noted(read, "invalid", "semantic").step \in {read.step, "raised"}
      BY ReaderEnds
    <3> QED BY <2>3, <3>1, <1>5, <1>7
  <2>4. CASE reader' = Yielded(read, i, FALSE)
    <3>1. PICK position \in Nat : position = read.position + medium[i].size
      BY <1>3 DEF ReaderType
    <3>2. PICK header \in BOOLEAN : header = (read.header \/ medium[i].kind = "header")
      OBVIOUS
    <3>3. PICK complete \in BOOLEAN :
             complete = (read.complete \/ (medium[i].kind = "end" /\ ~ FALSE))
      OBVIOUS
    <3>4. reader' = [read EXCEPT !.position = position, !.header = header, !.complete = complete]
      BY <2>4, <3>1, <3>2, <3>3 DEF Yielded
    <3> QED BY <3>4, <1>5, <1>7 DEF ReaderType
  <2> QED BY <1>6, <2>1, <2>2, <2>3, <2>4
<1>9. index' \in Seq([block : Nat, isolated : BOOLEAN, at : Nat])
  <2>1. Entry(i, FALSE) \in [block : Nat, isolated : BOOLEAN, at : Nat]
    BY <1>1, <1>3 DEF Entry
  <2>2. PICK entry \in [block : Nat, isolated : BOOLEAN, at : Nat] : entry = Entry(i, FALSE)
    BY <2>1
  <2>3. index \in Seq([block : Nat, isolated : BOOLEAN, at : Nat])
    BY <1>1
  <2>4. ASSUME NEW T, NEW s \in Seq(T), NEW e \in T PROVE Append(s, e) \in Seq(T)
    OBVIOUS
  <2>5. Append(index, entry) \in Seq([block : Nat, isolated : BOOLEAN, at : Nat])
    BY ONLY <2>2, <2>3, <2>4, Zenon
  <2>6. index' = index \/ index' = Append(index, entry)
    BY <1>6, <2>2
  <2> QED BY <2>3, <2>5, <2>6
<1> QED BY <1>1, <1>8, <1>9, LinesStay

LEMMA PlacesNoLine == PlacesInv /\ ReadNoLine => PlacesInv'
<1> SUFFICES ASSUME PlacesInv, ReadNoLine PROVE PlacesInv'
  OBVIOUS
<1>1. /\ reader \in ReaderType /\ reader.step = "next" /\ UNCHANGED <<handed, grown, index>>
  BY ReaderTyped DEF ReadNoLine
<1>2. reader' \in {Stopped(reader), Raised(reader, "structural")}
  BY DEF ReadNoLine
<1>3. /\ reader' \in ReaderType /\ reader'.offset = reader.offset
      /\ reader'.position = reader.position /\ reader'.step \in {"stopped", "raised"}
  BY <1>1, <1>2 DEF Stopped, Raised, ReaderType
<1> QED BY <1>1, <1>3, ReaderStays

LEMMA PlacesPast == PlacesInv /\ ReadPast => PlacesInv'
<1> SUFFICES ASSUME PlacesInv, ReadPast PROVE PlacesInv'
  OBVIOUS
<1>1. /\ reader \in ReaderType /\ reader.step = "undecodable" /\ UNCHANGED <<handed, grown, index>>
      /\ reader.offset \in Nat /\ grown \in Nat /\ reader.offset <= grown
  BY ReaderTyped DEF ReadPast, PlacesInv, ReaderPlaced
<1>2. reader' \in {TruncatedAt(reader), Raised(reader, "decoding"), Raised(reader, "structural")}
  <2>1. CASE reader.offset = grown
    BY <2>1 DEF ReadPast
  <2>2. CASE reader.offset < grown
    BY <2>2, <1>1 DEF ReadPast
  <2> QED BY <1>1, <2>1, <2>2
<1>3. /\ reader' \in ReaderType /\ reader'.offset = reader.offset
      /\ reader'.position = reader.position /\ reader'.step \in {"stopped", "raised"}
  <2>1. CASE reader' = TruncatedAt(reader)
    BY <2>1, <1>1, ReaderLeaves
  <2>2. CASE reader' \in {Raised(reader, "decoding"), Raised(reader, "structural")}
    BY <2>2, <1>1 DEF Raised, ReaderType
  <2> QED BY <1>2, <2>1, <2>2
<1> QED BY <1>1, <1>3, ReaderStays

-------------------------------------------------------------------------------

\* Every step keeps blocks, reader and index in their places.
LEMMA PlacesKept == PlacesInv /\ [Next]_vars => PlacesInv'
<1> SUFFICES ASSUME PlacesInv, [Next]_vars PROVE PlacesInv'
  OBVIOUS
<1>1. ASSUME NEW block \in Blocks[face], Write(block) PROVE PlacesInv'
  <2>1. face \in {"binary", "jsonl"}
    BY DEF PlacesInv, TypeOK
  <2>2. block \in BlockType
    BY <2>1, BlocksAssumption
  <2> QED BY <1>1, <2>2, PlacesWrite
<1>2. CASE Flush \/ Close \/ Crash
  <2>1. /\ grown \in 0 .. total /\ total \in Nat
        /\ producer \in [library : BOOLEAN, step : {"open", "closed", "crashed"}]
    BY DEF PlacesInv, TypeOK
  <2>2. /\ UNCHANGED <<face, medium, starts, total, reader, index>>
        /\ grown' \in grown .. total
        /\ producer' \in [library : BOOLEAN, step : {"open", "closed", "crashed"}]
    <3>1. CASE Flush
      BY <3>1, <2>1 DEF Flush, handed
    <3>2. CASE Close
      BY <3>2, <2>1 DEF Close
    <3>3. CASE Crash
      BY <3>3, <2>1 DEF Crash
    <3> QED BY <1>2, <3>1, <3>2, <3>3
  <2> QED BY <2>2, ProducerStays
<1>3. CASE Reads
  BY <1>3, PlacesOpen, PlacesFrame, PlacesContent, PlacesBehindEnd,
     PlacesLine, PlacesNoLine, PlacesPast DEF Reads
<1>4. CASE UNCHANGED vars
  BY <1>4 DEF vars, PlacesInv, TypeOK, Contiguous, Boundary, EndOf, ReaderPlaced, IndexPlaced
<1> QED BY <1>1, <1>2, <1>3, <1>4 DEF Next

\* Every reachable state of the container is of its type: what a reader has counted
\* stays natural and the file is a part of what was handed over (binary.py, jsonl.py).
THEOREM ContainerTyped == Spec => []TypeOK
<1>1. PlacesInv => TypeOK
  BY DEF PlacesInv
<1> QED BY <1>1, PlacesInit, PlacesKept, PTL DEF Spec

\* A record is found again, and nothing else, where the index of FileReader has it: for
\* files of any blocks, written by anyone, cut anywhere or growing while they are read.
THEOREM LocatorsAlwaysHold == Spec => []LocatorsHold
<1> QED BY PlacesInit, PlacesKept, PlacedLocatorsHold, PTL DEF Spec

-------------------------------------------------------------------------------
(* What a flat reader yields, and reports *)

\* Read as far as the block has parts, but for a newline.
Covered(i) == Until(i) <= reader.offset

IsEnd(i) == medium[i].kind = "end" /\ medium[i].form = "ok"

\* The block was yielded; none behind it was.
Seen(i) == \E n \in DOMAIN index : index[n].block = i

BehindAll(i) == \A n \in DOMAIN index : index[n].block < i

\* Part of a line, or all of it, was read.
Begun(i) == medium[i].kind # "blank" /\ starts[i] < reader.offset

\* What a file is made of; a library's writer ends it with End.
BlocksKnown ==
    /\ \A i \in DOMAIN medium : medium[i] \in Blocks[face]
    /\ producer.library =>
          \A i \in DOMAIN medium :
              /\ medium[i].form = "ok" /\ medium[i].kind # "blank"
              /\ medium[i].kind = "end" => i = Len(medium)

\* An entry of the index is a block to read, and all such blocks before it are entries.
EntryInOrder(n) ==
    /\ index[n].block \in DOMAIN medium
    /\ Readable(index[n].block) /\ Covered(index[n].block)
    /\ medium[index[n].block].form \in {"ok", "invalid"}
    /\ index[n].isolated <=> medium[index[n].block].form = "invalid"
    /\ medium[index[n].block].kind = "header" <=> n = 1
    /\ \A m \in 1 .. n - 1 : index[m].block < index[n].block
    /\ \A i \in 1 .. index[n].block : Readable(i) => Seen(i)

\* What the reader keeps is what it has yielded, and nothing it has passed was to be read.
ReaderKnows ==
    /\ reader.header <=> index # << >>
    /\ reader.complete <=> \E n \in DOMAIN index : IsEnd(index[n].block)
    /\ reader.step # "raised" =>
          \A i \in DOMAIN medium : Covered(i) =>
              /\ Readable(i) => Seen(i)
              /\ IsEnd(i) => reader.complete
    /\ reader.step # "raised" /\ face = "binary" /\ reader.complete =>
          \E n \in DOMAIN index : EndOf(index[n].block) = reader.offset
    /\ reader.step \in {"content", "undecodable"} => ~ reader.complete
    /\ reader.step = "content" =>
          \A i \in DOMAIN medium : starts[i] = reader.offset => medium[i].form # "misframed"
    /\ reader.opened <= grown

\* A finding ends the read, but for an invalid block, and in a strict reader raises.
ReaderReports ==
    /\ reader.truncated => reader.step \in {"stopped", "raised"} /\ ~ reader.complete
    /\ "trailing" \in reader.found => reader.step \in {"stopped", "raised"}
    /\ reader.strict /\ reader.step # "raised" => reader.found = {}

\* Between two lines nothing is left of a line but its newline, and behind End there
\* were empty lines; a line that could not be decoded is garbled, or stops short.
LinesRead ==
    /\ face = "jsonl" /\ reader.step \in {"new", "next"} =>
          \A i \in DOMAIN medium : Begun(i) => Covered(i) /\ (reader.complete => ~ BehindAll(i))
    /\ reader.step = "undecodable" =>
          /\ face = "jsonl"
          /\ \E i \in DOMAIN medium : Begun(i) /\ (medium[i].form = "garbled" \/ ~ Covered(i))

\* A reader that came to the end of a file at rest has read what there was.
EndKnown ==
    reader.step = "stopped" /\ Still =>
        /\ ~ reader.complete =>
              /\ \A i \in DOMAIN medium : medium[i].kind # "blank" /\ Whole(i) => Covered(i)
              /\ producer.library => (reader.truncated <=> EndsInBlock)
        /\ reader.complete =>
              ("trailing" \in reader.found <=>
                  \E i \in DOMAIN medium : BehindAll(i) /\ medium[i].kind # "blank" /\ starts[i] < grown)

ReadInv ==
    /\ BlocksKnown
    /\ \A n \in DOMAIN index : EntryInOrder(n)
    /\ ReaderKnows /\ ReaderReports /\ LinesRead /\ EndKnown

-------------------------------------------------------------------------------

\* Where the parts of a block are.
LEMMA UntilPlaced ==
    ASSUME PlacesInv, BlocksKnown, NEW i \in DOMAIN medium
    PROVE  /\ i \in Nat /\ starts[i] \in Nat /\ EndOf(i) \in Nat /\ Until(i) \in Nat
           /\ starts[i] < EndOf(i) /\ starts[i] <= Until(i) /\ Until(i) <= EndOf(i)
           /\ medium[i].kind # "blank" => starts[i] < Until(i)
           /\ face = "binary" => Until(i) = EndOf(i) /\ medium[i].kind # "blank"
                                    /\ FrameSize < medium[i].size /\ medium[i].form # "garbled"
           /\ face = "jsonl" => Until(i) = EndOf(i) - 1 /\ medium[i].form # "misframed"
           /\ medium[i].kind = "header" => medium[i].form # "invalid"
<1>1. /\ i \in Nat /\ starts[i] \in Nat /\ EndOf(i) \in Nat /\ starts[i] < EndOf(i)
      /\ medium[i].size \in Nat /\ EndOf(i) = starts[i] + medium[i].size
  BY BlockHasPlace DEF PlacesInv, EndOf
<1>2. face \in {"binary", "jsonl"} /\ medium[i] \in Blocks[face]
  BY DEF PlacesInv, TypeOK, BlocksKnown
<1>3. CASE face = "binary"
  <2>1. Until(i) = EndOf(i)
    BY <1>1, <1>3 DEF Until
  <2> QED BY <1>1, <1>2, <1>3, <2>1, BlocksAssumption, SizesAssumption
<1>4. CASE face = "jsonl"
  <2>1. Until(i) = EndOf(i) - 1
    BY <1>1, <1>4 DEF Until
  <2>2. /\ medium[i].form # "misframed" /\ (medium[i].kind # "blank" => medium[i].size > 1)
        /\ medium[i].kind = "header" => medium[i].form # "invalid"
    BY <1>2, <1>4, BlocksAssumption
  <2> QED BY <1>1, <1>4, <2>1, <2>2
<1> QED BY <1>2, <1>3, <1>4

\* A block before another ends no later than that one begins.
LEMMA PlacesOrdered ==
    ASSUME PlacesInv, BlocksKnown, NEW i \in DOMAIN medium, NEW j \in DOMAIN medium
    PROVE  /\ i < j => EndOf(i) <= starts[j] /\ starts[i] < starts[j]
           /\ starts[i] < starts[j] => i < j
<1>1. /\ i \in Nat /\ starts[i] \in Nat /\ EndOf(i) \in Nat /\ starts[i] < EndOf(i)
      /\ j \in Nat /\ starts[j] \in Nat /\ EndOf(j) \in Nat /\ starts[j] < EndOf(j)
  BY UntilPlaced
<1>2. i < j => EndOf(i) <= starts[j]
  BY DEF PlacesInv, Contiguous
<1>3. j < i => EndOf(j) <= starts[i]
  BY DEF PlacesInv, Contiguous
<1> QED BY <1>1, <1>2, <1>3

\* What begins before a place where a block begins ends there at the latest.
LEMMA BoundaryCovers ==
    ASSUME PlacesInv, BlocksKnown, NEW n \in Nat, Boundary(n),
           NEW i \in DOMAIN medium, starts[i] < n
    PROVE  EndOf(i) <= n
<1>1. CASE n = total
  BY <1>1 DEF PlacesInv, Contiguous
<1>2. CASE \E j \in DOMAIN medium : starts[j] = n
  BY <1>2, PlacesOrdered
<1> QED BY <1>1, <1>2 DEF Boundary

\* Reading on inside block i covers no other block.
LEMMA AdvanceCovers ==
    ASSUME PlacesInv, BlocksKnown, NEW i \in DOMAIN medium, NEW from \in Nat, NEW to \in Nat,
           starts[i] <= from, to <= EndOf(i),
           NEW j \in DOMAIN medium
    PROVE  /\ medium[j].kind # "blank" /\ Until(j) <= to => j = i \/ Until(j) <= from
           /\ starts[j] < to => j = i \/ starts[j] < from
           /\ starts[j] < to => j <= i
<1>1. /\ i \in Nat /\ starts[i] \in Nat /\ EndOf(i) \in Nat
      /\ j \in Nat /\ starts[j] \in Nat /\ EndOf(j) \in Nat /\ Until(j) \in Nat
      /\ starts[j] < EndOf(j) /\ Until(j) <= EndOf(j)
      /\ medium[j].kind # "blank" => starts[j] < Until(j)
  BY UntilPlaced
<1>2. i < j => EndOf(i) <= starts[j]
  BY PlacesOrdered
<1>3. j < i => EndOf(j) <= starts[i]
  BY PlacesOrdered
<1> QED BY <1>1, <1>2, <1>3

-------------------------------------------------------------------------------

LEMMA ReadInit == Init => ReadInv
<1> SUFFICES ASSUME Init PROVE ReadInv
  OBVIOUS
<1>1. PICK strict \in BOOLEAN : reader = NewReader(strict)
  BY DEF Init
<1>2. /\ reader.step = "new" /\ reader.offset = 0 /\ reader.opened = 0 /\ ~ reader.header
      /\ ~ reader.complete /\ ~ reader.truncated /\ reader.found = {}
  BY <1>1 DEF NewReader
<1>3. medium = << >> /\ index = << >> /\ grown = 0 /\ DOMAIN medium = {} /\ DOMAIN index = {}
  BY DEF Init
<1>4. BlocksKnown /\ LinesRead
  BY <1>2, <1>3 DEF BlocksKnown, LinesRead
<1>5. \A n \in DOMAIN index : EntryInOrder(n)
  BY <1>3
<1>6. ReaderKnows
  BY <1>2, <1>3 DEF ReaderKnows
<1>7. ReaderReports /\ EndKnown
  BY <1>2 DEF ReaderReports, EndKnown
<1> QED BY <1>4, <1>5, <1>6, <1>7 DEF ReadInv

\* Bytes that reach the file say nothing new of a reader that is done with it.
LEMMA ReadProducer ==
    ASSUME PlacesInv, ReadInv, UNCHANGED <<face, medium, starts, total, reader, index>>,
           grown' \in grown .. total, producer'.library = producer.library
    PROVE  ReadInv'
<1>1. /\ grown \in Nat /\ grown' \in Nat /\ grown <= grown'
      /\ reader.opened \in Nat /\ reader.opened <= grown
  BY ReaderTyped DEF ReadInv, ReaderKnows, ReaderType, PlacesInv, TypeOK
<1>2. BlocksKnown'
  BY DEF ReadInv, BlocksKnown
<1>3. (\A n \in DOMAIN index : EntryInOrder(n))'
  BY DEF ReadInv, EntryInOrder, Covered, Until, EndOf, Readable, Seen
<1>4. ReaderKnows'
  BY <1>1 DEF ReadInv, ReaderKnows, Covered, Until, EndOf, Readable, Seen, IsEnd
<1>5. ReaderReports' /\ LinesRead'
  BY DEF ReadInv, ReaderReports, LinesRead, Begun, BehindAll, Covered, Until, EndOf
<1>6. EndKnown'
  <2>1. CASE grown' = grown
    BY <2>1 DEF ReadInv, EndKnown, Still, BehindAll, Whole, EndsInBlock, Covered, Until, EndOf
  <2>2. CASE grown' # grown
    <3>1. ~ Still'
      BY <2>2, <1>1 DEF Still
    <3> QED BY <3>1 DEF EndKnown
  <2> QED BY <2>1, <2>2
<1> QED BY <1>2, <1>3, <1>4, <1>5, <1>6 DEF ReadInv

\* A step of the reader that yields nothing, and covers nothing it would have yielded.
LEMMA ReadOn ==
    ASSUME PlacesInv, ReadInv, UNCHANGED <<handed, grown, index>>,
           reader'.header = reader.header, reader'.complete = reader.complete,
           reader'.offset \in Nat, reader.offset <= reader'.offset, reader'.opened <= grown,
           reader'.step # "new",
           reader'.step # "raised" =>
              /\ reader.step # "raised"
              /\ \A i \in DOMAIN medium : Until(i) <= reader'.offset =>
                    Covered(i) \/ (~ Readable(i) /\ ~ (IsEnd(i) /\ ~ reader.complete))
              /\ face = "binary" /\ reader.complete => reader'.offset = reader.offset,
           reader'.step \in {"content", "undecodable"} => ~ reader.complete,
           reader'.step = "content" =>
              \A i \in DOMAIN medium : starts[i] = reader'.offset => medium[i].form # "misframed"
    PROVE  BlocksKnown' /\ (\A n \in DOMAIN index : EntryInOrder(n))' /\ ReaderKnows'
<1>1. /\ reader.offset \in Nat /\ PlacesInv /\ BlocksKnown
      /\ face' = face /\ medium' = medium /\ starts' = starts /\ producer' = producer
      /\ index' = index /\ grown' = grown
  BY ReaderTyped DEF ReadInv, handed
<1>2. \A i \in DOMAIN medium : Until(i) \in Nat
  BY <1>1, UntilPlaced
<1>3. BlocksKnown'
  BY <1>1 DEF BlocksKnown
<1>4. \A i \in DOMAIN medium : Covered(i) => Until(i) <= reader'.offset
  BY <1>1, <1>2 DEF Covered
<1>5. (\A n \in DOMAIN index : EntryInOrder(n))'
  BY <1>1, <1>4 DEF ReadInv, EntryInOrder, Covered, Until, EndOf, Readable, Seen
<1>6. ReaderKnows'
  <2>1. ReaderKnows
    BY DEF ReadInv
  <2>2. (reader.header <=> index # << >>)' /\ (reader.complete <=> \E n \in DOMAIN index : IsEnd(index[n].block))'
    BY <1>1, <2>1 DEF ReaderKnows, IsEnd
  <2>3. reader'.step # "raised" =>
          \A i \in DOMAIN medium : Until(i) <= reader'.offset =>
              /\ Readable(i) => Seen(i)
              /\ IsEnd(i) => reader.complete
    BY <2>1 DEF ReaderKnows
  <2>4. (reader.step # "raised" =>
          \A i \in DOMAIN medium : Covered(i) =>
              /\ Readable(i) => Seen(i)
              /\ IsEnd(i) => reader.complete)'
    BY <1>1, <2>3 DEF Covered, Until, EndOf, Readable, Seen, IsEnd
  <2>5. (reader.step # "raised" /\ face = "binary" /\ reader.complete =>
          \E n \in DOMAIN index : EndOf(index[n].block) = reader.offset)'
    BY <1>1, <2>1 DEF ReaderKnows, EndOf
  <2> QED BY <1>1, <2>2, <2>4, <2>5 DEF ReaderKnows
<1> QED BY <1>3, <1>5, <1>6

\* A block handed over lies behind what is in the file, and is not read yet.
LEMMA ReadWrite ==
    ASSUME PlacesInv, PlacesInv', ReadInv, NEW block \in Blocks[face], Write(block)
    PROVE  ReadInv'
<1>0. PICK last \in Nat : last = Len(medium) + 1
  BY DEF PlacesInv, TypeOK
<1>1. /\ BlocksKnown /\ (\A n \in DOMAIN index : EntryInOrder(n)) /\ ReaderKnows
      /\ ReaderReports /\ LinesRead /\ EndKnown
      /\ total \in Nat /\ grown \in Nat /\ grown <= total /\ Len(medium) \in Nat
      /\ reader.offset \in Nat /\ reader.offset <= grown
  BY ReaderTyped DEF ReadInv, PlacesInv, TypeOK, ReaderPlaced
<1>2. /\ DOMAIN medium' = DOMAIN medium \cup {last} /\ last \notin DOMAIN medium
      /\ DOMAIN medium = 1 .. Len(medium)
      /\ medium'[last] = block /\ starts'[last] = total
      /\ \A i \in DOMAIN medium : medium'[i] = medium[i] /\ starts'[i] = starts[i]
      /\ UNCHANGED <<face, grown, producer, reader, index>>
  <2>1. /\ block \in BlockType
        /\ medium \in Seq(BlockType) /\ starts \in Seq(Nat) /\ Len(starts) = Len(medium)
    <3>1. face \in {"binary", "jsonl"}
      BY DEF PlacesInv, TypeOK
    <3> QED BY <3>1, BlocksAssumption DEF PlacesInv, TypeOK
  <2> QED BY <1>0, <2>1 DEF Write
<1>3. BlocksKnown'
  <2>1. \A i \in DOMAIN medium' : medium'[i] \in Blocks[face']
    BY <1>1, <1>2 DEF BlocksKnown
  <2>2. ASSUME producer.library
        PROVE  /\ block.form = "ok" /\ block.kind # "blank"
               /\ \A i \in DOMAIN medium : medium[i].kind # "end"
    <3>1. block.form = "ok" /\ block.kind # "blank" /\ "end" \notin ToSet(Kinds(medium))
      BY <2>2 DEF Write, Takes
    <3>2. \A i \in DOMAIN medium : Kinds(medium)[i] = medium[i].kind /\ Kinds(medium)[i] \in ToSet(Kinds(medium))
      BY <1>1, <2>2 DEF Kinds, ToSet, BlocksKnown
    <3> QED BY <3>1, <3>2
  <2>3. Len(medium') = last
    BY <1>0 DEF Write, PlacesInv, TypeOK
  <2> QED BY <1>1, <1>2, <2>1, <2>2, <2>3 DEF BlocksKnown
\* What is said of the blocks before the new one is unchanged.
<1>4. \A i \in DOMAIN medium :
         /\ starts'[i] + medium'[i].size = EndOf(i)
         /\ (Until(i))' = Until(i) /\ (Covered(i)' <=> Covered(i)) /\ (Readable(i)' <=> Readable(i))
         /\ (Whole(i)' <=> Whole(i)) /\ (IsEnd(i)' <=> IsEnd(i)) /\ (Begun(i)' <=> Begun(i))
  <2> SUFFICES ASSUME NEW i \in DOMAIN medium
               PROVE  /\ starts'[i] + medium'[i].size = EndOf(i)
                      /\ (Until(i))' = Until(i) /\ (Covered(i)' <=> Covered(i))
                      /\ (Readable(i)' <=> Readable(i)) /\ (Whole(i)' <=> Whole(i))
                      /\ (IsEnd(i)' <=> IsEnd(i)) /\ (Begun(i)' <=> Begun(i))
    OBVIOUS
  <2>1. starts'[i] + medium'[i].size = EndOf(i) /\ (Until(i))' = Until(i)
    BY <1>2 DEF EndOf, Until
  <2>2. \A j \in 1 .. i - 1 : medium'[j] = medium[j]
    BY <1>1, <1>2
  <2>3. Readable(i)' <=> Readable(i)
    BY <1>2, <2>2 DEF Readable
  <2>4. /\ (Covered(i)' <=> Covered(i)) /\ (Whole(i)' <=> Whole(i))
        /\ (IsEnd(i)' <=> IsEnd(i)) /\ (Begun(i)' <=> Begun(i))
    BY <1>2, <2>1 DEF Covered, Whole, IsEnd, Begun
  <2> QED BY <2>1, <2>3, <2>4
\* The new one is behind all that is in the file.
<1>5. /\ starts'[last] = total /\ ~ Begun(last)'
      /\ medium'[last].kind # "blank" => ~ Whole(last)' /\ ~ Covered(last)'
  <2>1. /\ face \in {"binary", "jsonl"} /\ block.size \in Nat /\ block.size > 0
        /\ face = "jsonl" /\ block.kind # "blank" => block.size > 1
    <3>1. face \in {"binary", "jsonl"}
      BY DEF PlacesInv, TypeOK
    <3> QED BY <3>1, BlocksAssumption DEF BlockType
  <2>2. EndOf(last)' = total + block.size
    BY <1>2 DEF EndOf
  <2>3. Until(last)' \in Nat /\ (block.kind # "blank" => Until(last)' > total)
    BY <1>1, <1>2, <2>1, <2>2 DEF Until
  <2> QED BY <1>1, <1>2, <2>3 DEF Begun, Whole, Covered
<1>6. (\A n \in DOMAIN index : EntryInOrder(n))'
  <2> SUFFICES ASSUME NEW n \in DOMAIN index
               PROVE  EntryInOrder(n)'
    BY <1>2
  <2>1. EntryInOrder(n) /\ index[n].block \in DOMAIN medium
    BY <1>1 DEF EntryInOrder
  <2>2. \A i \in 1 .. index[n].block : i \in DOMAIN medium
    BY <1>1, <1>2, <2>1
  <2> QED BY <1>2, <1>4, <2>1, <2>2 DEF EntryInOrder, Seen
<1>7. \A n \in DOMAIN index : index[n].block \in DOMAIN medium
  BY <1>1 DEF EntryInOrder
<1>8. ReaderKnows'
  <2>1. (reader.complete <=> \E n \in DOMAIN index : IsEnd(index[n].block))'
    BY <1>1, <1>2, <1>4, <1>7 DEF ReaderKnows
  <2>2. (reader.step # "raised" =>
           \A i \in DOMAIN medium : Covered(i) =>
              /\ Readable(i) => Seen(i)
              /\ IsEnd(i) => reader.complete)'
    <3>1. Covered(last)' => ~ Readable(last)' /\ ~ IsEnd(last)'
      BY <1>5 DEF Readable, IsEnd
    <3>2. \A i \in DOMAIN medium : (Seen(i))' <=> Seen(i)
      BY <1>2 DEF Seen
    <3> QED BY <1>1, <1>2, <1>4, <3>1, <3>2 DEF ReaderKnows
  <2>3. (reader.step # "raised" /\ face = "binary" /\ reader.complete =>
           \E n \in DOMAIN index : EndOf(index[n].block) = reader.offset)'
    BY <1>1, <1>2, <1>4, <1>7 DEF ReaderKnows, EndOf
  <2>4. (reader.step = "content" =>
           \A i \in DOMAIN medium : starts[i] = reader.offset => medium[i].form # "misframed")'
    <3>1. reader.step = "content" => reader.offset < grown
      BY DEF PlacesInv, ReaderPlaced
    <3> QED BY <1>1, <1>2, <3>1 DEF ReaderKnows
  <2> QED BY <1>1, <1>2, <2>1, <2>2, <2>3, <2>4 DEF ReaderKnows
<1>9. ReaderReports'
  BY <1>1, <1>2 DEF ReaderReports
<1>10. LinesRead'
  <2>1. \A i \in DOMAIN medium : BehindAll(i)' <=> BehindAll(i)
    BY <1>2 DEF BehindAll
  <2> QED BY <1>1, <1>2, <1>4, <1>5, <2>1 DEF LinesRead
<1>11. EndKnown'
  <2>1. EndsInBlock' <=> EndsInBlock
    <3>1. ~ (starts'[last] < grown)
      BY <1>1, <1>5
    <3> QED BY <1>2, <1>4, <3>1 DEF EndsInBlock
  <2>2. (\E i \in DOMAIN medium : BehindAll(i) /\ medium[i].kind # "blank" /\ starts[i] < grown)'
           <=> \E i \in DOMAIN medium : BehindAll(i) /\ medium[i].kind # "blank" /\ starts[i] < grown
    <3>1. ~ (starts'[last] < grown)
      BY <1>1, <1>5
    <3> QED BY <1>2, <3>1 DEF BehindAll
  <2>3. (\A i \in DOMAIN medium : medium[i].kind # "blank" /\ Whole(i) => Covered(i))
           => (\A i \in DOMAIN medium : medium[i].kind # "blank" /\ Whole(i) => Covered(i))'
    BY <1>2, <1>4, <1>5
  <2>4. Still' <=> Still
    BY <1>2 DEF Still
  <2> QED BY <1>1, <1>2, <2>1, <2>2, <2>3, <2>4 DEF EndKnown
<1> QED BY <1>3, <1>6, <1>8, <1>9, <1>10, <1>11 DEF ReadInv

-------------------------------------------------------------------------------

\* What no finding changes of a reader.
Same(r, s) ==
    /\ s.header = r.header /\ s.complete = r.complete
    /\ s.opened = r.opened /\ s.strict = r.strict

LEMMA RaisedKeeps ==
    ASSUME NEW r \in ReaderType, NEW error
    PROVE  /\ Same(r, Raised(r, error)) /\ Raised(r, error).step = "raised"
           /\ Raised(r, error).offset = r.offset /\ Raised(r, error).truncated = r.truncated
  BY DEF Raised, Same, ReaderType

LEMMA StoppedKeeps ==
    ASSUME NEW r \in ReaderType
    PROVE  /\ Same(r, Stopped(r)) /\ Stopped(r).step = "stopped"
           /\ Stopped(r).offset = r.offset /\ Stopped(r).truncated = r.truncated
           /\ Stopped(r).found = r.found
  BY DEF Stopped, Same, ReaderType

LEMMA NotedKeeps ==
    ASSUME NEW r \in ReaderType, NEW category, NEW error
    PROVE  LET s == Noted(r, category, error)
           IN  /\ Same(r, s) /\ s.offset = r.offset /\ s.truncated = r.truncated
               /\ s.found = r.found \cup {category}
               /\ s.step = IF r.strict THEN "raised" ELSE r.step
  BY DEF Noted, Raised, Same, ReaderType

LEMMA TruncatedKeeps ==
    ASSUME NEW r \in ReaderType
    PROVE  LET s == TruncatedAt(r)
           IN  /\ Same(r, s) /\ s.offset = r.offset /\ s.truncated
               /\ s.found = r.found \cup {"truncated"}
               /\ s.step = IF r.strict THEN "raised" ELSE "stopped"
<1>1. PICK t \in ReaderType : t = Stopped([r EXCEPT !.truncated = TRUE])
  BY DEF Stopped, ReaderType
<1>2. /\ Same(r, t) /\ t.offset = r.offset /\ t.truncated /\ t.found = r.found /\ t.step = "stopped"
  BY <1>1 DEF Stopped, Same, ReaderType
<1>3. LET s == Noted(t, "truncated", "truncated")
      IN  /\ Same(t, s) /\ s.offset = t.offset /\ s.truncated = t.truncated
          /\ s.found = t.found \cup {"truncated"}
          /\ s.step = IF t.strict THEN "raised" ELSE t.step
  BY NotedKeeps
<1> QED BY <1>1, <1>2, <1>3 DEF TruncatedAt, Same

LEMMA TrailingKeeps ==
    ASSUME NEW r \in ReaderType
    PROVE  LET s == Trailing(r)
           IN  /\ Same(r, s) /\ s.offset = r.offset /\ s.truncated = r.truncated
               /\ s.found = r.found \cup {"trailing"}
               /\ s.step = IF r.strict THEN "raised" ELSE "stopped"
<1>1. PICK t \in ReaderType : t = Stopped(r)
  BY DEF Stopped, ReaderType
<1>2. /\ Same(r, t) /\ t.offset = r.offset /\ t.truncated = r.truncated
      /\ t.found = r.found /\ t.step = "stopped"
  BY <1>1 DEF Stopped, Same, ReaderType
<1>3. LET s == Noted(t, "trailing", "semantic")
      IN  /\ Same(t, s) /\ s.offset = t.offset /\ s.truncated = t.truncated
          /\ s.found = t.found \cup {"trailing"}
          /\ s.step = IF t.strict THEN "raised" ELSE t.step
  BY NotedKeeps
<1> QED BY <1>1, <1>2, <1>3 DEF Trailing, Same

\* A reader that raises.
LEMMA ReadRaises ==
    ASSUME PlacesInv, ReadInv, UNCHANGED <<handed, grown, index>>,
           reader'.step = "raised", Same(reader, reader'),
           reader'.offset \in Nat, reader.offset <= reader'.offset,
           reader'.truncated => ~ reader.complete
    PROVE  ReadInv'
<1>1. reader.opened <= grown
  BY DEF ReadInv, ReaderKnows
<1>2. BlocksKnown' /\ (\A n \in DOMAIN index : EntryInOrder(n))' /\ ReaderKnows'
  BY <1>1, ReadOn DEF Same
<1>3. ReaderReports' /\ LinesRead' /\ EndKnown'
  BY DEF ReaderReports, LinesRead, EndKnown, Same
<1> QED BY <1>2, <1>3 DEF ReadInv

\* A reader that stops.
LEMMA ReadStops ==
    ASSUME PlacesInv, ReadInv, UNCHANGED <<handed, grown, index>>,
           reader.step \in {"next", "content", "undecodable"},
           reader'.step = "stopped", Same(reader, reader'),
           reader'.offset \in Nat, reader.offset <= reader'.offset,
           face = "binary" \/ ~ reader.complete => reader'.offset = reader.offset,
           \A i \in DOMAIN medium : Until(i) <= reader'.offset => Covered(i) \/ ~ Readable(i),
           reader'.truncated => ~ reader.complete,
           reader.strict => reader'.found = {},
           ~ reader.complete =>
              /\ \A i \in DOMAIN medium : medium[i].kind # "blank" /\ Whole(i) => Covered(i)
              /\ producer.library => (reader'.truncated <=> EndsInBlock),
           reader.complete =>
              ("trailing" \in reader'.found <=>
                  \E i \in DOMAIN medium : BehindAll(i) /\ medium[i].kind # "blank" /\ starts[i] < grown)
    PROVE  ReadInv'
<1>1. /\ reader.opened <= grown /\ face' = face /\ medium' = medium /\ starts' = starts
      /\ producer' = producer /\ index' = index /\ grown' = grown
  BY DEF ReadInv, ReaderKnows, handed
<1>2. BlocksKnown' /\ (\A n \in DOMAIN index : EntryInOrder(n))' /\ ReaderKnows'
  <2>1. \A i \in DOMAIN medium : Until(i) <= reader'.offset =>
           Covered(i) \/ (~ Readable(i) /\ ~ (IsEnd(i) /\ ~ reader.complete))
    BY DEF Covered
  <2> QED BY <1>1, <2>1, ReadOn DEF Same
<1>3. ReaderReports' /\ LinesRead'
  BY DEF ReaderReports, LinesRead, Same
<1>4. EndKnown'
  <2>1. \A i \in DOMAIN medium :
           /\ (Whole(i)' <=> Whole(i)) /\ (BehindAll(i)' <=> BehindAll(i))
           /\ ~ reader.complete => (Covered(i)' <=> Covered(i))
    BY <1>1 DEF Whole, BehindAll, Covered, Until, EndOf
  <2>2. EndsInBlock' <=> EndsInBlock
    BY <1>1 DEF EndsInBlock, Whole, Until, EndOf
  <2> QED BY <1>1, <2>1, <2>2 DEF EndKnown, Same
<1> QED BY <1>2, <1>3, <1>4 DEF ReadInv

\* A reader that goes on without a block.
LEMMA ReadGoesOn ==
    ASSUME PlacesInv, ReadInv, UNCHANGED <<handed, grown, index>>,
           reader.step \in {"new", "next"},
           reader'.step \in {"next", "content", "undecodable"},
           reader'.header = reader.header, reader'.complete = reader.complete,
           reader'.strict = reader.strict, reader'.opened <= grown,
           reader'.offset \in Nat, reader.offset <= reader'.offset,
           face = "binary" => reader'.offset = reader.offset,
           \A i \in DOMAIN medium : Until(i) <= reader'.offset =>
              Covered(i) \/ (~ Readable(i) /\ ~ (IsEnd(i) /\ ~ reader.complete)),
           reader'.step \in {"content", "undecodable"} => ~ reader.complete,
           reader'.step = "content" =>
              \A i \in DOMAIN medium : starts[i] = reader'.offset => medium[i].form # "misframed",
           reader'.truncated = reader.truncated,
           "trailing" \in reader'.found => "trailing" \in reader.found,
           reader.strict => reader'.found = reader.found,
           LinesRead'
    PROVE  ReadInv'
<1>1. BlocksKnown' /\ (\A n \in DOMAIN index : EntryInOrder(n))' /\ ReaderKnows'
  BY ReadOn
<1>2. ReaderReports' /\ EndKnown'
  BY DEF ReadInv, ReaderReports, EndKnown
<1> QED BY <1>1, <1>2 DEF ReadInv

\* A reader that yields block i, at which it stood.
LEMMA ReadYields ==
    ASSUME PlacesInv, ReadInv, UNCHANGED <<handed, grown>>,
           reader.step \in {"next", "content"}, ~ reader.complete, reader'.step = "next",
           NEW i \in DOMAIN medium, starts[i] = reader.offset, ~ Unreadable(i),
           medium[i].kind # "blank",
           medium[i].form = "ok" \/ (face = "binary" /\ medium[i].form = "invalid"),
           NEW entry \in [block : Nat, isolated : BOOLEAN, at : Nat],
           entry.block = i, entry.isolated <=> medium[i].form = "invalid",
           index' = Append(index, entry),
           reader'.header <=> reader.header \/ medium[i].kind = "header",
           reader'.complete <=> reader.complete \/ (medium[i].kind = "end" /\ ~ entry.isolated),
           reader'.strict = reader.strict, reader'.opened = reader.opened,
           reader'.truncated = reader.truncated,
           reader'.offset \in Nat, Until(i) <= reader'.offset, reader'.offset <= EndOf(i),
           "trailing" \in reader'.found => "trailing" \in reader.found,
           reader.strict => reader'.found = {}
    PROVE  ReadInv'
<1>0. PICK last \in Nat : last = Len(index) + 1
  BY DEF PlacesInv, TypeOK
<1>1. /\ BlocksKnown /\ (\A n \in DOMAIN index : EntryInOrder(n)) /\ ReaderKnows
      /\ ReaderReports /\ LinesRead
      /\ reader.offset \in Nat /\ face' = face /\ medium' = medium /\ starts' = starts
      /\ producer' = producer /\ grown' = grown
  BY ReaderTyped DEF ReadInv, handed
<1>2. /\ DOMAIN index = 1 .. Len(index) /\ Len(index) \in Nat /\ DOMAIN index' = 1 .. last
      /\ DOMAIN index' = DOMAIN index \cup {last} /\ last \notin DOMAIN index
      /\ index'[last] = entry /\ \A n \in DOMAIN index : index'[n] = index[n]
  <2>1. index \in Seq([block : Nat, isolated : BOOLEAN, at : Nat])
    BY DEF PlacesInv, TypeOK
  <2> QED BY <1>0, <2>1
<1>3. /\ i \in Nat /\ starts[i] \in Nat /\ Until(i) \in Nat /\ EndOf(i) \in Nat
      /\ starts[i] < Until(i) /\ Until(i) <= EndOf(i) /\ (face = "binary" => Until(i) = EndOf(i))
      /\ medium[i].kind = "header" => medium[i].form # "invalid"
  BY <1>1, UntilPlaced
<1>4. ASSUME NEW j \in DOMAIN medium
      PROVE  /\ j \in Nat /\ starts[j] \in Nat /\ Until(j) \in Nat
             /\ medium[j].kind # "blank" /\ Until(j) <= reader'.offset => j = i \/ Covered(j)
             /\ medium[j].kind # "blank" /\ starts[j] < reader'.offset => j = i \/ Begun(j)
             /\ starts[j] < reader'.offset => j <= i
             /\ j < i => Covered(j)
             /\ medium[j].kind # "blank" /\ Covered(j) => j < i
             /\ Covered(j) => Until(j) <= reader'.offset
  <2>1. /\ j \in Nat /\ starts[j] \in Nat /\ EndOf(j) \in Nat /\ Until(j) \in Nat
        /\ starts[j] < EndOf(j) /\ Until(j) <= EndOf(j)
        /\ medium[j].kind # "blank" => starts[j] < Until(j)
    BY <1>1, UntilPlaced
  <2>2. /\ medium[j].kind # "blank" /\ Until(j) <= reader'.offset => j = i \/ Until(j) <= reader.offset
        /\ starts[j] < reader'.offset => j = i \/ starts[j] < reader.offset
        /\ starts[j] < reader'.offset => j <= i
    BY <1>1, <1>3, AdvanceCovers
  <2>3. (j < i => EndOf(j) <= starts[i]) /\ (starts[j] < starts[i] => j < i)
    BY <1>1, PlacesOrdered
  <2> QED BY <1>1, <1>3, <2>1, <2>2, <2>3 DEF Covered, Begun
\* The block is to be read, and all such blocks before it were.
<1>5. /\ \A j \in 1 .. i - 1 : j \in DOMAIN medium /\ Covered(j)
      /\ \A j \in 1 .. i - 1 : ~ IsEnd(j) /\ (Readable(j) => Seen(j))
  <2>1. \A j \in 1 .. i - 1 : j \in DOMAIN medium /\ j < i
    BY <1>3 DEF PlacesInv, TypeOK
  <2>2. \A j \in 1 .. i - 1 : Covered(j)
    BY <1>4, <2>1
  <2> QED BY <1>1, <2>1, <2>2 DEF ReaderKnows
<1>6. Readable(i)
  BY <1>1, <1>5 DEF Readable, IsEnd, PlacesInv, TypeOK
<1>7. \A n \in DOMAIN index :
         /\ index[n].block \in DOMAIN medium /\ index[n].block < i
         /\ Readable(index[n].block) /\ Covered(index[n].block)
  <2>1. \A n \in DOMAIN index : EntryInOrder(n) /\ medium[index[n].block].kind # "blank"
    BY <1>1 DEF EntryInOrder, Readable
  <2> QED BY <1>4, <2>1 DEF EntryInOrder
<1>8. \A j : (Readable(j)' <=> Readable(j)) /\ (IsEnd(j)' <=> IsEnd(j))
  BY <1>1 DEF Readable, IsEnd
<1>9. \A j : Covered(j)' <=> Until(j) <= reader'.offset
  BY <1>1 DEF Covered, Until, EndOf
<1>10. \A j : Seen(j)' <=> Seen(j) \/ j = i
  BY <1>2 DEF Seen
<1>11. BlocksKnown'
  BY <1>1 DEF BlocksKnown
<1>12. (\A n \in DOMAIN index : EntryInOrder(n))'
  <2>1. ASSUME NEW n \in DOMAIN index
        PROVE  EntryInOrder(n)'
    <3>1. EntryInOrder(n) /\ n \in 1 .. Len(index)
      BY <1>1, <1>2
    <3>2. \A m \in 1 .. n - 1 : m \in DOMAIN index
      BY <1>2
    <3>3. Covered(index[n].block)'
      BY <1>4, <1>7, <1>9
    <3> QED BY <1>1, <1>2, <1>8, <1>10, <3>1, <3>2, <3>3 DEF EntryInOrder
  <2>2. EntryInOrder(last)'
    <3>1. medium[i].kind = "header" <=> last = 1
      <4>1. index = << >> <=> last = 1
        <5>1. index \in Seq([block : Nat, isolated : BOOLEAN, at : Nat])
          BY DEF PlacesInv, TypeOK
        <5> QED BY <1>0, <5>1
      <4> QED BY <1>1, <4>1 DEF ReaderKnows, Unreadable
    <3>2. \A m \in 1 .. last - 1 : m \in DOMAIN index /\ index'[m].block < i
      BY <1>0, <1>2, <1>7
    <3>3. Covered(i)'
      BY <1>9
    <3>4. \A j \in 1 .. i : Readable(j) => Seen(j)'
      BY <1>3, <1>5, <1>10
    <3> QED BY <1>1, <1>2, <1>6, <1>8, <3>1, <3>2, <3>3, <3>4 DEF EntryInOrder
  <2> QED BY <1>2, <2>1, <2>2
<1>13. ReaderKnows'
  <2>1. (reader.header <=> index # << >>)'
    BY <1>1, <1>2 DEF ReaderKnows, Unreadable
  <2>2. reader'.complete <=> IsEnd(i)
    BY DEF IsEnd
  <2>3. (reader.complete <=> \E n \in DOMAIN index : IsEnd(index[n].block))'
    <3>1. \A n \in DOMAIN index : ~ IsEnd(index[n].block)
      BY <1>1 DEF ReaderKnows
    <3> QED BY <1>2, <1>8, <2>2, <3>1
  <2>4. (reader.step # "raised" =>
           \A j \in DOMAIN medium : Covered(j) =>
              /\ Readable(j) => Seen(j)
              /\ IsEnd(j) => reader.complete)'
    <3> SUFFICES ASSUME NEW j \in DOMAIN medium, Until(j) <= reader'.offset
                 PROVE  (Readable(j) => Seen(j)') /\ (IsEnd(j) => reader'.complete)
      BY <1>1, <1>8, <1>9
    <3>1. CASE j = i
      BY <3>1, <1>10, <2>2
    <3>2. CASE medium[j].kind = "blank"
      BY <3>2 DEF Readable, IsEnd
    <3>3. CASE Covered(j)
      BY <3>3, <1>1, <1>10 DEF ReaderKnows
    <3> QED BY <1>4, <3>1, <3>2, <3>3
  <2>5. (reader.step # "raised" /\ face = "binary" /\ reader.complete =>
           \E n \in DOMAIN index : EndOf(index[n].block) = reader.offset)'
    BY <1>1, <1>2, <1>3 DEF EndOf
  <2>6. reader'.opened <= grown'
    BY <1>1 DEF ReaderKnows
  <2> QED BY <2>1, <2>3, <2>4, <2>5, <2>6 DEF ReaderKnows
<1>14. ReaderReports'
  BY <1>1 DEF ReaderReports
<1>15. LinesRead'
  <2> SUFFICES ASSUME face = "jsonl", NEW j \in DOMAIN medium, Begun(j)'
               PROVE  Covered(j)' /\ ~ BehindAll(j)'
    BY <1>1 DEF LinesRead
  <2>1. /\ medium[j].kind # "blank" /\ starts[j] < reader'.offset /\ j <= i /\ j \in Nat
        /\ j = i \/ Begun(j)
    BY <1>1, <1>4 DEF Begun
  <2>2. Covered(j)'
    <3>1. reader.step = "next" => (Begun(j) => Covered(j))
      BY <1>1 DEF LinesRead
    <3>2. reader.step = "next"
      BY DEF PlacesInv, ReaderPlaced
    <3> QED BY <1>4, <1>9, <2>1, <3>1, <3>2
  <2>3. ~ BehindAll(j)'
    BY <1>2, <1>3, <2>1 DEF BehindAll
  <2> QED BY <2>2, <2>3
<1>16. EndKnown'
  BY DEF EndKnown
<1> QED BY <1>11, <1>12, <1>13, <1>14, <1>15, <1>16 DEF ReadInv

-------------------------------------------------------------------------------

LEMMA ReadOpens == PlacesInv /\ ReadInv /\ Open => ReadInv'
<1> SUFFICES ASSUME PlacesInv, ReadInv, Open PROVE ReadInv'
  OBVIOUS
<1>1. /\ reader \in ReaderType /\ reader.step = "new" /\ grown \in Nat /\ reader.offset \in Nat
      /\ UNCHANGED <<handed, grown, index>> /\ ReaderReports /\ LinesRead
  BY ReaderTyped DEF Open, ReadInv
<1>2. CASE reader' = [reader EXCEPT !.step = "next", !.opened = grown]
  <2>1. /\ reader'.step = "next" /\ reader'.opened = grown /\ reader'.header = reader.header
        /\ reader'.complete = reader.complete /\ reader'.strict = reader.strict
        /\ reader'.offset = reader.offset /\ reader'.truncated = reader.truncated
        /\ reader'.found = reader.found
    BY <1>1, <1>2 DEF ReaderType
  <2>2. LinesRead'
    BY <1>1, <2>1 DEF LinesRead, Begun, Covered, Until, EndOf, BehindAll, handed
  <2> QED BY <1>1, <2>1, <2>2, ReadGoesOn DEF Covered
<1>3. CASE reader' = Raised(reader, "structural")
  <2>1. /\ Same(reader, reader') /\ reader'.step = "raised"
        /\ reader'.offset = reader.offset /\ reader'.truncated = reader.truncated
    BY <1>1, <1>3, RaisedKeeps
  <2> QED BY <1>1, <2>1, ReadRaises DEF ReaderReports
<1> QED BY <1>2, <1>3 DEF Open

\* A file that ends in the block the reader stands at has no whole block behind that.
LEMMA ReadCut ==
    ASSUME PlacesInv, ReadInv, UNCHANGED <<handed, grown, index>>,
           face = "binary", reader.step \in {"next", "content"}, ~ reader.complete,
           NEW i \in DOMAIN medium, starts[i] = reader.offset,
           reader.offset < grown, grown < EndOf(i), reader' = TruncatedAt(reader)
    PROVE  ReadInv'
<1>1. /\ reader \in ReaderType /\ reader.offset \in Nat /\ grown \in Nat
      /\ BlocksKnown /\ ReaderReports
  BY ReaderTyped DEF ReadInv
<1>2. /\ Same(reader, reader') /\ reader'.offset = reader.offset /\ reader'.truncated
      /\ reader'.found = reader.found \cup {"truncated"}
      /\ reader'.step = IF reader.strict THEN "raised" ELSE "stopped"
  BY <1>1, TruncatedKeeps
<1>3. CASE reader.strict
  BY <1>1, <1>2, <1>3, ReadRaises
<1>4. CASE ~ reader.strict
  <2>1. ASSUME NEW j \in DOMAIN medium, Whole(j)
        PROVE  Covered(j)
    <3>1. /\ j \in Nat /\ EndOf(j) \in Nat /\ Until(j) = EndOf(j)
          /\ i \in Nat /\ EndOf(i) \in Nat
      BY <1>1, UntilPlaced
    <3>2. j < i
      <4>1. j # i
        BY <2>1, <3>1, <1>1 DEF Whole
      <4>2. i < j => EndOf(i) <= starts[j] /\ starts[j] < EndOf(j) /\ starts[j] \in Nat
        BY <1>1, PlacesOrdered, UntilPlaced
      <4> QED BY <2>1, <3>1, <4>1, <4>2, <1>1 DEF Whole
    <3> QED BY <1>1, <3>1, <3>2, PlacesOrdered DEF Covered
  <2>2. EndsInBlock
    <3>1. Until(i) = EndOf(i) /\ medium[i].kind # "blank" /\ EndOf(i) \in Nat
      BY <1>1, UntilPlaced
    <3>2. ~ Whole(i)
      BY <1>1, <3>1 DEF Whole
    <3> QED BY <3>1, <3>2 DEF EndsInBlock
  <2>3. \A j \in DOMAIN medium : Until(j) <= reader'.offset => Covered(j)
    BY <1>2 DEF Covered
  <2> QED BY <1>1, <1>2, <1>4, <2>1, <2>2, <2>3, ReadStops
<1> QED BY <1>3, <1>4

LEMMA ReadsFrame == PlacesInv /\ ReadInv /\ ReadFrame => ReadInv'
<1> SUFFICES ASSUME PlacesInv, ReadInv, ReadFrame PROVE ReadInv'
  OBVIOUS
<1>1. /\ reader \in ReaderType /\ reader.offset \in Nat /\ grown \in Nat /\ total \in Nat
      /\ grown <= total /\ reader.offset <= grown /\ Boundary(reader.offset)
      /\ face = "binary" /\ reader.step = "next" /\ ~ reader.complete
      /\ FrameSize \in Nat \ {0} /\ UNCHANGED <<handed, grown, index>>
      /\ BlocksKnown /\ ReaderReports
  BY ReaderTyped, SizesAssumption DEF PlacesInv, ReaderPlaced, ReadFrame, Ready, ReadInv
<1>2. ~ reader.truncated /\ "trailing" \notin reader.found /\ (reader.strict => reader.found = {})
  BY <1>1 DEF ReaderReports
<1>3. CASE reader' = Raised(reader, "structural")
  <2>1. /\ Same(reader, reader') /\ reader'.step = "raised"
        /\ reader'.offset = reader.offset /\ reader'.truncated = reader.truncated
    BY <1>1, <1>3, RaisedKeeps
  <2> QED BY <1>1, <1>2, <2>1, ReadRaises
<1>4. CASE reader.offset = grown /\ reader' = Stopped(reader)
  <2>1. /\ Same(reader, reader') /\ reader'.step = "stopped" /\ reader'.offset = reader.offset
        /\ reader'.truncated = reader.truncated /\ reader'.found = reader.found
    BY <1>1, <1>4, StoppedKeeps
  <2>2. ~ EndsInBlock
    <3>1. ASSUME NEW i \in DOMAIN medium, starts[i] < grown
          PROVE  Whole(i)
      <4>1. EndOf(i) <= grown
        BY <1>1, <1>4, <3>1, BoundaryCovers
      <4>2. Until(i) = EndOf(i)
        BY <1>1, UntilPlaced
      <4> QED BY <4>1, <4>2 DEF Whole
    <3> QED BY <3>1 DEF EndsInBlock
  <2>3. \A i \in DOMAIN medium : (Whole(i) => Covered(i)) /\ (Until(i) <= reader'.offset => Covered(i))
    BY <1>4, <2>1 DEF Whole, Covered
  <2> QED BY <1>1, <1>2, <2>1, <2>2, <2>3, ReadStops
<1>5. CASE reader.offset < grown /\ grown - reader.offset < FrameSize /\ reader' = TruncatedAt(reader)
  <2>1. PICK i \in DOMAIN medium : i = BlockAt(reader.offset) /\ starts[i] = reader.offset
    BY <1>1, <1>5, BlockAtBoundary DEF PlacesInv
  <2>2. /\ FrameSize < medium[i].size /\ EndOf(i) = starts[i] + medium[i].size
        /\ medium[i].size \in Nat
    BY <1>1, UntilPlaced, BlockHasPlace DEF EndOf, PlacesInv
  <2>3. grown < EndOf(i)
    BY <1>1, <1>5, <2>1, <2>2
  <2> QED BY <1>1, <1>5, <2>1, <2>3, ReadCut
<1>6. CASE /\ reader.offset < grown /\ medium[BlockAt(reader.offset)].form # "misframed"
           /\ reader' = [reader EXCEPT !.step = "content"]
  <2>1. /\ reader'.step = "content" /\ reader'.opened = reader.opened /\ reader'.header = reader.header
        /\ reader'.complete = reader.complete /\ reader'.strict = reader.strict
        /\ reader'.offset = reader.offset /\ reader'.truncated = reader.truncated
        /\ reader'.found = reader.found
    BY <1>1, <1>6 DEF ReaderType
  <2>2. LinesRead' /\ reader.opened <= grown
    BY <1>1, <2>1 DEF LinesRead, handed, ReadInv, ReaderKnows
  <2>3. \A i \in DOMAIN medium : starts[i] = reader.offset => medium[i].form # "misframed"
    BY <1>1, <1>6, BlockAtBoundary, PlacesDiffer, BlockHasPlace DEF PlacesInv
  <2> QED BY <1>1, <2>1, <2>2, <2>3, ReadGoesOn DEF Covered
<1>7. \/ reader' = Raised(reader, "structural")
      \/ reader.offset = grown /\ reader' = Stopped(reader)
      \/ reader.offset < grown /\ grown - reader.offset < FrameSize /\ reader' = TruncatedAt(reader)
      \/ /\ reader.offset < grown /\ medium[BlockAt(reader.offset)].form # "misframed"
         /\ reader' = [reader EXCEPT !.step = "content"]
  <2>1. CASE grown - reader.offset = 0
    BY <2>1, <1>1 DEF ReadFrame
  <2>2. CASE grown - reader.offset > 0 /\ grown - reader.offset < FrameSize
    BY <2>2, <1>1 DEF ReadFrame
  <2>3. CASE grown - reader.offset > 0 /\ grown - reader.offset >= FrameSize
    BY <2>3, <1>1 DEF ReadFrame
  <2> QED BY <1>1, <2>1, <2>2, <2>3
<1> QED BY <1>3, <1>4, <1>5, <1>6, <1>7

LEMMA ReadsBehindEnd == PlacesInv /\ ReadInv /\ ReadBehindEnd => ReadInv'
<1> SUFFICES ASSUME PlacesInv, ReadInv, ReadBehindEnd PROVE ReadInv'
  OBVIOUS
<1>1. /\ reader \in ReaderType /\ reader.offset \in Nat /\ grown \in Nat /\ total \in Nat
      /\ grown <= total /\ reader.offset <= grown /\ Boundary(reader.offset)
      /\ face = "binary" /\ reader.step = "next" /\ reader.complete
      /\ UNCHANGED <<handed, grown, index>>
      /\ BlocksKnown /\ ReaderReports /\ ReaderKnows
  BY ReaderTyped DEF PlacesInv, ReaderPlaced, ReadBehindEnd, ReadInv
<1>2. ~ reader.truncated /\ "trailing" \notin reader.found /\ (reader.strict => reader.found = {})
  BY <1>1 DEF ReaderReports
\* The End block ends where the reader stands.
<1>3. PICK n \in DOMAIN index : EndOf(index[n].block) = reader.offset
  BY <1>1 DEF ReaderKnows
<1>4. \A m \in DOMAIN index : index[m].block \in DOMAIN medium /\ Covered(index[m].block)
  BY DEF ReadInv, EntryInOrder
<1>5. ASSUME NEW i \in DOMAIN medium
      PROVE  BehindAll(i) <=> reader.offset <= starts[i]
  <2>1. ASSUME reader.offset <= starts[i], NEW m \in DOMAIN index
        PROVE  index[m].block < i
    <3>1. PICK j \in DOMAIN medium : j = index[m].block
      BY <1>4
    <3>2. /\ j \in Nat /\ i \in Nat /\ starts[j] \in Nat /\ starts[i] \in Nat /\ EndOf(j) \in Nat
          /\ starts[j] < EndOf(j) /\ Until(j) = EndOf(j)
      BY <1>1, UntilPlaced
    <3>3. EndOf(j) <= reader.offset
      BY <1>4, <3>1, <3>2 DEF Covered
    <3>4. starts[j] < starts[i]
      BY <1>1, <2>1, <3>2, <3>3
    <3> QED BY <1>1, <3>1, <3>4, PlacesOrdered
  <2>2. BehindAll(i) => reader.offset <= starts[i]
    <3>1. PICK j \in DOMAIN medium : j = index[n].block
      BY <1>4
    <3> QED BY <1>1, <1>3, <3>1, PlacesOrdered DEF BehindAll
  <2> QED BY <2>1, <2>2 DEF BehindAll
<1>6. \A i \in DOMAIN medium : starts[i] \in Nat /\ medium[i].kind # "blank"
  BY <1>1, UntilPlaced
<1>7. CASE grown > reader.offset /\ reader' = Trailing(reader)
  <2>1. /\ Same(reader, reader') /\ reader'.offset = reader.offset
        /\ reader'.truncated = reader.truncated
        /\ reader'.found = reader.found \cup {"trailing"}
        /\ reader'.step = IF reader.strict THEN "raised" ELSE "stopped"
    BY <1>1, <1>7, TrailingKeeps
  <2>2. CASE reader.strict
    BY <1>1, <1>2, <2>1, <2>2, ReadRaises
  <2>3. CASE ~ reader.strict
    <3>1. \E i \in DOMAIN medium : BehindAll(i) /\ medium[i].kind # "blank" /\ starts[i] < grown
      <4>1. PICK i \in DOMAIN medium : i = BlockAt(reader.offset) /\ starts[i] = reader.offset
        BY <1>1, <1>7, BlockAtBoundary DEF PlacesInv
      <4> QED BY <1>1, <1>5, <1>6, <1>7, <4>1
    <3>2. \A i \in DOMAIN medium : Until(i) <= reader'.offset => Covered(i)
      BY <2>1 DEF Covered
    <3> QED BY <1>1, <1>2, <2>1, <2>3, <3>1, <3>2, ReadStops
  <2> QED BY <2>2, <2>3
<1>8. CASE ~ (grown > reader.offset) /\ reader' = Stopped(reader)
  <2>1. /\ Same(reader, reader') /\ reader'.step = "stopped" /\ reader'.offset = reader.offset
        /\ reader'.truncated = reader.truncated /\ reader'.found = reader.found
    BY <1>1, <1>8, StoppedKeeps
  <2>2. ~ \E i \in DOMAIN medium : BehindAll(i) /\ medium[i].kind # "blank" /\ starts[i] < grown
    BY <1>1, <1>5, <1>6, <1>8
  <2>3. \A i \in DOMAIN medium : Until(i) <= reader'.offset => Covered(i)
    BY <2>1 DEF Covered
  <2> QED BY <1>1, <1>2, <2>1, <2>2, <2>3, ReadStops
<1> QED BY <1>7, <1>8 DEF ReadBehindEnd

LEMMA ReadsContent == PlacesInv /\ ReadInv /\ ReadContent => ReadInv'
<1> SUFFICES ASSUME PlacesInv, ReadInv, ReadContent PROVE ReadInv'
  OBVIOUS
<1>1. /\ reader \in ReaderType /\ reader.offset \in Nat /\ grown \in Nat /\ total \in Nat
      /\ face = "binary" /\ reader.step = "content" /\ reader.offset < grown /\ grown <= total
      /\ Boundary(reader.offset) /\ reader.position = reader.offset
      /\ UNCHANGED <<handed, grown>> /\ BlocksKnown /\ ReaderReports /\ ReaderKnows
  BY ReaderTyped DEF PlacesInv, ReaderPlaced, ReadContent, ReadInv
<1>2. /\ ~ reader.truncated /\ "trailing" \notin reader.found /\ (reader.strict => reader.found = {})
      /\ ~ reader.complete
  BY <1>1 DEF ReaderReports, ReaderKnows
<1>3. PICK i \in DOMAIN medium : i = BlockAt(reader.offset) /\ starts[i] = reader.offset
  BY <1>1, BlockAtBoundary DEF PlacesInv
<1>4. /\ i \in Nat /\ EndOf(i) \in Nat /\ starts[i] < EndOf(i) /\ Until(i) = EndOf(i)
      /\ medium[i].kind # "blank" /\ medium[i].form # "garbled" /\ medium[i].size \in Nat
      /\ EndOf(i) = reader.offset + medium[i].size
  BY <1>1, <1>3, UntilPlaced, BlockHasPlace DEF PlacesInv, EndOf
<1>5. PICK isolated \in BOOLEAN : isolated = (medium[i].form = "invalid")
  OBVIOUS
<1>6. PICK read \in ReaderType : read = [reader EXCEPT !.step = "next", !.offset = EndOf(i)]
  BY <1>1, <1>4 DEF ReaderType
<1>7. /\ Same(reader, read) /\ read.offset = EndOf(i) /\ read.step = "next"
      /\ read.truncated = reader.truncated /\ read.found = reader.found
  BY <1>1, <1>6 DEF ReaderType, Same
<1>8. PICK noted \in ReaderType :
         /\ noted = (IF isolated THEN Noted(read, "invalid", "semantic") ELSE read)
         /\ Same(read, noted) /\ noted.offset = read.offset /\ noted.truncated = read.truncated
         /\ noted.found \subseteq read.found \cup {"invalid"}
         /\ noted.step \in {"next", "raised"}
         /\ read.strict /\ noted.step = "next" => noted.found = read.found
  <2>1. CASE isolated
    <3>1. Noted(read, "invalid", "semantic") \in ReaderType
      BY ReaderEnds
    <3>2. LET s == Noted(read, "invalid", "semantic")
          IN  /\ Same(read, s) /\ s.offset = read.offset /\ s.truncated = read.truncated
              /\ s.found = read.found \cup {"invalid"}
              /\ s.step = IF read.strict THEN "raised" ELSE read.step
      BY NotedKeeps
    <3> QED BY <2>1, <3>1, <3>2, <1>7
  <2>2. CASE ~ isolated
    BY <2>2, <1>7 DEF Same
  <2> QED BY <2>1, <2>2
<1>9. CASE ContentIsShort(i)
  <2>1. reader' = TruncatedAt(reader) /\ UNCHANGED index
    BY <1>3, <1>9 DEF ReadContent
  <2>2. grown < EndOf(i)
    BY <1>9 DEF ContentIsShort
  <2> QED BY <1>1, <1>2, <1>3, <2>1, <2>2, ReadCut
<1>10. CASE ~ ContentIsShort(i) /\ Unreadable(i)
  <2>1. reader' = Raised(read, "structural") /\ UNCHANGED index
    BY <1>3, <1>6, <1>10 DEF ReadContent
  <2>2. /\ Same(read, reader') /\ reader'.step = "raised"
        /\ reader'.offset = read.offset /\ reader'.truncated = read.truncated
    BY <2>1, RaisedKeeps
  <2> QED BY <1>1, <1>2, <1>3, <1>4, <1>7, <2>1, <2>2, ReadRaises DEF Same
<1>11. CASE ~ ContentIsShort(i) /\ ~ Unreadable(i) /\ noted.step = "raised"
  <2>1. reader' = noted /\ UNCHANGED index
    BY <1>3, <1>5, <1>6, <1>8, <1>11 DEF ReadContent
  <2> QED BY <1>1, <1>2, <1>3, <1>4, <1>7, <1>8, <1>11, <2>1, ReadRaises DEF Same
<1>12. CASE ~ ContentIsShort(i) /\ ~ Unreadable(i) /\ noted.step # "raised"
  <2>1. /\ reader' = Yielded(noted, i, isolated) /\ noted.step = "next"
        /\ index' = Append(index, Entry(i, isolated))
    BY <1>3, <1>5, <1>6, <1>8, <1>12 DEF ReadContent
  <2>2. PICK entry \in [block : Nat, isolated : BOOLEAN, at : Nat] :
           entry = Entry(i, isolated) /\ entry.block = i /\ entry.isolated = isolated
    <3>1. Entry(i, isolated) = [block |-> i, isolated |-> isolated, at |-> reader.offset]
      BY <1>1 DEF Entry
    <3>2. i \in Nat /\ isolated \in BOOLEAN /\ reader.offset \in Nat
      BY <1>1, <1>4, <1>5
    <3> QED BY ONLY <3>1, <3>2
  <2>3. PICK position \in Nat : position = noted.position + medium[i].size
    BY <1>4, <1>8 DEF ReaderType
  <2>4. PICK header \in BOOLEAN : header = (noted.header \/ medium[i].kind = "header")
    OBVIOUS
  <2>5. PICK complete \in BOOLEAN :
           complete = (noted.complete \/ (medium[i].kind = "end" /\ ~ isolated))
    OBVIOUS
  <2>6. reader' = [noted EXCEPT !.position = position, !.header = header, !.complete = complete]
    BY <2>1, <2>3, <2>4, <2>5 DEF Yielded
  <2>7. /\ reader'.step = "next" /\ reader'.offset = noted.offset /\ reader'.strict = noted.strict
        /\ reader'.opened = noted.opened /\ reader'.truncated = noted.truncated
        /\ reader'.found = noted.found /\ reader'.header = header /\ reader'.complete = complete
    BY <2>1, <2>6 DEF ReaderType
  <2>8. medium[i].form \in {"ok", "invalid"}
    <3>1. medium[i].form # "misframed" /\ medium[i].form # "malformed"
      BY <1>1, <1>3, <1>12 DEF Unreadable, ReaderKnows
    <3>2. medium[i] \in BlockType
      BY DEF PlacesInv, TypeOK
    <3> QED BY <1>4, <3>1, <3>2 DEF BlockType
  <2>9. /\ reader'.header <=> reader.header \/ medium[i].kind = "header"
        /\ reader'.complete <=> reader.complete \/ (medium[i].kind = "end" /\ ~ entry.isolated)
    <3>1. noted.header = reader.header /\ noted.complete = reader.complete
      BY <1>7, <1>8 DEF Same
    <3> QED BY <3>1, <2>2, <2>4, <2>5, <2>7
  <2>10. /\ reader'.strict = reader.strict /\ reader'.opened = reader.opened
         /\ reader'.truncated = reader.truncated /\ reader'.offset = EndOf(i)
         /\ "trailing" \in reader'.found => "trailing" \in reader.found
         /\ reader.strict => reader'.found = {}
    BY <1>2, <1>7, <1>8, <2>1, <2>7 DEF Same
  <2> QED BY <1>1, <1>2, <1>3, <1>4, <1>5, <1>12, <2>1, <2>2, <2>7, <2>8, <2>9, <2>10, ReadYields
<1> QED BY <1>9, <1>10, <1>11, <1>12

-------------------------------------------------------------------------------

LEMMA ReadsLine == PlacesInv /\ ReadInv /\ ReadLine => ReadInv'
<1> SUFFICES ASSUME PlacesInv, ReadInv, ReadLine PROVE ReadInv'
  OBVIOUS
<1>1. /\ reader \in ReaderType /\ reader.offset \in Nat /\ grown \in Nat /\ total \in Nat
      /\ reader.offset < grown /\ grown <= total
      /\ face = "jsonl" /\ reader.step = "next" /\ UNCHANGED <<handed, grown>>
      /\ BlocksKnown /\ ReaderReports /\ ReaderKnows /\ LinesRead
      /\ reader.opened <= grown
  BY ReaderTyped DEF ReadLine, ReadInv, ReaderKnows
<1>2. ~ reader.truncated /\ "trailing" \notin reader.found /\ (reader.strict => reader.found = {})
  BY <1>1 DEF ReaderReports
<1>3. PICK i \in DOMAIN medium : /\ i = BlockAt(reader.offset)
                                 /\ starts[i] <= reader.offset /\ reader.offset < EndOf(i)
  BY <1>1, BlockAtPart DEF PlacesInv
<1>4. /\ i \in Nat /\ starts[i] \in Nat /\ EndOf(i) \in Nat /\ Until(i) = EndOf(i) - 1
      /\ Until(i) \in Nat /\ medium[i].form # "misframed" /\ medium[i].size \in Nat
      /\ medium[i].kind # "blank" => starts[i] < Until(i)
  BY <1>1, UntilPlaced, BlockHasPlace DEF PlacesInv
<1>5. /\ LineEnd(i) \in Nat /\ reader.offset < LineEnd(i)
      /\ LineEnd(i) <= grown /\ LineEnd(i) <= EndOf(i)
      /\ LineEnd(i) < EndOf(i) => LineEnd(i) = grown
  BY <1>1, <1>3, <1>4 DEF LineEnd
<1>6. PICK read \in ReaderType : read = [reader EXCEPT !.offset = LineEnd(i), !.lines = TRUE]
  BY <1>1, <1>5 DEF ReaderType
<1>7. /\ Same(reader, read) /\ read.offset = LineEnd(i) /\ read.step = "next"
      /\ read.truncated = reader.truncated /\ read.found = reader.found
  BY <1>1, <1>6 DEF ReaderType, Same
\* The rest of line i covers line i at most.
<1>8. ASSUME NEW j \in DOMAIN medium
      PROVE  /\ j \in Nat
             /\ medium[j].kind # "blank" /\ Until(j) <= LineEnd(i) => j = i \/ Covered(j)
             /\ medium[j].kind # "blank" /\ starts[j] < LineEnd(i) => j = i \/ Begun(j)
  <2>1. /\ medium[j].kind # "blank" /\ Until(j) <= LineEnd(i) => j = i \/ Until(j) <= reader.offset
        /\ starts[j] < LineEnd(i) => j = i \/ starts[j] < reader.offset
    BY <1>1, <1>3, <1>5, AdvanceCovers
  <2> QED BY <1>1, <2>1, UntilPlaced DEF Covered, Begun
<1>9. \A j \in DOMAIN medium : Begun(j) => Covered(j) /\ (reader.complete => ~ BehindAll(j))
  BY <1>1 DEF LinesRead
<1>10. CASE EndsInCharacter(i)
  <2>1. reader' = Raised(reader, "decoding") /\ UNCHANGED index
    BY <1>3, <1>6, <1>10 DEF ReadLine
  <2>2. /\ Same(reader, reader') /\ reader'.step = "raised"
        /\ reader'.offset = reader.offset /\ reader'.truncated = reader.truncated
    BY <1>1, <2>1, RaisedKeeps
  <2> QED BY <1>1, <1>2, <2>1, <2>2, ReadRaises
<1>11. CASE ~ EndsInCharacter(i) /\ IsBlank(i)
  <2>1. reader' = read /\ UNCHANGED index
    BY <1>3, <1>6, <1>11 DEF ReadLine
  <2>2. medium[i].kind # "blank" => Begun(i) /\ Covered(i)
    BY <1>9, <1>11 DEF IsBlank, Begun
  <2>3. \A j \in DOMAIN medium : medium[j].kind # "blank" =>
           /\ Until(j) <= LineEnd(i) => Covered(j)
           /\ starts[j] < LineEnd(i) => Begun(j)
    BY <1>8, <2>2
  <2>4. LinesRead'
    <3>1. ASSUME NEW j \in DOMAIN medium, Begun(j)'
          PROVE  Covered(j)' /\ (reader'.complete => ~ BehindAll(j)')
      <4>1. Begun(j)
        BY <1>1, <1>7, <2>1, <2>3, <3>1 DEF Begun, handed
      <4>2. Until(j) <= reader.offset /\ Until(j) \in Nat
        BY <1>1, <1>9, <4>1, UntilPlaced DEF Covered
      <4>3. Covered(j)'
        BY <1>1, <1>5, <1>7, <2>1, <4>2 DEF Covered, Until, EndOf, handed
      <4> QED BY <1>7, <1>9, <2>1, <4>1, <4>3 DEF BehindAll, Same
    <3> QED BY <1>1, <1>7, <2>1, <3>1 DEF LinesRead, handed
  <2>5. \A j \in DOMAIN medium : Until(j) <= reader'.offset =>
           Covered(j) \/ (~ Readable(j) /\ ~ (IsEnd(j) /\ ~ reader.complete))
    BY <1>7, <2>1, <2>3 DEF Readable, IsEnd
  <2> QED BY <1>1, <1>5, <1>7, <2>1, <2>4, <2>5, ReadGoesOn DEF Same
\* From here on the line has content, and the reader is where it begins.
<1>12. CASE ~ EndsInCharacter(i) /\ ~ IsBlank(i)
  <2>1. medium[i].kind # "blank" /\ starts[i] = reader.offset /\ ~ Covered(i)
    BY <1>1, <1>3, <1>4, <1>12 DEF IsBlank, Covered
  <2>2. CASE reader.complete
    <3>1. reader' = Trailing(read) /\ UNCHANGED index
      BY <1>3, <1>6, <1>12, <2>2 DEF ReadLine
    <3>2. /\ Same(read, reader') /\ reader'.offset = read.offset
          /\ reader'.truncated = read.truncated
          /\ reader'.found = read.found \cup {"trailing"}
          /\ reader'.step = IF read.strict THEN "raised" ELSE "stopped"
      BY <3>1, TrailingKeeps
    <3>3. CASE reader.strict
      BY <1>1, <1>2, <1>5, <1>7, <3>1, <3>2, <3>3, ReadRaises DEF Same
    <3>4. CASE ~ reader.strict
      <4>1. BehindAll(i)
        <5> SUFFICES ASSUME NEW n \in DOMAIN index PROVE index[n].block < i
          BY DEF BehindAll
        <5>1. PICK j \in DOMAIN medium : j = index[n].block /\ Covered(j) /\ Readable(j)
          BY DEF ReadInv, EntryInOrder
        <5>2. medium[j].kind # "blank"
          BY <5>1 DEF Readable
        <5>3. starts[j] < Until(j) /\ Until(j) <= starts[i] /\ starts[j] \in Nat /\ Until(j) \in Nat
          BY <1>1, <2>1, <5>1, <5>2, UntilPlaced DEF Covered
        <5>4. starts[j] < starts[i]
          BY <1>4, <5>3
        <5> QED BY <1>1, <5>1, <5>4, PlacesOrdered
      <4>2. ~ Readable(i)
        <5>1. PICK n \in DOMAIN index : IsEnd(index[n].block) /\ index[n].block \in DOMAIN medium
          BY <1>1, <2>2 DEF ReaderKnows, ReadInv, EntryInOrder
        <5>2. index[n].block \in 1 .. i - 1
          BY <1>1, <1>4, <4>1, <5>1, UntilPlaced DEF BehindAll, PlacesInv, TypeOK
        <5> QED BY <5>1, <5>2 DEF Readable, IsEnd
      <4>3. \A j \in DOMAIN medium : Until(j) <= reader'.offset => Covered(j) \/ ~ Readable(j)
        BY <1>7, <1>8, <3>2, <4>2 DEF Readable
      <4>4. starts[i] < grown
        BY <1>1, <2>1
      <4>5. /\ reader'.step = "stopped" /\ Same(reader, reader') /\ reader'.offset = LineEnd(i)
            /\ ~ reader'.truncated /\ "trailing" \in reader'.found
        BY <1>2, <1>7, <3>2, <3>4 DEF Same
      <4> QED BY <1>1, <1>5, <2>1, <2>2, <3>1, <3>4, <4>1, <4>3, <4>4, <4>5, ReadStops
    <3> QED BY <3>3, <3>4
  <2>3. CASE ~ reader.complete /\ Decodes(i)
    <3>1. Parsed(read, i)
      BY <1>3, <1>6, <1>12, <2>3 DEF ReadLine
    <3>2. Until(i) <= LineEnd(i) /\ medium[i].form # "garbled"
      BY <1>4, <1>5, <2>3 DEF Decodes
    <3>3. CASE Unreadable(i)
      <4>1. reader' = Raised(read, "structural") /\ UNCHANGED index
        BY <3>1, <3>3 DEF Parsed
      <4>2. /\ Same(read, reader') /\ reader'.step = "raised"
            /\ reader'.offset = read.offset /\ reader'.truncated = read.truncated
        BY <4>1, RaisedKeeps
      <4> QED BY <1>1, <1>2, <1>5, <1>7, <4>1, <4>2, ReadRaises DEF Same
    <3>4. CASE ~ Unreadable(i) /\ medium[i].form = "invalid"
      <4>1. reader' = Noted(read, "invalid", "semantic") /\ UNCHANGED index
        BY <3>1, <3>4 DEF Parsed
      <4>2. /\ Same(read, reader') /\ reader'.offset = read.offset
            /\ reader'.truncated = read.truncated
            /\ reader'.found = read.found \cup {"invalid"}
            /\ reader'.step = IF read.strict THEN "raised" ELSE read.step
        BY <4>1, NotedKeeps
      <4>3. CASE reader.strict
        BY <1>1, <1>2, <1>5, <1>7, <4>1, <4>2, <4>3, ReadRaises DEF Same
      <4>4. CASE ~ reader.strict
        <5>1. \A j \in DOMAIN medium : Until(j) <= reader'.offset =>
                 Covered(j) \/ (~ Readable(j) /\ ~ (IsEnd(j) /\ ~ reader.complete))
          BY <1>1, <1>7, <1>8, <3>4, <4>2 DEF Readable, IsEnd
        <5>2. LinesRead'
          <6>1. ASSUME NEW j \in DOMAIN medium, Begun(j)'
                PROVE  Covered(j)'
            <7>1. Until(j) <= LineEnd(i)
              <8>1. j = i \/ Begun(j)
                BY <1>1, <1>7, <1>8, <4>2, <6>1 DEF Begun, handed
              <8>2. CASE Begun(j)
                BY <1>1, <1>5, <1>9, <8>2, UntilPlaced DEF Covered
              <8> QED BY <3>2, <8>1, <8>2
            <7> QED BY <1>1, <1>7, <4>2, <7>1 DEF Covered, Until, EndOf, handed
          <6> QED BY <1>1, <1>7, <2>3, <4>2, <4>4, <6>1 DEF LinesRead, Same, handed
        <5>3. /\ reader'.step = "next" /\ Same(reader, reader') /\ reader'.offset = LineEnd(i)
              /\ reader'.truncated = reader.truncated
              /\ "trailing" \in reader'.found => "trailing" \in reader.found
          BY <1>7, <4>2, <4>4 DEF Same
        <5> QED BY <1>1, <1>5, <4>1, <4>4, <5>1, <5>2, <5>3, ReadGoesOn DEF Same
      <4> QED BY <4>3, <4>4
    <3>5. CASE ~ Unreadable(i) /\ medium[i].form # "invalid"
      <4>1. reader' = Yielded(read, i, FALSE) /\ index' = Append(index, Entry(i, FALSE))
        BY <3>1, <3>5 DEF Parsed
      <4>2. PICK entry \in [block : Nat, isolated : BOOLEAN, at : Nat] :
               entry = Entry(i, FALSE) /\ entry.block = i /\ entry.isolated = FALSE
        <5>1. Entry(i, FALSE) = [block |-> i, isolated |-> FALSE, at |-> reader.position]
          BY DEF Entry
        <5>2. i \in Nat /\ FALSE \in BOOLEAN /\ reader.position \in Nat
          BY <1>4, ReaderTyped
        <5>3. ASSUME NEW f \in BOOLEAN
              PROVE  [block |-> i, isolated |-> f, at |-> reader.position] \in
                        [block : Nat, isolated : BOOLEAN, at : Nat]
          BY <5>2
        <5>4. Entry(i, FALSE) \in [block : Nat, isolated : BOOLEAN, at : Nat]
          BY <5>1, <5>2, <5>3
        <5> QED BY <5>1, <5>4
      <4>3. PICK position \in Nat : position = read.position + medium[i].size
        BY <1>4 DEF ReaderType
      <4>4. PICK header \in BOOLEAN : header = (read.header \/ medium[i].kind = "header")
        OBVIOUS
      <4>5. PICK complete \in BOOLEAN :
               complete = (read.complete \/ (medium[i].kind = "end" /\ ~ FALSE))
        OBVIOUS
      <4>6. reader' = [read EXCEPT !.position = position, !.header = header, !.complete = complete]
        BY <4>1, <4>3, <4>4, <4>5 DEF Yielded
      <4>7. /\ reader'.step = read.step /\ reader'.offset = read.offset /\ reader'.strict = read.strict
            /\ reader'.opened = read.opened /\ reader'.truncated = read.truncated
            /\ reader'.found = read.found /\ reader'.header = header /\ reader'.complete = complete
        BY <4>6 DEF ReaderType
      <4>8. medium[i].form = "ok"
        <5>1. medium[i].form # "malformed"
          BY <3>5 DEF Unreadable
        <5>2. medium[i] \in BlockType
          BY DEF PlacesInv, TypeOK
        <5> QED BY <1>4, <3>2, <3>5, <5>1, <5>2 DEF BlockType
      <4>9. /\ reader'.header <=> reader.header \/ medium[i].kind = "header"
            /\ reader'.complete <=> reader.complete \/ (medium[i].kind = "end" /\ ~ entry.isolated)
        BY <1>7, <4>2, <4>4, <4>5, <4>7 DEF Same
      <4>10. /\ reader'.step = "next" /\ reader'.strict = reader.strict /\ reader'.opened = reader.opened
             /\ reader'.truncated = reader.truncated /\ reader'.offset = LineEnd(i)
             /\ reader'.found = reader.found
        BY <1>7, <4>7 DEF Same
      <4> QED BY <1>1, <1>2, <1>5, <2>1, <2>3, <3>2, <3>5, <4>1, <4>2, <4>8, <4>9, <4>10, ReadYields
    <3> QED BY <3>3, <3>4, <3>5
  <2>4. CASE ~ reader.complete /\ ~ Decodes(i)
    <3>1. reader' = [read EXCEPT !.step = "undecodable"] /\ UNCHANGED index
      BY <1>3, <1>6, <1>12, <2>4 DEF ReadLine
    <3>2. /\ reader'.step = "undecodable" /\ Same(read, reader') /\ reader'.offset = read.offset
          /\ reader'.truncated = read.truncated /\ reader'.found = read.found
      BY <3>1 DEF ReaderType, Same
    <3>3. medium[i].form = "garbled" \/ LineEnd(i) < Until(i)
      BY <1>4, <1>5, <2>4 DEF Decodes
    <3>4. LinesRead'
      <4>1. Begun(i)' /\ (medium'[i].form = "garbled" \/ ~ Covered(i)')
        BY <1>1, <1>4, <1>5, <1>7, <2>1, <3>2, <3>3 DEF Begun, Covered, Until, EndOf, handed
      <4> QED BY <1>1, <3>2, <4>1 DEF LinesRead, handed
    <3>5. \A j \in DOMAIN medium : Until(j) <= reader'.offset =>
             Covered(j) \/ (~ Readable(j) /\ ~ (IsEnd(j) /\ ~ reader.complete))
      BY <1>1, <1>4, <1>5, <1>7, <1>8, <3>2, <3>3 DEF Readable, IsEnd
    <3> QED BY <1>1, <1>5, <1>7, <2>4, <3>1, <3>2, <3>4, <3>5, ReadGoesOn DEF Same
  <2> QED BY <2>2, <2>3, <2>4
<1> QED BY <1>10, <1>11, <1>12

LEMMA ReadsNoLine == PlacesInv /\ ReadInv /\ ReadNoLine => ReadInv'
<1> SUFFICES ASSUME PlacesInv, ReadInv, ReadNoLine PROVE ReadInv'
  OBVIOUS
<1>1. /\ reader \in ReaderType /\ reader.offset \in Nat /\ reader.offset = grown
      /\ face = "jsonl" /\ reader.step = "next" /\ UNCHANGED <<handed, grown, index>>
      /\ ReaderReports /\ LinesRead
  BY ReaderTyped DEF ReadNoLine, ReadInv
<1>2. ~ reader.truncated /\ "trailing" \notin reader.found /\ (reader.strict => reader.found = {})
  BY <1>1 DEF ReaderReports
<1>3. CASE reader' = Raised(reader, "structural")
  <2>1. /\ Same(reader, reader') /\ reader'.step = "raised"
        /\ reader'.offset = reader.offset /\ reader'.truncated = reader.truncated
    BY <1>1, <1>3, RaisedKeeps
  <2> QED BY <1>1, <1>2, <2>1, ReadRaises
<1>4. CASE reader' = Stopped(reader)
  <2>1. /\ Same(reader, reader') /\ reader'.step = "stopped" /\ reader'.offset = reader.offset
        /\ reader'.truncated = reader.truncated /\ reader'.found = reader.found
    BY <1>1, <1>4, StoppedKeeps
  <2>2. \A i \in DOMAIN medium : (Whole(i) <=> Covered(i)) /\ (Until(i) <= reader'.offset => Covered(i))
    BY <1>1, <2>1 DEF Whole, Covered
  <2>3. \A i \in DOMAIN medium : medium[i].kind # "blank" /\ starts[i] < grown =>
           Whole(i) /\ (reader.complete => ~ BehindAll(i))
    BY <1>1, <2>2 DEF LinesRead, Begun
  <2>4. ~ EndsInBlock
    BY <2>3 DEF EndsInBlock
  <2> QED BY <1>1, <1>2, <2>1, <2>2, <2>3, <2>4, ReadStops
<1> QED BY <1>3, <1>4 DEF ReadNoLine

LEMMA ReadsPast == PlacesInv /\ ReadInv /\ ReadPast => ReadInv'
<1> SUFFICES ASSUME PlacesInv, ReadInv, ReadPast PROVE ReadInv'
  OBVIOUS
<1>1. /\ reader \in ReaderType /\ reader.offset \in Nat /\ grown \in Nat /\ reader.offset <= grown
      /\ reader.step = "undecodable" /\ ~ reader.complete
      /\ UNCHANGED <<handed, grown, index>> /\ ReaderReports /\ LinesRead /\ BlocksKnown
  BY ReaderTyped DEF ReadPast, ReadInv, ReaderKnows, PlacesInv, ReaderPlaced
<1>2. ~ reader.truncated /\ "trailing" \notin reader.found /\ (reader.strict => reader.found = {})
  BY <1>1 DEF ReaderReports
<1>3. CASE reader' \in {Raised(reader, "decoding"), Raised(reader, "structural")}
  <2>1. /\ Same(reader, reader') /\ reader'.step = "raised"
        /\ reader'.offset = reader.offset /\ reader'.truncated = reader.truncated
    BY <1>1, <1>3, RaisedKeeps
  <2> QED BY <1>1, <1>2, <2>1, ReadRaises
<1>4. CASE reader.offset = grown /\ reader' = TruncatedAt(reader)
  <2>1. /\ Same(reader, reader') /\ reader'.offset = reader.offset /\ reader'.truncated
        /\ reader'.found = reader.found \cup {"truncated"}
        /\ reader'.step = IF reader.strict THEN "raised" ELSE "stopped"
    BY <1>1, <1>4, TruncatedKeeps
  <2>2. CASE reader.strict
    BY <1>1, <2>1, <2>2, ReadRaises
  <2>3. CASE ~ reader.strict
    <3>1. \A i \in DOMAIN medium : (Whole(i) <=> Covered(i)) /\ (Until(i) <= reader'.offset => Covered(i))
      BY <1>1, <1>4, <2>1 DEF Whole, Covered
    <3>2. producer.library => EndsInBlock
      <4>1. PICK i \in DOMAIN medium : Begun(i) /\ (medium[i].form = "garbled" \/ ~ Covered(i))
        BY <1>1 DEF LinesRead
      <4> QED BY <1>1, <1>4, <3>1, <4>1 DEF EndsInBlock, Begun, BlocksKnown
    <3> QED BY <1>1, <1>2, <2>1, <2>3, <3>1, <3>2, ReadStops
  <2> QED BY <2>2, <2>3
<1>5. \/ reader' \in {Raised(reader, "decoding"), Raised(reader, "structural")}
      \/ reader.offset = grown /\ reader' = TruncatedAt(reader)
  <2>1. CASE reader.offset = grown
    BY <2>1 DEF ReadPast
  <2>2. CASE reader.offset < grown
    BY <2>2, <1>1 DEF ReadPast
  <2> QED BY <1>1, <2>1, <2>2
<1> QED BY <1>3, <1>4, <1>5

-------------------------------------------------------------------------------

\* Every step keeps what the reader knows, and what it reports, true.
LEMMA ReadKept == PlacesInv /\ PlacesInv' /\ ReadInv /\ [Next]_vars => ReadInv'
<1> SUFFICES ASSUME PlacesInv, PlacesInv', ReadInv, [Next]_vars PROVE ReadInv'
  OBVIOUS
<1>1. ASSUME NEW block \in Blocks[face], Write(block) PROVE ReadInv'
  BY <1>1, ReadWrite
<1>2. CASE Flush \/ Close \/ Crash
  <2>1. /\ grown \in 0 .. total /\ total \in Nat
        /\ producer \in [library : BOOLEAN, step : {"open", "closed", "crashed"}]
    BY DEF PlacesInv, TypeOK
  <2>2. /\ UNCHANGED <<face, medium, starts, total, reader, index>>
        /\ grown' \in grown .. total /\ producer'.library = producer.library
    <3>1. CASE Flush
      BY <3>1, <2>1 DEF Flush, handed
    <3>2. CASE Close
      BY <3>2, <2>1 DEF Close
    <3>3. CASE Crash
      BY <3>3, <2>1 DEF Crash
    <3> QED BY <1>2, <3>1, <3>2, <3>3
  <2> QED BY <2>2, ReadProducer
<1>3. CASE Reads
  BY <1>3, ReadOpens, ReadsFrame, ReadsContent, ReadsBehindEnd,
     ReadsLine, ReadsNoLine, ReadsPast DEF Reads
<1>4. CASE UNCHANGED vars
  <2>1. grown \in 0 .. total /\ total \in Nat
    BY DEF PlacesInv, TypeOK
  <2>2. /\ UNCHANGED <<face, medium, starts, total, reader, index>>
        /\ grown' \in grown .. total /\ producer'.library = producer.library
    BY <1>4, <2>1 DEF vars
  <2> QED BY <2>2, ReadProducer
<1> QED BY <1>1, <1>2, <1>3, <1>4 DEF Next

\* Entries that are in order are the whole blocks there are to read.
LEMMA InOrderIsWhole ==
    ASSUME PlacesInv, ReadInv
    PROVE  ReadsWholeBlocks
<1>1. /\ \A n \in DOMAIN index : EntryInOrder(n)
      /\ BlocksKnown /\ ReaderKnows /\ EndKnown
      /\ reader.offset \in Nat /\ grown \in Nat /\ reader.offset <= grown
  BY ReaderTyped DEF ReadInv, PlacesInv, ReaderPlaced
<1>2. index \in Seq([block : Nat, isolated : BOOLEAN, at : Nat]) /\ DOMAIN index = 1 .. Len(index)
  BY DEF PlacesInv, TypeOK
<1>3. \A i \in DOMAIN medium : i \in Nat /\ Until(i) \in Nat /\ (Covered(i) => Whole(i))
  BY <1>1, UntilPlaced DEF Covered, Whole
<1>4. \A i : i \in ToSet(Numbers) <=> Seen(i)
  BY DEF ToSet, Numbers, Seen
<1>5. \A m, n \in DOMAIN index : m < n => Numbers[m] < Numbers[n]
  <2>1. ASSUME NEW m \in DOMAIN index, NEW n \in DOMAIN index, m < n
        PROVE  index[m].block < index[n].block
    <3>1. m \in 1 .. n - 1
      BY <1>2, <2>1
    <3> QED BY <1>1, <3>1 DEF EntryInOrder
  <2> QED BY <2>1 DEF Numbers
<1>6. ToSet(Numbers) = { i \in DOMAIN medium :
         Readable(i) /\ Whole(i) /\ \E n \in DOMAIN index : i <= Numbers[n] }
  <2>1. ASSUME NEW i, Seen(i)
        PROVE  /\ i \in DOMAIN medium /\ Readable(i) /\ Whole(i)
               /\ \E n \in DOMAIN index : i <= Numbers[n]
    <3>1. PICK n \in DOMAIN index : index[n].block = i
      BY <2>1 DEF Seen
    <3>2. i \in DOMAIN medium /\ Readable(i) /\ Whole(i) /\ i \in Nat
      BY <1>1, <1>3, <3>1 DEF EntryInOrder
    <3>3. i <= Numbers[n]
      BY <3>1, <3>2 DEF Numbers
    <3> QED BY <3>2, <3>3
  <2>2. ASSUME NEW i \in DOMAIN medium, Readable(i), NEW n \in DOMAIN index, i <= Numbers[n]
        PROVE  Seen(i)
    <3>1. i \in 1 .. index[n].block
      <4>1. index[n].block \in DOMAIN medium
        BY <1>1 DEF EntryInOrder
      <4> QED BY <1>3, <2>2, <4>1 DEF Numbers, PlacesInv, TypeOK
    <3> QED BY <1>1, <2>2, <3>1 DEF EntryInOrder
  <2> QED BY <1>4, <2>1, <2>2
<1>7. ASSUME reader.step = "stopped", Still
      PROVE  ToSet(Numbers) = { i \in DOMAIN medium : Readable(i) /\ Whole(i) }
  <2>1. ASSUME NEW i \in DOMAIN medium, Readable(i), Whole(i)
        PROVE  Seen(i)
    <3>1. CASE ~ reader.complete
      <4>1. Covered(i)
        BY <1>1, <1>7, <2>1, <3>1 DEF EndKnown, Readable
      <4> QED BY <1>1, <1>7, <2>1, <4>1 DEF ReaderKnows
    <3>2. CASE reader.complete
      <4>1. PICK n \in DOMAIN index : IsEnd(index[n].block) /\ index[n].block \in DOMAIN medium
        BY <1>1, <3>2 DEF ReaderKnows, EntryInOrder
      <4>2. ~ (index[n].block \in 1 .. i - 1)
        BY <2>1, <4>1 DEF Readable, IsEnd
      <4>3. i \in 1 .. index[n].block
        <5>1. index[n].block \in 1 .. Len(medium) /\ i \in 1 .. Len(medium) /\ Len(medium) \in Nat
          BY <4>1 DEF PlacesInv, TypeOK
        <5> QED BY <4>2, <5>1
      <4> QED BY <1>1, <2>1, <4>3 DEF EntryInOrder
    <3> QED BY <3>1, <3>2
  <2> QED BY <1>4, <1>6, <2>1
<1>8. ASSUME NEW n \in DOMAIN index
      PROVE  LET kinds == [m \in 1 .. n |-> IF index[m].isolated THEN "unknown" ELSE medium[Numbers[m]].kind]
             IN  Takes(Front(kinds), Last(kinds))
  <2> DEFINE kinds == [m \in 1 .. n |-> IF index[m].isolated THEN "unknown" ELSE medium[Numbers[m]].kind]
  <2>1. n \in Nat /\ n \in 1 .. Len(index) /\ Len(index) \in Nat
    BY <1>2
  <2>2. Len(kinds) = n
    BY <2>1
  <2>3. /\ Last(kinds) = IF index[n].isolated THEN "unknown" ELSE medium[index[n].block].kind
        /\ DOMAIN Front(kinds) = 1 .. n - 1
        /\ \A m \in 1 .. n - 1 :
              Front(kinds)[m] = IF index[m].isolated THEN "unknown" ELSE medium[index[m].block].kind
    BY <2>1, <2>2 DEF Last, Front, Numbers
  <2>4. Front(kinds) = << >> <=> n = 1
    BY <2>1, <2>3
  <2>5. Last(kinds) = "header" <=> n = 1
    <3>1. EntryInOrder(n) /\ index[n].block \in DOMAIN medium
      BY <1>1 DEF EntryInOrder
    <3>2. medium[index[n].block].kind = "header" => medium[index[n].block].form # "invalid"
      BY <1>1, <3>1, UntilPlaced
    <3> QED BY <2>3, <3>1, <3>2 DEF EntryInOrder
  <2>6. ASSUME NEW m \in 1 .. n - 1
        PROVE  Front(kinds)[m] # "end"
    <3>1. m \in DOMAIN index /\ m < n
      BY <1>2, <2>1
    <3>2. index[n].block \in DOMAIN medium /\ index[m].block \in DOMAIN medium /\ index[m].block < index[n].block
      BY <1>1, <3>1 DEF EntryInOrder
    <3>3. index[m].block \in 1 .. index[n].block - 1
      <4>1. DOMAIN medium = 1 .. Len(medium) /\ Len(medium) \in Nat
        BY DEF PlacesInv, TypeOK
      <4> QED BY <3>2, <4>1
    <3>4. ~ IsEnd(index[m].block)
      BY <1>1, <3>3 DEF EntryInOrder, Readable, IsEnd
    <3> QED BY <1>1, <2>3, <3>1, <3>4 DEF EntryInOrder, IsEnd
  <2>7. "end" \notin ToSet(Front(kinds))
    BY <2>3, <2>6 DEF ToSet
  <2> HIDE DEF kinds
  <2>8. Takes(Front(kinds), Last(kinds))
    BY <2>4, <2>5, <2>7 DEF Takes
  <2> QED BY <2>8 DEF kinds
<1> QED BY <1>5, <1>6, <1>7, <1>8 DEF ReadsWholeBlocks

\* What a reader knows, it reports.
LEMMA KnownIsHonest ==
    ASSUME PlacesInv, ReadInv
    PROVE  StatusIsHonest
<1>1. /\ \A n \in DOMAIN index : EntryInOrder(n)
      /\ BlocksKnown /\ ReaderKnows /\ ReaderReports /\ EndKnown
      /\ reader.offset \in Nat /\ grown \in Nat /\ reader.offset <= grown
  BY ReaderTyped DEF ReadInv, PlacesInv, ReaderPlaced
<1>2. index \in Seq([block : Nat, isolated : BOOLEAN, at : Nat]) /\ DOMAIN index = 1 .. Len(index)
  BY DEF PlacesInv, TypeOK
<1>3. DOMAIN medium = 1 .. Len(medium) /\ Len(medium) \in Nat
  BY DEF PlacesInv, TypeOK
<1>4. \A i \in DOMAIN medium : i \in Nat /\ Until(i) \in Nat /\ (Covered(i) => Whole(i))
  BY <1>1, UntilPlaced DEF Covered, Whole
<1>5. ASSUME NEW n \in DOMAIN index
      PROVE  /\ Numbers[n] = index[n].block /\ index[n].block \in DOMAIN medium
             /\ IsEnd(index[n].block) <=> medium[Numbers[n]].kind = "end" /\ ~ index[n].isolated
             /\ Readable(index[n].block) /\ Whole(index[n].block)
  BY <1>1, <1>4 DEF Numbers, EntryInOrder, IsEnd
<1>6. reader.complete <=> \E n \in DOMAIN index : medium[Numbers[n]].kind = "end" /\ ~ index[n].isolated
  BY <1>1, <1>5 DEF ReaderKnows
<1>7. ASSUME reader.step = "stopped", Still, producer.library
      PROVE  /\ reader.truncated <=> EndsInBlock
             /\ reader.complete <=> \E i \in DOMAIN medium : medium[i].kind = "end" /\ Whole(i)
  <2>1. CASE reader.complete
    <3>1. PICK n \in DOMAIN index : IsEnd(index[n].block)
      BY <1>1, <2>1 DEF ReaderKnows
    <3>2. PICK e \in DOMAIN medium : e = index[n].block /\ medium[e].kind = "end" /\ Whole(e)
      BY <1>5, <3>1 DEF IsEnd
    <3>3. e = Len(medium)
      BY <1>1, <1>7, <3>2 DEF BlocksKnown
    <3>4. ASSUME NEW i \in DOMAIN medium
          PROVE  Whole(i)
      <4>1. CASE i = e
        BY <3>2, <4>1
      <4>2. CASE i # e
        <5>1. i < e
          BY <1>3, <3>3, <4>2
        <5>2. /\ EndOf(i) <= starts[e] /\ starts[e] <= Until(e) /\ Until(i) <= EndOf(i)
              /\ EndOf(i) \in Nat /\ starts[e] \in Nat /\ Until(e) \in Nat /\ Until(i) \in Nat
          BY <1>1, <5>1, PlacesOrdered, UntilPlaced
        <5> QED BY <1>1, <3>2, <5>2 DEF Whole
      <4> QED BY <4>1, <4>2
    <3>5. ~ EndsInBlock
      BY <3>4 DEF EndsInBlock
    <3> QED BY <1>1, <1>7, <2>1, <3>2, <3>5 DEF ReaderReports
  <2>2. CASE ~ reader.complete
    <3>1. ASSUME NEW i \in DOMAIN medium, medium[i].kind = "end"
          PROVE  ~ Whole(i)
      <4>1. IsEnd(i)
        BY <1>1, <1>7, <3>1 DEF IsEnd, BlocksKnown
      <4>2. ~ Covered(i)
        BY <1>1, <1>7, <2>2, <4>1 DEF ReaderKnows
      <4> QED BY <1>1, <1>7, <2>2, <3>1, <4>2 DEF EndKnown
    <3> QED BY <1>1, <1>7, <2>2, <3>1 DEF EndKnown
  <2> QED BY <2>1, <2>2
<1>8. ASSUME reader.step = "stopped", Still, reader.complete
      PROVE  "trailing" \in reader.found <=>
                \E i \in DOMAIN medium : i > Last(index).block /\ medium[i].kind # "blank" /\ starts[i] < grown
  <2>1. index # << >> /\ Len(index) \in Nat /\ Len(index) \in DOMAIN index
    <3>1. DOMAIN index # {}
      BY <1>1, <1>8 DEF ReaderKnows
    <3> QED BY <1>2, <3>1
  <2>2. Last(index) = index[Len(index)]
    BY DEF Last
  <2>3. ASSUME NEW i \in DOMAIN medium
        PROVE  BehindAll(i) <=> i > Last(index).block
    <3>1. Last(index).block \in Nat /\ i \in Nat
      BY <1>4, <1>5, <2>1, <2>2
    <3>2. BehindAll(i) => i > Last(index).block
      BY <2>1, <2>2, <3>1 DEF BehindAll
    <3>3. ASSUME i > Last(index).block, NEW n \in DOMAIN index
          PROVE  index[n].block < i
      <4>1. CASE n = Len(index)
        BY <2>2, <3>1, <3>3, <4>1
      <4>2. CASE n # Len(index)
        <5>1. n \in 1 .. Len(index) - 1
          BY <1>2, <2>1, <4>2
        <5>2. index[n].block < Last(index).block /\ index[n].block \in Nat
          BY <1>1, <1>4, <1>5, <2>1, <2>2, <5>1 DEF EntryInOrder
        <5> QED BY <3>1, <3>3, <5>2
      <4> QED BY <4>1, <4>2
    <3> QED BY <3>2, <3>3 DEF BehindAll
  <2> QED BY <1>1, <1>8, <2>3 DEF EndKnown
<1> QED BY <1>1, <1>6, <1>7, <1>8 DEF StatusIsHonest, ReaderReports

\* In every reachable state blocks, reader and index are in place, and what the reader
\* knows and reports is what is in the file.
THEOREM ReadAndPlaced == Spec => [](PlacesInv /\ ReadInv)
<1>1. Init => PlacesInv /\ ReadInv
  BY PlacesInit, ReadInit
<1>2. PlacesInv /\ ReadInv /\ [Next]_vars => PlacesInv' /\ ReadInv'
  BY PlacesKept, ReadKept
<1> QED BY <1>1, <1>2, PTL DEF Spec

\* Wherever a file of either face ends and however it grows while it is read, the blocks a
\* flat reader yields are the whole ones from its beginning up to End, each once and in
\* order, and a writer would take them (binary.py BlockReader, jsonl.py JsonlReader).
THEOREM ReadsAreWhole == Spec => []ReadsWholeBlocks
  BY ReadAndPlaced, InOrderIsWhole, PTL

\* complete, truncated and the trailing finding say of a file at rest what is there
\* (binary.py BlockReader, jsonl.py JsonlReader).
THEOREM StatusAlwaysHonest == Spec => []StatusIsHonest
  BY ReadAndPlaced, KnownIsHonest, PTL

===============================================================================
