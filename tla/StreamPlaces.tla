----------------------------- MODULE StreamPlaces -----------------------------
(***************************************************************************)
(* Where the records of a stream stand: record_ranges, stream_extent and   *)
(* fin_positions of reassembly.py, which readers, checkers and transforms  *)
(* share.  A stream is [isn, layer, units, blocks]; a block is a record or  *)
(* a discontinuity, whose width is None where none is declared.            *)
(***************************************************************************)
EXTENDS StreamWalk, Intervals

IsRecord(b) == b.kind = "record"

RecordsIn(v) == SelectSeq(v.blocks, IsRecord)

\* _transport_origin: None for a stream no record of which carries a hint.
TransportOrigin(v) ==
    LET hinted == SelectSeq(RecordsIn(v), LAMBDA rec : rec.seq # None)
    IN  CASE v.isn # None                     -> (v.isn + 1) % SeqSpace
          [] v.isn = None /\ hinted # << >>   -> hinted[1].seq
          [] v.isn = None /\ hinted = << >>   -> None

\* A stream whose adjacent records nothing joins.
UnitSequence(v) == v.units /\ v.layer = "decoded"

Positional(v) == v.layer = "decoded" \/ TransportOrigin(v) = None

\* The ranges of a positional stream: a break's width is a term of the sum.
ConcatenatedRanges(v) ==
    FoldLeft(LAMBDA at, b :
                IF IsRecord(b)
                THEN [cursor |-> at.cursor + b.len,
                      ranges |-> Append(at.ranges, <<at.cursor, at.cursor + b.len>>)]
                ELSE [at EXCEPT !.cursor = @ + IF b.width = None THEN 0 ELSE b.width],
             [cursor |-> 0, ranges |-> << >>], v.blocks).ranges

\* The ranges of an anchored one: what cannot be placed is empty, at the furthest end.
PlacedRanges(v) ==
    FoldLeft(LAMBDA at, rec :
                LET offset == OffsetOf(at.placer, rec)
                    range  == IF offset = None THEN <<at.end, at.end>> ELSE <<offset, offset + rec.len>>
                IN  [placer |-> Placed(at.placer, rec),
                     end    |-> Larger(at.end, range[2]),
                     ranges |-> Append(at.ranges, range),
                     fins   |-> IF offset # None /\ rec.flag = "fin" THEN at.fins \cup {range[2]} ELSE at.fins],
             [placer |-> PlacerAt(TransportOrigin(v)), end |-> 0, ranges |-> << >>, fins |-> {}],
             RecordsIn(v))

RecordRanges(v) == IF Positional(v) THEN ConcatenatedRanges(v) ELSE PlacedRanges(v).ranges

StreamExtent(v) ==
    FoldLeft(LAMBDA extent, range : Larger(extent, range[2]), 0, RecordRanges(v))

FinPositions(v) ==
    IF Positional(v) THEN {}
    ELSE { position \in PlacedRanges(v).fins : position < PlacedRanges(v).end }

===============================================================================
