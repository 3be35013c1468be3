------------------------------ MODULE StreamWalk ------------------------------
(***************************************************************************)
(* The walks that turn 32-bit sequence values into positions: _Placer and  *)
(* _StreamPlacer place a participant's records in its own offset space,    *)
(* _AckWalk places its acks in its peer's.  A record keeps only what these *)
(* walks and the ordering rules read:                                      *)
(*   seq   seq_start, or None          ack   ack, or None                  *)
(*   len   the payload's length        ts    timestamp                     *)
(*   flag  "syn", "fin" or "none" (a SYN outranks a FIN, as in the code)   *)
(***************************************************************************)
EXTENDS SerialNumbers

CONSTANT None                   \* Python's None

ASSUME NoneAssumption == None \notin Int

RecordType ==
    [seq : SeqNum \cup {None}, ack : SeqNum \cup {None}, len : Nat,
     flag : {"none", "syn", "fin"}, ts : Int]

\* None is no record either: a stream's end is not one of its records.
ASSUME NoRecordAssumption == None \notin RecordType

-------------------------------------------------------------------------------
(* The offset walk of one stream. *)

\* origin is None until the stream's first sequence value is known.
PlacerType ==
    { placer \in [origin : SeqNum \cup {None}, value : SeqNum \cup {None}, position : Nat] :
        placer.origin = None <=> placer.value = None }

PlacerAt(seq) == [origin |-> seq, value |-> seq, position |-> 0]

NewPlacer(isn) == PlacerAt(IF isn = None THEN None ELSE (isn + 1) % SeqSpace)

\* With no isn, the first seq_start the stream carries is its origin.
Started(placer, rec) ==
    IF placer.origin = None /\ rec.seq # None THEN PlacerAt(rec.seq) ELSE placer

\* Slip: a seq_start below the anchor is placed all the same.
OffsetOf_Signed(placer, rec) ==
    IF rec.seq = None THEN None
    ELSE LET at == Started(placer, rec)
         IN  at.position + SerialDelta(rec.seq, at.value)

\* The record's offset, or None: no seq_start, or one below the anchor.
OffsetOf(placer, rec) ==
    IF rec.seq = None THEN None
    ELSE LET at    == Started(placer, rec)
             delta == SerialDelta(rec.seq, at.value)
         IN  IF delta < 0 THEN None ELSE at.position + delta

\* An unplaceable record anchors nothing.
Placed(placer, rec) ==
    LET at     == Started(placer, rec)
        offset == OffsetOf(placer, rec)
    IN  IF offset = None THEN at
        ELSE [at EXCEPT !.value = rec.seq, !.position = offset]

\* One past the last sequence number the record occupies, or None.
SequenceEnd(rec, offset) ==
    CASE offset = None                    -> None
      [] offset # None /\ rec.len > 0     -> offset + rec.len
      [] offset # None /\ rec.len = 0 /\ rec.flag = "syn"  -> offset
      [] offset # None /\ rec.len = 0 /\ rec.flag = "fin"  -> offset + 1
      [] offset # None /\ rec.len = 0 /\ rec.flag = "none" -> None

-------------------------------------------------------------------------------
(* The ack walk of one participant, in its peer's offset space. *)

AckWalkType ==
    { walk \in [first : SeqNum \cup {None}, value : SeqNum \cup {None},
                position : Int, highest : Int] :
        walk.first = None <=> walk.value = None }

NewAckWalk == [first |-> None, value |-> None, position |-> 0, highest |-> 0]

\* A step backwards is taken, not refused; highest is the running maximum.
AckObserved(walk, ack) ==
    IF walk.first = None
    THEN [first |-> ack, value |-> ack, position |-> 0, highest |-> 0]
    ELSE LET position == walk.position + SerialDelta(ack, walk.value)
         IN  [walk EXCEPT !.value = ack, !.position = position,
                          !.highest = IF position > @ THEN position ELSE @]

\* A position relative to the first ack, moved into the peer's offset space.
AckPosition(walk, relative, origin) == SerialDelta(walk.first, origin) + relative

===============================================================================
