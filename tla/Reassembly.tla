------------------------------ MODULE Reassembly ------------------------------
(***************************************************************************)
(* A StreamView: one participant's stream, walked as byte runs and holes   *)
(* (chunks) or record by record (units).  Walks are generators over the    *)
(* stored blocks: several may be under way at once, each may be left off   *)
(* anywhere, and what the view keeps is what complete walks left behind.   *)
(*                                                                         *)
(* The functions a checker measures the same stream with are written       *)
(* apart, as in the code: they are the module StreamPlaces.                *)
(***************************************************************************)
EXTENDS StreamPlaces, FiniteSets, FiniteSetsExt

CONSTANTS
    Views,                      \* the streams: [isn, layer, units, blocks]
    Walkers                     \* bound: the walks under way at once

\* A record, or a break (a Discontinuity), of a stream.
StreamBlock(b) ==
    \/ /\ b.kind = "record"
       /\ b.seq \in SeqNum \cup {None} /\ b.len \in Nat /\ b.flag \in {"none", "fin"}
       /\ b.ts \in Int /\ b.first \in Int \cup {None}
    \/ b.kind = "discontinuity" /\ b.width \in Nat \cup {None}

ASSUME ViewsAssumption ==
    \A v \in Views :
        /\ v.isn \in SeqNum \cup {None}
        /\ v.layer \in {"transport", "decoded"}
        /\ v.units \in BOOLEAN
        /\ \A i \in DOMAIN v.blocks : StreamBlock(v.blocks[i])

VARIABLES
    view,                       \* the stream
    measured,                   \* [extent, holes, fins] of a complete walk, or None
    contributions,              \* the accepted bytes of each record, or None
    walks,                      \* walker -> its walk, or None
    placement                   \* history: what a checker computes of the stream

vars == <<view, measured, contributions, walks, placement>>

-------------------------------------------------------------------------------
(* What a checker computes of the stream *)

\* The range of the record that is block i, by its number among the records.
RangeAt(v, ranges, i) == ranges[Len(SelectSeq(SubSeq(v.blocks, 1, i), IsRecord))]

\* The whole of it, and at each offset the record whose byte stands there: the
\* first stored of those that cover it.
PlacementOf(v) ==
    LET ranges == RecordRanges(v)
        range  == [i \in { j \in DOMAIN v.blocks : IsRecord(v.blocks[j]) } |-> RangeAt(v, ranges, i)]
        At(o)  == { i \in DOMAIN range : range[i][1] <= o /\ o < range[i][2] }
        extent == StreamExtent(v)
    IN  [range  |-> range,
         extent |-> extent,
         fins   |-> FinPositions(v),
         holder |-> [o \in { p \in 0 .. extent - 1 : At(p) # {} } |-> Min(At(o))]]

-------------------------------------------------------------------------------
(* Which stream it is, by the view's own account *)

StreamOriented(v) ==
    \/ v.isn # None
    \/ RecordsIn(v) # << >> /\ RecordsIn(v)[1].seq # None

-------------------------------------------------------------------------------
(* A walk.  cursor is where the accepted bytes end, parts the records of the *)
(* run being built, reach and fins what the records reach before trimming.   *)

ChunkWalks == {"chunks", "reassembled", "offStart"}

NewWalk(v, op) ==
    [op |-> op, status |-> "running", next |-> 1, placer |-> NewPlacer(v.isn), cursor |-> 0,
     parts |-> << >>, holes |-> << >>, reach |-> 0, fins |-> {}, emitted |-> FALSE,
     yields |-> << >>]

Gap(start, end) == [kind |-> "gap", start |-> start, end |-> end]

\* A run: its bytes are its parts', and so is its time.
SegmentOf(parts) ==
    IF parts = << >> THEN << >>
    ELSE <<[kind |-> "segment", start |-> parts[1].start, end |-> parts[Len(parts)].end,
            parts |-> parts]>>

Contribution(rec, i, start, end) ==
    [record |-> i, start |-> start, end |-> end, ts |-> rec.ts,
     first |-> IF rec.first = None THEN rec.ts ELSE rec.first]

\* Slip: the parts of a run are kept when a hole closes it.
Accepted_KeepsParts(walk, part) ==
    IF part.start > walk.cursor
    THEN [walk EXCEPT
            !.yields = @ \o SegmentOf(walk.parts) \o <<Gap(walk.cursor, part.start)>>,
            !.holes  = Append(@, <<walk.cursor, part.start>>),
            !.parts  = Append(@, part),
            !.cursor = part.end]
    ELSE [walk EXCEPT !.parts = Append(@, part), !.cursor = part.end]

\* A part ahead of the cursor closes the run and opens a hole.
Accepted(walk, part) ==
    IF part.start > walk.cursor
    THEN [walk EXCEPT
            !.yields = @ \o SegmentOf(walk.parts) \o <<Gap(walk.cursor, part.start)>>,
            !.holes  = Append(@, <<walk.cursor, part.start>>),
            !.parts  = <<part>>,
            !.cursor = part.end]
    ELSE [walk EXCEPT !.parts = Append(@, part), !.cursor = part.end]

\* The reach and the FIN are the record's own, whatever is trimmed of it.
Reached(walk, rec, end) ==
    [walk EXCEPT !.reach = Larger(@, end), !.fins = IF rec.flag = "fin" THEN @ \cup {end} ELSE @]

\* Slip: a record's part is all it carries.
PartOf_Untrimmed(walk, rec, offset) == Contribution(rec, walk.next, offset, offset + rec.len)

\* _trim_overlap: the bytes already covered come off the front.
PartOf(walk, rec, offset) ==
    Contribution(rec, walk.next, Larger(offset, walk.cursor), offset + rec.len)

\* The loop's body in chunks.
ChunkStep(walk, rec) ==
    LET offset == OffsetOf(walk.placer, rec)
        placed == [walk EXCEPT !.placer = Placed(@, rec)]
    IN  IF offset = None THEN placed
        ELSE LET reached == Reached(placed, rec, offset + rec.len)
             IN  IF rec.len = 0 \/ offset + rec.len <= walk.cursor THEN reached
                 ELSE Accepted(reached, PartOf(walk, rec, offset))

Break(at, declared) == [kind |-> "break", start |-> at, declared |-> declared]

Unit(i, start, end) == [kind |-> "unit", record |-> i, start |-> start, end |-> end]

\* The loop's body in units, at a Discontinuity and at a record.
BreakStep(v, walk, b) ==
    [walk EXCEPT
        !.yields = Append(@, Break(walk.cursor, TRUE)),
        !.cursor = IF StreamOriented(v) \/ b.width = None THEN @ ELSE @ + b.width]

\* Slip: units that start the stream are told by their offset.
SeamBefore_AtZero(v, walk) ==
    IF UnitSequence(v) /\ walk.cursor > 0 THEN <<Break(walk.cursor, FALSE)>> ELSE << >>

\* What a unit sequence implies ahead of each of its records but the first.
SeamBefore(v, walk) ==
    IF UnitSequence(v) /\ walk.emitted THEN <<Break(walk.cursor, FALSE)>> ELSE << >>

RecordStep(v, walk, rec) ==
    LET offset == IF StreamOriented(v) THEN OffsetOf(walk.placer, rec) ELSE walk.cursor
        passed == [walk EXCEPT !.emitted = TRUE, !.placer = Placed(@, rec),
                               !.yields = @ \o SeamBefore(v, walk)]
    IN  IF offset = None THEN passed
        ELSE [passed EXCEPT
                !.yields = Append(@, Unit(walk.next, offset, offset + rec.len)),
                !.cursor = IF StreamOriented(v) THEN @ ELSE @ + rec.len,
                !.reach  = offset + rec.len]

\* reassembled() raises at the first hole, off_start returns at the first run.
Stops(op, yields) ==
    \/ op = "reassembled" /\ \E i \in DOMAIN yields : yields[i].kind = "gap"
    \/ op = "offStart" /\ \E i \in DOMAIN yields : yields[i].kind = "segment"

Settled(walk) == IF Stops(walk.op, walk.yields) THEN [walk EXCEPT !.status = "stopped"] ELSE walk

\* One block of the stream.
Stepped(v, walk, b) ==
    LET after == CASE walk.op \in ChunkWalks /\ IsRecord(b)       -> ChunkStep(walk, b)
                   [] walk.op \in ChunkWalks /\ ~ IsRecord(b)     -> walk
                   [] walk.op \notin ChunkWalks /\ IsRecord(b)    -> RecordStep(v, walk, b)
                   [] walk.op \notin ChunkWalks /\ ~ IsRecord(b)  -> BreakStep(v, walk, b)
    IN  Settled([after EXCEPT !.next = @ + 1])

\* Slip: what is past the last byte is a FIN.
TrailingHole_AnyFin(cursor, reach, fins) ==
    LET start == IF fins # {} THEN cursor + 1 ELSE cursor
    IN  IF start < reach THEN <<<<start, reach>>>> ELSE << >>

\* Only a FIN right at the cursor is stepped over.
TrailingHole(cursor, reach, fins) ==
    LET start == IF cursor \in fins THEN cursor + 1 ELSE cursor
    IN  IF start < reach THEN <<<<start, reach>>>> ELSE << >>

\* Behind the last block: chunks yields the last run and the lost tail.
Ended(walk) ==
    LET hole  == TrailingHole(walk.cursor, walk.reach, walk.fins)
        tail  == IF hole = << >> THEN << >> ELSE <<Gap(hole[1][1], hole[1][2])>>
        after == IF walk.op \in ChunkWalks
                 THEN Settled([walk EXCEPT !.yields = @ \o SegmentOf(walk.parts) \o tail,
                                           !.holes = @ \o hole])
                 ELSE walk
    IN  IF after.status = "running" THEN [after EXCEPT !.status = "complete"] ELSE after

\* Slip: any complete walk measures its stream.
Measures_Any(v, walk) == walk.status = "complete"

\* A walk that measures: a complete one, of the shape the stream has.
Measures(v, walk) ==
    /\ walk.status = "complete"
    /\ walk.op \in ChunkWalks \/ ~ StreamOriented(v)

\* A walk of units keeps no cursor of accepted bytes: its reach is its last end.
MeasureOf(walk) ==
    LET extent == IF walk.op \in ChunkWalks THEN Larger(walk.cursor, walk.reach) ELSE walk.reach
    IN  [extent |-> extent, holes |-> walk.holes, fins |-> { f \in walk.fins : f < extent }]

-------------------------------------------------------------------------------
(* The view's operations *)

Init ==
    /\ view \in Views
    /\ measured = None
    /\ contributions = None
    /\ walks = [w \in Walkers |-> None]
    /\ placement = PlacementOf(view)

\* chunks() of a packet-oriented stream raises, and off_start is 0.
Start(w, op) ==
    /\ walks[w] = None
    /\ op \in ChunkWalks => StreamOriented(view)
    /\ walks' = [walks EXCEPT ![w] = NewWalk(view, op)]
    /\ UNCHANGED <<view, placement, measured, contributions>>

Running(w) == walks[w] # None /\ walks[w].status = "running"

Step(w) ==
    /\ Running(w)
    /\ walks[w].next <= Len(view.blocks)
    /\ walks' = [walks EXCEPT ![w] = Stepped(view, @, view.blocks[@.next])]
    /\ UNCHANGED <<view, placement, measured, contributions>>

Finish(w) ==
    /\ Running(w)
    /\ walks[w].next > Len(view.blocks)
    /\ LET walk == Ended(walks[w])
       IN  /\ walks' = [walks EXCEPT ![w] = walk]
           /\ measured' = IF Measures(view, walk) THEN MeasureOf(walk) ELSE measured
    /\ UNCHANGED <<view, placement, contributions>>

\* The generator is closed: abandoned half way, or done with.
Drop(w) ==
    /\ walks[w] # None
    /\ walks' = [walks EXCEPT ![w] = None]
    /\ UNCHANGED <<view, placement, measured, contributions>>

\* A walk run to its end by the view itself.
WholeWalk(v) ==
    LET op == IF StreamOriented(v) THEN "chunks" ELSE "units"
    IN  Ended(FoldLeft(LAMBDA walk, b : Stepped(v, walk, b), NewWalk(v, op), v.blocks))

\* _measure, in extent_and_gaps and fin_positions.
Measure ==
    /\ measured = None
    /\ measured' = MeasureOf(WholeWalk(view))
    /\ UNCHANGED <<view, placement, contributions, walks>>

ContributionsOf(v) ==
    LET yields == WholeWalk(v).yields
    IN  FlattenSeq([i \in DOMAIN yields |->
            CASE yields[i].kind = "segment" -> yields[i].parts
              [] yields[i].kind = "unit" ->
                    <<Contribution(v.blocks[yields[i].record], yields[i].record,
                                   yields[i].start, yields[i].end)>>
              [] yields[i].kind \in {"gap", "break"} -> << >>])

\* contributions(), in ts_for and ts_first_for: the walk it makes also measures.
Contribute ==
    /\ contributions = None
    /\ contributions' = ContributionsOf(view)
    /\ measured' = MeasureOf(WholeWalk(view))
    /\ UNCHANGED <<view, placement, walks>>

Walking(w) ==
    \/ \E op \in ChunkWalks \cup {"units"} : Start(w, op)
    \/ Step(w) \/ Finish(w) \/ Drop(w)

Next ==
    \/ \E w \in Walkers : Walking(w)
    \/ Measure
    \/ Contribute

Spec == Init /\ [][Next]_vars

\* ts_for and ts_first_for: None where no record contributes.
Overlapping(parts, start, end) ==
    { parts[i] : i \in { j \in DOMAIN parts : parts[j].start < end /\ start < parts[j].end } }

TsFor(parts, start, end) ==
    LET stamps == { c.ts : c \in Overlapping(parts, start, end) }
    IN  IF stamps = {} THEN None ELSE Max(stamps)

TsFirstFor(parts, start, end) ==
    LET stamps == { c.first : c \in Overlapping(parts, start, end) }
    IN  IF stamps = {} THEN None ELSE Min(stamps)
-------------------------------------------------------------------------------
(* Properties *)

MeasureType == [extent : Nat, holes : Seq(Ranges), fins : SUBSET Nat]

ContributionType == [record : Nat \ {0}, start : Nat, end : Nat, ts : Int, first : Int]

TypeOK ==
    /\ measured \in MeasureType \cup {None}
    /\ contributions \in Seq(ContributionType) \cup {None}
    /\ \A w \in Walkers : walks[w] # None =>
          /\ walks[w].op \in ChunkWalks \cup {"units"}
          /\ walks[w].status \in {"running", "complete", "stopped"}
          /\ walks[w].placer \in PlacerType
          /\ walks[w].holes \in Seq(Ranges)
          /\ walks[w].parts \in Seq(ContributionType)

Extent == placement.extent

Held == DOMAIN placement.holder

Owed == (0 .. Extent - 1) \ placement.fins

\* "The extent a stage declares and the extent a checker measures must be one
\* number" (reassembly.py extent_and_gaps): whichever walks measured the view, and
\* whatever walks were left off, it holds the extent and the FIN positions of the
\* stream, and as holes the positions no record covers.
MeasuredIsStream ==
    measured # None =>
        /\ measured.extent = Extent
        /\ measured.fins = placement.fins
        /\ Coalesced(measured.holes)
        /\ StreamOriented(view) => Offsets(measured.holes) \cap Owed = Owed \ Held
        /\ ~ StreamOriented(view) => measured.holes = << >>

\* A FIN's position "is not a hole, so it takes no gap" (reassembly.py fin_positions).
FinsAreNotHoles == measured # None => Offsets(measured.holes) \cap measured.fins = {}

ChunkWalking(w) == walks[w] # None /\ walks[w].op \in ChunkWalks

\* Each byte a run holds is the first stored one at its offset, however the later
\* ones overlap it, runs and holes adjoin in ascending order and a hole holds no
\* byte; a complete walk has yielded every byte (reassembly.py chunks, _trim_overlap).
RunsFavorOld ==
    \A w \in Walkers : ChunkWalking(w) =>
        LET yields == walks[w].yields
            Bytes(part) == part.start .. part.end - 1
        IN  /\ \A i \in DOMAIN yields :
                  /\ yields[i].start < yields[i].end
                  /\ i > 1 => yields[i].start \in {yields[i - 1].end, yields[i - 1].end + 1}
                  /\ i = 1 => yields[i].start \in {0, 1}
                  /\ yields[i].kind = "gap" => Bytes(yields[i]) \cap Held = {}
                  /\ yields[i].kind = "segment" =>
                        /\ \A j \in DOMAIN yields[i].parts :
                              \A o \in Bytes(yields[i].parts[j]) : placement.holder[o] = yields[i].parts[j].record
                        /\ Bytes(yields[i]) = UNION { Bytes(yields[i].parts[j]) : j \in DOMAIN yields[i].parts }
            /\ walks[w].status = "complete" =>
                  Owed \subseteq UNION { Bytes(yields[i]) : i \in DOMAIN yields }

\* A sender has one FIN, and no byte past it.  A file may hold others, and what
\* stands behind a first one makes its position pass for a hole.
FinIsLast == \A f \in placement.fins : placement.fins = {f} /\ \A o \in Held : o < f

\* off_start is where the first byte stands, and reassembled() returns exactly the
\* streams no byte of which is missing (reassembly.py off_start, reassembled).
AnswersAreOfTheStream ==
    \A w \in Walkers : ChunkWalking(w) =>
        /\ walks[w].op = "offStart" /\ walks[w].status = "stopped" =>
              SelectSeq(walks[w].yields, LAMBDA y : y.kind = "segment")[1].start = Min(Held)
        /\ walks[w].op = "offStart" /\ walks[w].status = "complete" => Held = {}
        /\ walks[w].op = "reassembled" /\ walks[w].status = "complete" => Owed \subseteq Held
        /\ walks[w].op = "reassembled" /\ walks[w].status = "stopped" /\ FinIsLast =>
              ~ Owed \subseteq Held

UnitWalking(w) == walks[w] # None /\ walks[w].op = "units"

\* A Discontinuity stands between two records, or the sequence joins none.
NotJoined(i, j) ==
    UnitSequence(view) \/ \E k \in i + 1 .. j - 1 : ~ IsRecord(view.blocks[k])

\* units and record_ranges "walk the same space and must not disagree"
\* (reassembly.py datagrams): each record is yielded at its range, and one that a
\* consumer must not splice to the last has a Break ahead of it.
UnitsArePlaced ==
    \A w \in Walkers : UnitWalking(w) =>
        LET yields == walks[w].yields
            units  == { i \in DOMAIN yields : yields[i].kind = "unit" }
        IN  /\ \A i \in units : <<yields[i].start, yields[i].end>> = placement.range[yields[i].record]
            /\ \A i, j \in units : i < j =>
                  /\ yields[i].record < yields[j].record
                  /\ NotJoined(yields[i].record, yields[j].record) =>
                        \E k \in i + 1 .. j - 1 : yields[k].kind = "break"
            /\ walks[w].status = "complete" =>
                  Held \subseteq UNION { yields[i].start .. yields[i].end - 1 : i \in units }

\* contributions() counts an empty datagram inside a range: see the README.
Inside(range, start, end) == range[1] = range[2] /\ start < range[1] /\ range[1] < end

EmptyUnitIn(start, end) ==
    ~ StreamOriented(view)
    /\ \E i \in DOMAIN placement.range : Inside(placement.range[i], start, end)

\* A unit completes with the last record that gave it a byte, and starts with the
\* first: "a later retransmit that contributes no accepted bytes does not move"
\* either (reassembly.py Segment.ts_for).
TimesAreOfAcceptedBytes ==
    contributions # None =>
        \A start, end \in 0 .. Extent : start < end /\ ~ EmptyUnitIn(start, end) =>
            LET holders == { view.blocks[placement.holder[o]] : o \in (start .. end - 1) \cap Held }
                firsts  == { IF rec.first = None THEN rec.ts ELSE rec.first : rec \in holders }
            IN  /\ TsFor(contributions, start, end) =
                      IF holders = {} THEN None
                      ELSE Max({ rec.ts : rec \in holders })
                /\ TsFirstFor(contributions, start, end) =
                      IF holders = {} THEN None ELSE Min(firsts)

===============================================================================
