---------------------------- MODULE RewriteDecoded ----------------------------
(***************************************************************************)
(* rewrite_decoded: the records of a decoded file that a filter keeps, in  *)
(* the order a caller gives them, become a file derived from it.  Where    *)
(* two records that are now neighbours did not join, a break is written,   *)
(* the input's breaks are carried over, and what is left out is marked.    *)
(***************************************************************************)
EXTENDS FileTransforms

VARIABLES
    agenda,                     \* the streams still to rewrite, and the sessions to end
    orders                      \* history: stream -> the records it was rewritten to

rewriteVars == <<vars, job, agenda, orders>>

-------------------------------------------------------------------------------
(* What is written of a stream v, given its survivors: numbers of blocks *)

RecordNumbers(v) == { i \in DOMAIN v.blocks : IsRecord(v.blocks[i]) }

\* What a filter and a rearrangement may leave: some records, each once.
Arrangements(v) ==
    { order \in UNION { [1 .. n -> RecordNumbers(v)] : n \in 0 .. Cardinality(RecordNumbers(v)) } :
        IsInjective(order) }

PlaceOf(v, i) == RecordRanges(v)[Len(SelectSeq(SubSeq(v.blocks, 1, i), IsRecord))]

WidthOf(b) == IF b.width = None THEN 0 ELSE b.width

Broken(v, width) == [kind |-> "discontinuity", sid |-> v.sid, pid |-> v.pid, width |-> width]

\* Slip: a break whose next record was left out is left out with it.
InheritedBreaks_Next(v, kept, i) ==
    SelectSeq([j \in 1 .. i - 1 |-> [at |-> j, width |-> IF IsRecord(v.blocks[j]) THEN None ELSE v.blocks[j].width]],
              LAMBDA x : ~ IsRecord(v.blocks[x.at]) /\ \A k \in x.at + 1 .. i - 1 : ~ IsRecord(v.blocks[k]))

\* _inherited_breaks: those since the last survivor before block i.
InheritedBreaks(v, kept, i) ==
    SelectSeq([j \in 1 .. i - 1 |-> [at |-> j, width |-> IF IsRecord(v.blocks[j]) THEN None ELSE v.blocks[j].width]],
              LAMBDA x : ~ IsRecord(v.blocks[x.at]) /\ \A k \in x.at + 1 .. i - 1 : k \notin kept)

\* _declare_seam: one that is behind has no width, one ahead the width withheld.
Seam(v, last, next, carried) ==
    LET ends   == PlaceOf(v, last)[2]
        begins == PlaceOf(v, next)[1]
    IN  CASE begins < ends                  -> <<Broken(v, None)>>
          [] begins > ends + carried        -> <<Broken(v, begins - ends - carried)>>
          [] begins \in ends .. ends + carried -> << >>

RewrittenRecord(v, i) ==
    [v.blocks[i] EXCEPT !.source = v.key[1], !.spans = {SpanOf(v, PlaceOf(v, i))}]

\* A survivor, behind the input's breaks and the one it owes itself.
Rewritten(v, order, n) ==
    LET breaks  == InheritedBreaks(v, Range(order), order[n])
        carried == FoldLeft(LAMBDA sum, x : sum + WidthOf(x), 0, breaks)
    IN  [i \in DOMAIN breaks |-> Broken(v, breaks[i].width)]
        \o (IF n = 1 THEN << >> ELSE Seam(v, order[n - 1], order[n], carried))
        \o <<RewrittenRecord(v, order[n])>>

Marked(v, ranges, reason) ==
    [i \in DOMAIN ranges |->
        [kind |-> "undecoded", source |-> v.key[1], input |-> v.key[2], start |-> ranges[i][1],
         end |-> ranges[i][2], decoder |-> None, reason |-> reason, class |-> None]]

\* Breaks are holes, empty ones where they have no width.
HolesIn(v) == { <<x.position, x.position + x.width>> : x \in BreakPositions(v) }

\* What is neither a survivor's nor a hole was dropped, in one piece up to the next of them.
DroppedFrom(v, order) ==
    LET ranges == RecordRanges(v)
    IN  Complement(InOrder({ PlaceOf(v, i) : i \in Range(order) } \cup HolesIn(v)),
                   IF ranges = << >> THEN 0 ELSE ranges[Len(ranges)][2])

\* The blocks _rewrite_stream writes.
StreamRewritten(v, order) ==
    FlattenSeq([n \in DOMAIN order |-> Rewritten(v, order, n)])
        \o Marked(v, InOrder({ r \in HolesIn(v) : r[1] < r[2] }), "gap") \o Marked(v, DroppedFrom(v, order), "dropped")

-------------------------------------------------------------------------------
(* The transform *)

SessionsIn(inputs) == SetToSortSeq({ v.sid : v \in ToSet(inputs) }, <)

StreamsIn(inputs, s) == SelectSeq(inputs, LAMBDA v : v.sid = s)

\* derive_from mirrors the sessions and participants; the decoders are declared again.
Mirror(inputs) ==
    FlattenSeq([n \in DOMAIN SessionsIn(inputs) |->
        LET s == SessionsIn(inputs)[n]
        IN  <<[kind |-> "session", sid |-> s]>> \o
            [i \in DOMAIN StreamsIn(inputs, s) |->
                LET v == StreamsIn(inputs, s)[i]
                IN  [kind |-> "participant", sid |-> s, pid |-> v.pid, isn |-> None,
                     adjacency |-> IF UnitSequence(v) THEN "units" ELSE "contiguous"]]])

RewriteInit(inputs) ==
    /\ InitAfter(<<Header, [kind |-> "source", id |-> 0, source |-> "zpf"]>> \o Mirror(inputs)
                    \o <<[kind |-> "decoder", id |-> 0, layer |-> "decoded"]>>,
                 [s \in { v.sid : v \in ToSet(inputs) } |-> [verify |-> FALSE, linearize |-> FALSE]])
    /\ job = [inputs |-> inputs, step |-> "rewrite", todo |-> << >>]
    /\ agenda = FlattenSeq([n \in DOMAIN SessionsIn(inputs) |->
                    LET s == SessionsIn(inputs)[n]
                    IN  Append(StreamsIn(inputs, s), [sid |-> s, pid |-> None])])
    /\ orders = << >>

Turn == job.step = "rewrite" /\ call = Idle /\ job.todo = << >> /\ agenda # << >>

\* keep and reorder are called, for one stream: they return ...
BeginStream ==
    /\ Turn /\ Head(agenda).pid # None
    /\ \E order \in Arrangements(Head(agenda)) :
          /\ job' = [job EXCEPT !.todo = StreamRewritten(Head(agenda), order)]
          /\ orders' = (Head(agenda).key :> order) @@ orders
    /\ agenda' = Tail(agenda)
    /\ UNCHANGED vars

\* ... or raise.
CallbackRaises ==
    /\ Turn /\ Head(agenda).pid # None
    /\ job' = [job EXCEPT !.step = "raise"]
    /\ UNCHANGED <<vars, agenda, orders>>

Written(b) == IF b.kind = "record" THEN RecordEmits(b.sid, b) ELSE Emits(b)

WriteNext ==
    /\ job.step = "rewrite" /\ job.todo # << >>
    /\ LET b == Head(job.todo)
       IN  /\ CASE b.kind = "record"        -> Record(b)
                [] b.kind = "discontinuity" -> Discontinuity(b)
                [] b.kind = "undecoded"     -> Declare(b)
           /\ job' = IF Written(b) THEN [job EXCEPT !.todo = Tail(@)] ELSE [job EXCEPT !.step = "raise"]
    /\ UNCHANGED <<agenda, orders>>

EndRewritten ==
    /\ Turn /\ Head(agenda).pid = None
    /\ End(Head(agenda).sid, << >>)
    /\ agenda' = Tail(agenda)
    /\ job' = IF Tail(agenda) = << >> THEN [job EXCEPT !.step = "end"] ELSE job
    /\ UNCHANGED orders

RewriteNext ==
    \/ BeginStream \/ CallbackRaises \/ WriteNext \/ EndRewritten
    \/ Leaving /\ UNCHANGED <<agenda, orders>>

-------------------------------------------------------------------------------
(* Properties *)

Rewrites(v) == v.key \in DOMAIN orders

\* The records and breaks the output has of stream v.
OutputOf(v) ==
    SelectSeq(SelectSeq(file, LAMBDA b : b.kind \in {"record", "discontinuity"}),
              LAMBDA b : b.sid = v.sid /\ b.pid = v.pid)

\* The blocks of v that the neighbours at x and y of its output were.
Neighbours(blocks) ==
    { <<x, y>> \in (DOMAIN blocks) \X (DOMAIN blocks) :
        /\ x < y /\ IsRecord(blocks[x]) /\ IsRecord(blocks[y])
        /\ \A z \in x + 1 .. y - 1 : ~ IsRecord(blocks[z]) }

OriginOf(v, blocks, x) == orders[v.key][Len(SelectSeq(SubSeq(blocks, 1, x), IsRecord))]

\* i and j are neighbours of v too, or have nothing but empty records between them.
Join(v, i, j) ==
    /\ PlaceOf(v, i)[2] = PlaceOf(v, j)[1]
    /\ \A k \in i + 1 .. j - 1 : IsRecord(v.blocks[k])

Ascending(order) == \A m, n \in DOMAIN order : m < n => order[m] < order[n]

\* A record with no bytes, moved, takes along the break before it: see the README.
NoEmptyMoved(v) ==
    Ascending(orders[v.key]) \/ \A i \in RecordNumbers(v) : v.blocks[i].len > 0

\* "do these two join?" (transform.py _declare_seam): two records of the output with
\* no break between them joined in the input, however the records were filtered and
\* rearranged.  Between two that are still in stored order, and none of what lay between
\* them kept elsewhere, the breaks are together as wide as that: a carried-forward width
\* is not declared again, "the same missing bytes twice".
SeamsAreDeclared ==
    \A v \in Range(job.inputs) : Rewrites(v) /\ NoEmptyMoved(v) =>
        LET blocks == OutputOf(v)
        IN  \A pair \in Neighbours(blocks) :
                LET i       == OriginOf(v, blocks, pair[1])
                    j       == OriginOf(v, blocks, pair[2])
                    between == SubSeq(blocks, pair[1] + 1, pair[2] - 1)
                    widths  == FoldLeft(LAMBDA sum, b : sum + WidthOf(b), 0, between)
                IN  /\ between = << >> => Join(v, i, j)
                    /\ i < j /\ (i + 1 .. j - 1) \cap Range(orders[v.key]) = {} =>
                          widths = PlaceOf(v, j)[1] - PlaceOf(v, i)[2]

\* "the record's own spans, which is what the function's name promises" for one hop,
\* and a further hop answers with the spans of the record the bytes came from
\* (transform.py resolve_spans), whatever was written ahead of it.
ResolvesToInput ==
    \A v \in Range(job.inputs) : Rewrites(v) =>
        LET written == SelectSeq(OutputOf(v), IsRecord)
            chain   == <<Range(job.inputs)>>
        IN  \A n \in DOMAIN written :
                LET source == v.blocks[orders[v.key][n]]
                IN  /\ ResolveSpans(written[n], chain, 1) = {SpanOf(v, PlaceOf(v, orders[v.key][n]))}
                    /\ \A hops \in {2, None} :
                          ResolveSpans(written[n], chain, hops) =
                              IF source.len = 0 \/ source.spans = {} THEN written[n].spans
                              ELSE source.spans

===============================================================================
