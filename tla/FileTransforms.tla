---------------------------- MODULE FileTransforms ----------------------------
(***************************************************************************)
(* What the transforms of transform.py share: a job, which reads input     *)
(* streams and writes one file through a FileWriter, and the questions     *)
(* asked of a file and its input afterwards (check_coverage, check_splice, *)
(* resolve_spans).                                                         *)
(*                                                                         *)
(* An input stream is a stream of StreamPlaces with the key the output     *)
(* cites it by: [key, sid, pid, isn, layer, units, blocks].  A file is the *)
(* sequence of blocks that FileWriting writes.                             *)
(***************************************************************************)
EXTENDS FileWriting, StreamPlaces

VARIABLE job                    \* [inputs, step, todo]: the inputs, how far the transform
                                \* has come, and the blocks it has still to write

RecordsAmong(blocks) == { b \in ToSet(blocks) : b.kind = "record" }

InOrder(ranges) ==
    SetToSortSeq(ranges, LAMBDA r, s : r[1] < s[1] \/ (r[1] = s[1] /\ r[2] < s[2]))

SpanOf(v, range) == [source |-> v.key[1], input |-> v.key[2], start |-> range[1], end |-> range[2]]

SpansNaming(b, k) == { s \in b.spans : <<s.source, s.input>> = k }

-------------------------------------------------------------------------------
(* check_coverage *)

\* _cited_intervals: empty ranges say nothing.
CitedOf(blocks, k) ==
    InOrder({ <<s.start, s.end>> : s \in { x \in UNION { SpansNaming(b, k) : b \in RecordsAmong(blocks) } :
                                            x.start < x.end } })

MarkedOf(blocks, k) ==
    InOrder({ <<b.start, b.end>> : b \in { x \in ToSet(blocks) :
                x.kind = "undecoded" /\ <<x.source, x.input>> = k /\ x.start < x.end } })

DeclaredOf(blocks, k) ==
    UNION { { b.extents[i].extent : i \in { j \in DOMAIN b.extents :
                  <<b.extents[j].source, b.extents[j].input>> = k } } :
              b \in { x \in ToSet(blocks) : x.kind = "sessionEnd" } }

Finding(category, offset) == [category |-> category, offset |-> offset]

\* Slip: a FIN's position is owed like a byte's.
CheckStream_OwesFins(extent, cited, marked, exempt) ==
    LET covered == ToSet(cited) \cup ToSet(marked)
    IN  { Finding("coverage-overlap", r[1]) : r \in ToSet(Intersections(cited, marked)) }
        \cup { Finding("coverage-gap", r[1]) : r \in ToSet(Complement(InOrder(covered), extent)) }
        \cup { Finding("coverage-excess", r[1]) : r \in { x \in covered : x[2] > extent } }

\* _check_stream: a FIN's position counts as covered for the gaps only.
CheckStream(extent, cited, marked, exempt) ==
    LET covered == ToSet(cited) \cup ToSet(marked)
        free    == { <<f, f + 1>> : f \in exempt }
    IN  { Finding("coverage-overlap", r[1]) : r \in ToSet(Intersections(cited, marked)) }
        \cup { Finding("coverage-gap", r[1]) : r \in ToSet(Complement(InOrder(covered \cup free), extent)) }
        \cup { Finding("coverage-excess", r[1]) : r \in { x \in covered : x[2] > extent } }

\* _check_declared: only a stream the input has can be measured.
CheckDeclared(extent, declared) ==
    { Finding("extent-mismatch", value) : value \in declared \ {extent} }

\* What check_coverage finds of the streams, and of the keys no stream has.
CheckCoverage(blocks, given) ==
    UNION { CheckStream(StreamExtent(v), CitedOf(blocks, v.key), MarkedOf(blocks, v.key), FinPositions(v))
                \cup CheckDeclared(StreamExtent(v), DeclaredOf(blocks, v.key)) : v \in given }
    \cup UNION { CheckStream(0, CitedOf(blocks, k), MarkedOf(blocks, k), {}) :
                   k \in Keys \ { v.key : v \in given } }

-------------------------------------------------------------------------------
(* check_splice *)

\* _break_positions: where each break of a stream sits, and its width.
BreakPositions(v) ==
    FoldLeft(LAMBDA at, b :
                LET width == IF IsRecord(b) \/ b.width = None THEN 0 ELSE b.width
                IN  IF IsRecord(b) THEN [at EXCEPT !.cursor = @ + b.len]
                    ELSE [cursor |-> at.cursor + width,
                          found  |-> at.found \cup {[position |-> at.cursor, width |-> width]}],
             [cursor |-> 0, found |-> {}], v.blocks).found

\* _crossings: the breaks a record cites bytes on both sides of.
Crossings(b, v) ==
    LET cited == { s \in SpansNaming(b, v.key) : s.start < s.end }
    IN  { x \in BreakPositions(v) :
            /\ cited # {}
            /\ Min({ s.start : s \in cited }) < x.position
            /\ Max({ s.end : s \in cited }) > x.position + x.width }

\* stream_layer: what the decoders of a stream's records put out, with no decoder and
\* with no record the transport layer.  A stream of two layers raises.
LayersOf(blocks, s, p) ==
    UNION { IF b.decoder = None THEN {"transport"}
            ELSE { d.layer : d \in { x \in ToSet(blocks) : x.kind = "decoder" /\ x.id = b.decoder } } :
              b \in { x \in RecordsAmong(blocks) : x.sid = s /\ x.pid = p } }

\* A seq_start, or that it is one message, is a record's evidence that what it cites
\* joins; in a transport stream such a record may cross a break.
MayCross(blocks, b) ==
    /\ b.seq # None \/ b.message
    /\ LayersOf(blocks, b.sid, b.pid) = {"transport"}

CheckSplice(blocks, given) ==
    UNION { UNION { Crossings(b, v) : v \in given } :
              b \in { x \in RecordsAmong(blocks) : ~ MayCross(blocks, x) } }

-------------------------------------------------------------------------------
(* resolve_spans, up a chain of files *)

\* Slip: a record that only touches the span answers for it.
Answering_Touching(v, span) ==
    { i \in DOMAIN RecordsIn(v) :
        RecordRanges(v)[i][2] >= span.start /\ RecordRanges(v)[i][1] <= span.end }

\* The records of a stream that hold bytes of the span.
Answering(v, span) ==
    { i \in DOMAIN RecordsIn(v) :
        RecordRanges(v)[i][2] > span.start /\ RecordRanges(v)[i][1] < span.end }

\* _follow, _resolve_at: chain[n] is the streams of the file n levels up the file
\* that holds the record; with no level left, or none that answers, a span is
\* as deep as the chain records.  None stands for all hops.
ResolveSpans(b, chain, hops) ==
    LET last == IF hops = None THEN Len(chain) ELSE Smaller(hops - 1, Len(chain))
        Up(span, given) ==
            LET named == { v \in given : v.key = <<span.source, span.input>> }
                found == UNION { UNION { RecordsIn(v)[i].spans : i \in Answering(v, span) } : v \in named }
            IN  IF found = {} THEN [spans |-> {}, deepest |-> {span}]
                ELSE [spans |-> found, deepest |-> {}]
        Hop(state, given) ==
            LET ups == { Up(span, given) : span \in state.spans }
            IN  [spans   |-> UNION { up.spans : up \in ups },
                 deepest |-> state.deepest \cup UNION { up.deepest : up \in ups }]
        end == FoldLeft(Hop, [spans |-> b.spans, deepest |-> {}], SubSeq(chain, 1, last))
    IN  end.spans \cup end.deepest

-------------------------------------------------------------------------------
(* A job that ends: session.end(), then the end of "with writer" *)

\* session.end() returns or raises.
JobSessionEnds ==
    /\ EndSession
    /\ job' = IF Emits(SessionEndOf(call.sid, call.extents)) THEN job
              ELSE [job EXCEPT !.step = "raise"]

JobSkipsFlush == SkipFlush /\ UNCHANGED job

\* The body raised: the writer is closed as it stands.
JobRaises ==
    /\ job.step = "raise"
    /\ Abandon
    /\ job' = [job EXCEPT !.step = "done"]

CloseWritten ==
    /\ job.step = "end" /\ call = Idle
    /\ Close
    /\ job' = [job EXCEPT !.step = "close"]

JobClosed ==
    /\ EndFile
    /\ job' = [job EXCEPT !.step = "done"]

Leaving == JobSessionEnds \/ JobSkipsFlush \/ JobRaises \/ CloseWritten \/ JobClosed

-------------------------------------------------------------------------------
(* Properties *)

\* A stream that ends in a break with a width, which no record comes behind.
TrailsOff(v) == \E x \in BreakPositions(v) : x.position + x.width > StreamExtent(v)

\* A transform that closed its file accounts for all of its input, none of it twice
\* and none beyond it, at lengths that are the input's, joins no bytes across a break
\* of it, and a strict reader of the output finds no fault (transform.py: "so the
\* coverage guarantee holds over the whole input").  One that raised half way leaves
\* no End block.
TransformCovers ==
    Complete /\ (\A v \in Range(job.inputs) : ~ TrailsOff(v)) =>
        /\ CheckCoverage(file, Range(job.inputs)) = {}
        /\ CheckSplice(file, Range(job.inputs)) = {}
        /\ tail.ok /\ ~ FinishRefuses(tail.checker)

\* What check_coverage looks for, offset by offset.
OffsetsOwed(v) == (0 .. StreamExtent(v) - 1) \ FinPositions(v)

CoverageHolds(v) ==
    LET cited  == Offsets(CitedOf(file, v.key))
        marked == Offsets(MarkedOf(file, v.key))
    IN  /\ OffsetsOwed(v) \subseteq cited \cup marked
        /\ cited \cap marked = {}
        /\ cited \cup marked \subseteq 0 .. StreamExtent(v) - 1
        /\ DeclaredOf(file, v.key) \subseteq {StreamExtent(v)}

\* "never silently dropped, never both" (transform.py check_coverage): its findings
\* on a file, whole or broken off anywhere, are none exactly when each offset that is
\* owed is accounted for once.
CoverageCheckIsExact ==
    CheckCoverage(file, Range(job.inputs)) = {} <=> \A v \in Range(job.inputs) : CoverageHolds(v)

===============================================================================
