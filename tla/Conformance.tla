----------------------------- MODULE Conformance -----------------------------
(***************************************************************************)
(* ConformanceChecker: the single-pass check of a block sequence against   *)
(* the semantic tier.  FileWriter runs it before every write, FileReader   *)
(* over every block it reads, so the checker is a value here: Refuses says *)
(* that observe(block) raises an isolating violation, Advises that it      *)
(* raises an advisory one once the block is absorbed, Unplaceable that it  *)
(* leaves a placement note, and Absorbed and Left give the state after a   *)
(* block that was absorbed and after one that was refused.                 *)
(*                                                                         *)
(* Blocks are records with a field kind.  An input stream, which the code  *)
(* names (source_id, session_id, participant_id), is a pair of a source    *)
(* and a number; 0 is the pair of ids 0 and 0.  Ranges of offsets are kept *)
(* as sets of offsets: _intervals.py coalesces lists to the same effect.   *)
(***************************************************************************)
EXTENDS StoredOrder, Sequences, FiniteSetsExt

CONSTANTS
    Sids, SourceIds, DecoderIds,    \* the ids blocks may use
    Inputs,                         \* the streams of an input file
    MaxOffset                       \* bound: the largest offset a block names

ASSUME IdsAssumption ==
    /\ Inputs \subseteq Nat
    /\ MaxOffset \in Nat
    /\ None \notin {"plain", "derived", "capture", "zpf", "unknown",
                     "transport", "decoded", "undefined"}

Keys == SourceIds \X Inputs

\* The offsets of [start, end).
Span(start, end) == start .. end - 1

RegionType == [key : Keys, start : Nat \cup {None}, end : Nat]

SpanType == [source : SourceIds, input : Inputs, start : 0 .. MaxOffset, end : 0 .. MaxOffset]

ExtentType == [source : SourceIds, input : Inputs, extent : Nat]

\* One field per fact a rule reads.  A record's label is a content_type or a
\* role; badLabel says that a closed scheme of content.py refuses it.
BlockType ==
    [kind : {"header"}, derived : BOOLEAN, digest : BOOLEAN]
    \cup [kind : {"source"}, id : SourceIds, source : {"capture", "zpf", "unknown"}]
    \cup [kind : {"decoder"}, id : DecoderIds, layer : {"transport", "decoded", "undefined"}]
    \cup [kind : {"session"}, sid : Sids]
    \cup [kind : {"participant"}, sid : Sids, pid : Pids, isn : SeqNum \cup {None},
          adjacency : {"contiguous", "units", "undefined"}]
    \cup [kind : {"record"}, sid : Sids, pid : Pids, source : SourceIds,
          decoder : DecoderIds \cup {None}, seq : SeqNum \cup {None},
          flag : {"none", "syn", "fin"}, copy : BOOLEAN, payload : Nat,
          label : BOOLEAN, badLabel : BOOLEAN, spans : SUBSET SpanType]
    \cup [kind : {"discontinuity", "name"}, sid : Sids, pid : Pids]
    \cup [kind : {"undecoded"}, source : SourceIds, input : Inputs,
          start : 0 .. MaxOffset, end : 0 .. MaxOffset, decoder : DecoderIds \cup {None},
          reason : {"gap", "truncated", "undecodable", "skipped", "dropped", "own", None},
          class : {"bytes", "hole", "odd", None}]
    \cup [kind : {"sessionEnd"}, sid : Sids, extents : Seq(ExtentType)]
    \cup [kind : {"custom", "end"}]

-------------------------------------------------------------------------------
(* State *)

\* _ParticipantState
NewStream(isn, adjacency) ==
    [adjacency |-> adjacency, reported |-> FALSE, isn |-> isn, layers |-> {},
     broken |-> FALSE,                              \* has_discontinuity
     anchor |-> IF isn = None THEN None ELSE (isn + 1) % SeqSpace,
     lastSeq |-> None, reach |-> [k \in Keys |-> None], brokeSince |-> FALSE,
     candidates |-> {}, payload |-> None, anchored |-> FALSE, copied |-> FALSE]

StreamType ==
    [adjacency : {"contiguous", "units"}, reported : BOOLEAN, isn : SeqNum \cup {None},
     layers : SUBSET {"transport", "decoded", "undefined"}, broken : BOOLEAN,
     anchor : SeqNum \cup {None}, lastSeq : SeqNum \cup {None},
     reach : [Keys -> Nat \cup {None}], brokeSince : BOOLEAN,
     candidates : SUBSET RegionType, payload : Nat \cup {None},
     anchored : BOOLEAN, copied : BOOLEAN]

\* What a dictionary holds of no stream is no stream.
ASSUME NoStreamAssumption == None \notin StreamType

\* CoverageLedger, one _StreamLedger per input stream.
LedgerType ==
    [spans : SUBSET Nat, undecoded : SUBSET Nat, declared : [Sids -> Nat \cup {None}]]

NewLedger == [spans |-> {}, undecoded |-> {}, declared |-> [s \in Sids |-> None]]

NewChecker ==
    [header |-> None, digest |-> FALSE,
     sources |-> [s \in SourceIds |-> None], decoders |-> [d \in DecoderIds |-> None],
     live |-> {}, ended |-> {}, streams |-> [sp \in Sids \X Pids |-> None],
     holes |-> {}, removed |-> {}, breaks |-> {}, zpfSourced |-> FALSE,
     coverage |-> [k \in Keys |-> NewLedger], over |-> FALSE]

CheckerType ==
    [header : {None, "plain", "derived"}, digest : BOOLEAN,
     sources : [SourceIds -> {None, "capture", "zpf", "unknown"}],
     decoders : [DecoderIds -> {None, "transport", "decoded", "undefined"}],
     live : SUBSET Sids, ended : SUBSET Sids,
     streams : [Sids \X Pids -> StreamType \cup {None}],
     holes : SUBSET RegionType, removed : SUBSET RegionType, breaks : SUBSET RegionType,
     zpfSourced : BOOLEAN, coverage : [Keys -> LedgerType], over : BOOLEAN]

-------------------------------------------------------------------------------
(* Rules on one block *)

Derived(c) == c.header = "derived"

Live(c, b) == b.sid \in c.live

\* The block names a participant its live session declared.
Declared(c, b) == Live(c, b) /\ c.streams[b.sid, b.pid] # None

LayerOf(c, b) == IF b.decoder = None THEN "transport" ELSE c.decoders[b.decoder]

OutOfOrder(stream, b) ==
    b.seq # None /\ stream.lastSeq # None /\ ~ SeqLeq(stream.lastSeq, b.seq)

\* A copy is defined on transport records only.
IsCopy(c, b) == b.copy /\ LayerOf(c, b) = "transport"

BadCopy(c, stream, b) ==
    /\ IsCopy(c, b)
    /\ \/ stream.payload = None
       \/ b.payload # stream.payload
       \/ b.seq # None \/ stream.anchored

Placeable(stream, b) ==
    /\ b.seq # None
    /\ stream.anchor # None => SerialDelta(b.seq, stream.anchor) >= 0

\* A placement note: a reader's third channel, beside the two violations.
Unplaceable(c, b) ==
    /\ b.kind = "record"
    /\ Declared(c, b)
    /\ LET stream == c.streams[b.sid, b.pid]
       IN  stream.anchor # None /\ ~ Placeable(stream, b)

\* Slip: a record below the anchor becomes the next one's predecessor.
Anchored_Always(stream, b) == IF b.seq # None THEN [stream EXCEPT !.anchor = b.seq] ELSE stream

\* _check_placement moves the anchor, whatever the later rules say.
Anchored(stream, b) == IF Placeable(stream, b) THEN [stream EXCEPT !.anchor = b.seq] ELSE stream

\* _transport_adjacency reports units on a transport stream once.
ReportsUnits(c, stream, b) ==
    LayerOf(c, b) = "transport" /\ stream.adjacency = "units" /\ ~ stream.reported

Reported(c, stream, b) ==
    IF ReportsUnits(c, stream, b) THEN [stream EXCEPT !.reported = TRUE] ELSE stream

UnknownSource(c, b) == c.sources[b.source] \notin {"capture", "zpf"}

UnknownDecoder(c, b) == b.decoder # None /\ c.decoders[b.decoder] = None

\* What _on_record refuses before, and after, it notes the stream's adjacency.
BadRecordEarly(c, b) ==
    LET stream == c.streams[b.sid, b.pid]
    IN  \/ OutOfOrder(stream, b)
        \/ BadCopy(c, stream, b)
        \/ UnknownSource(c, b)
        \/ UnknownDecoder(c, b)

BadRecordLate(c, b) ==
    \/ \E span \in b.spans : c.sources[span.source] # "zpf"
    \/ (c.sources[b.source] = "zpf" /\ (b.spans = {} \/ ~ Derived(c)))

\* Slip: units on a transport stream goes unreported.
Advises_NoUnits(c, b) ==
    /\ b.kind = "record"
    /\ Declared(c, b)
    /\ LET stream == c.streams[b.sid, b.pid]
       IN  \/ b.badLabel
           \/ b.flag = "syn" /\ stream.isn # None /\ b.seq # None
                /\ b.seq # (stream.isn + 1) % SeqSpace
           \/ b.label /\ LayerOf(c, b) # "decoded"

\* The handshake rule, a label at the transport layer, units at that layer.
Advises(c, b) ==
    /\ b.kind = "record"
    /\ Declared(c, b)
    /\ LET stream == c.streams[b.sid, b.pid]
       IN  \/ b.badLabel                                \* _content_type_finding
           \/ b.flag = "syn" /\ stream.isn # None /\ b.seq # None
                /\ b.seq # (stream.isn + 1) % SeqSpace
           \/ b.label /\ LayerOf(c, b) # "decoded"
           \/ ReportsUnits(c, stream, b)

\* The recoverability class a reason implies.
Canonical(reason) ==
    CASE reason \in {"gap", "truncated"} -> "hole"
      [] reason \in {"undecodable", "skipped", "dropped"} -> "bytes"
      [] OTHER -> None

ClassOf(b) == IF b.class # None THEN b.class ELSE Canonical(b.reason)

BadReason(b) ==
    IF b.class = None
    THEN b.reason # None /\ Canonical(b.reason) = None
    ELSE \/ b.class \notin {"bytes", "hole"}
         \/ Canonical(b.reason) # None /\ Canonical(b.reason) # b.class

BadUndecoded(c, b) ==
    \/ UnknownSource(c, b)
    \/ UnknownDecoder(c, b)
    \/ BadReason(b)
    \/ c.sources[b.source] = "capture" /\ (b.input # 0 \/ ClassOf(b) = "hole")

-------------------------------------------------------------------------------
(* The close of a session's streams *)

BadStream(stream) ==
    \/ Cardinality(stream.layers) > 1
    \/ "undefined" \in stream.layers
    \/ stream.copied /\ stream.anchored
    \/ stream.broken /\ "decoded" \notin stream.layers

\* The seams a closed stream hands to the unmarked-break check.
CandidatesOf(stream) ==
    IF stream # None /\ "decoded" \in stream.layers /\ stream.adjacency # "units"
    THEN stream.candidates ELSE {}

StreamsOf(c, sid) == { p \in Pids : c.streams[sid, p] # None }

BadStreams(c, sid) == { p \in StreamsOf(c, sid) : BadStream(c.streams[sid, p]) }

\* Streams close in pid order, up to the first bad one.
Closed(c, sid) ==
    LET closing == { p \in StreamsOf(c, sid) : \A q \in BadStreams(c, sid) : p < q }
    IN  [c EXCEPT
            !.live = @ \ {sid}, !.ended = @ \cup {sid},
            !.streams = [sp \in Sids \X Pids |-> IF sp[1] = sid THEN None ELSE c.streams[sp]],
            !.breaks = @ \cup UNION { CandidatesOf(c.streams[sid, p]) : p \in closing }]

-------------------------------------------------------------------------------
(* observe *)

\* Anything behind the End block, or ahead of the one File Header.
OutOfPlace(c, b) == c.over \/ (c.header = None <=> b.kind # "header")

Refuses(c, b) ==
    \/ OutOfPlace(c, b)
    \/ b.kind = "source" /\ c.sources[b.id] # None
    \/ b.kind = "decoder" /\ c.decoders[b.id] # None
    \/ b.kind = "session" /\ b.sid \in c.live \cup c.ended
    \/ b.kind = "participant" /\ (~ Live(c, b) \/ Declared(c, b) \/ b.adjacency = "undefined")
    \/ /\ b.kind = "record"
       /\ Declared(c, b) => BadRecordEarly(c, b) \/ BadRecordLate(c, b)
    \/ b.kind \in {"discontinuity", "name"} /\ ~ Declared(c, b)
    \/ /\ b.kind = "undecoded"
       /\ BadUndecoded(c, b) \/ (c.sources[b.source] = "zpf" /\ ~ Derived(c))
    \/ /\ b.kind = "sessionEnd"
       /\ \/ b.extents # << >> /\ ~ Derived(c)
          \/ ~ Live(c, b)
          \/ BadStreams(c, b.sid) # {}

\* A hole, or content the stage removed, that a seam must not straddle.
WithRegion(c, b) ==
    LET region == [key |-> <<b.source, b.input>>, start |-> b.start, end |-> b.end]
    IN  CASE c.sources[b.source] # "zpf" \/ b.start >= b.end -> c
          [] c.sources[b.source] = "zpf" /\ b.start < b.end /\ ClassOf(b) = "hole" ->
                [c EXCEPT !.holes = @ \cup {region}]
          [] c.sources[b.source] = "zpf" /\ b.start < b.end /\ ClassOf(b) # "hole" ->
                IF b.reason = "dropped" THEN [c EXCEPT !.removed = @ \cup {region}] ELSE c

\* Adjacent records of a stream whose regions of one input leave a gap.
Candidates(stream, b) ==
    { [key |-> k, start |-> stream.reach[k],
       end |-> Min({ s.start : s \in { x \in b.spans : <<x.source, x.input>> = k } })] :
        k \in { <<s.source, s.input>> : s \in b.spans } }

Reach(b, k) ==
    LET ends == { s.end : s \in { x \in b.spans : <<x.source, x.input>> = k } }
    IN  IF ends = {} THEN None ELSE Max(ends)

\* Slip: a Discontinuity discharges every later seam of its stream.
Tracked_KeepsBreak(stream, b) ==
    [stream EXCEPT
        !.candidates = @ \cup { r \in Candidates(stream, b) :
                                  /\ ~ stream.brokeSince
                                  /\ r.start # None
                                  /\ r.start < r.end },
        !.reach = [k \in Keys |-> Reach(b, k)]]

Tracked(stream, b) ==
    [stream EXCEPT
        !.candidates = @ \cup { r \in Candidates(stream, b) :
                                  /\ ~ stream.brokeSince
                                  /\ r.start # None
                                  /\ r.start < r.end },
        !.reach = [k \in Keys |-> Reach(b, k)],
        !.brokeSince = FALSE]

\* The stream after a record of it was accepted.
StreamAfter(c, b) ==
    LET stream == Tracked(Reported(c, Anchored(c.streams[b.sid, b.pid], b), b), b)
    IN  [stream EXCEPT
            !.layers = @ \cup {LayerOf(c, b)},
            !.lastSeq = IF b.seq = None THEN @ ELSE b.seq,
            !.anchored = @ \/ b.seq # None,
            !.copied = @ \/ IsCopy(c, b),
            !.payload = b.payload]

\* The last length a Session End declares of input stream k.
DeclaredBy(b, k, before) ==
    LET named == { i \in DOMAIN b.extents : <<b.extents[i].source, b.extents[i].input>> = k }
    IN  IF named = {} THEN before ELSE b.extents[Max(named)].extent

\* What the block says of its inputs, once its handler accepted it.
Covered(c, b) ==
    CASE b.kind = "record" ->
            [c EXCEPT !.coverage = [k \in Keys |->
                [c.coverage[k] EXCEPT !.spans = @ \cup UNION { Span(s.start, s.end) :
                    s \in { x \in b.spans : <<x.source, x.input>> = k } }]]]
      [] b.kind = "undecoded" /\ c.sources[b.source] # "capture" ->
            [c EXCEPT !.coverage[<<b.source, b.input>>].undecoded = @ \cup Span(b.start, b.end)]
      [] b.kind = "sessionEnd" ->
            [c EXCEPT !.coverage = [k \in Keys |->
                [c.coverage[k] EXCEPT !.declared[b.sid] = DeclaredBy(b, k, @)]]]
      [] OTHER -> c

\* What its handler makes of a block it accepts.
Handled(c, b) ==
    CASE b.kind = "header" ->
            [c EXCEPT !.header = IF b.derived THEN "derived" ELSE "plain", !.digest = b.digest]
      [] b.kind = "source" -> [c EXCEPT !.sources[b.id] = b.source]
      [] b.kind = "decoder" -> [c EXCEPT !.decoders[b.id] = b.layer]
      [] b.kind = "session" -> [c EXCEPT !.live = @ \cup {b.sid}]
      [] b.kind = "participant" ->
            [c EXCEPT !.streams[<<b.sid, b.pid>>] = NewStream(b.isn, b.adjacency)]
      [] b.kind = "record" ->
            [c EXCEPT !.streams[<<b.sid, b.pid>>] = StreamAfter(c, b),
                      !.zpfSourced = @ \/ c.sources[b.source] = "zpf"]
      [] b.kind = "discontinuity" ->
            [c EXCEPT !.streams[<<b.sid, b.pid>>] = [@ EXCEPT !.broken = TRUE, !.brokeSince = TRUE]]
      [] b.kind = "undecoded" -> WithRegion(c, b)
      [] b.kind = "sessionEnd" -> Closed(c, b.sid)
      [] b.kind = "end" -> [c EXCEPT !.over = TRUE]
      [] b.kind \in {"name", "custom"} -> c

Absorbed(c, b) == Covered(Handled(c, b), b)

\* Slip: a participant is registered before its adjacency is understood.
Left_Registers(c, b) ==
    IF b.kind = "participant" /\ Live(c, b) /\ ~ Declared(c, b)
    THEN [c EXCEPT !.streams[<<b.sid, b.pid>>] = NewStream(b.isn, "contiguous")]
    ELSE c

\* Slip: a block counts towards coverage before its handler ran.
Left_Counts(c, b) == IF b.kind = "record" THEN Covered(c, b) ELSE c

\* What a refused block leaves behind: an observation that raises keeps what
\* its handler did first.
Left(c, b) ==
    CASE OutOfPlace(c, b) -> c
      [] ~ OutOfPlace(c, b) /\ b.kind = "record" ->
            IF ~ Declared(c, b) THEN c
            ELSE LET placed == Anchored(c.streams[b.sid, b.pid], b)
                 IN  [c EXCEPT !.streams[<<b.sid, b.pid>>] =
                        IF BadRecordEarly(c, b) THEN placed ELSE Reported(c, placed, b)]
      [] ~ OutOfPlace(c, b) /\ b.kind = "undecoded" ->
            IF BadUndecoded(c, b) THEN c ELSE WithRegion(c, b)
      [] ~ OutOfPlace(c, b) /\ b.kind = "sessionEnd" ->
            IF (b.extents # << >> /\ ~ Derived(c)) \/ ~ Live(c, b) THEN c ELSE Closed(c, b.sid)
      [] ~ OutOfPlace(c, b) /\ b.kind \notin {"record", "undecoded", "sessionEnd"} -> c

-------------------------------------------------------------------------------
(* finish *)

\* A held seam and a region between its two sides.
Straddles(seam, region) ==
    seam.key = region.key /\ region.start < seam.end /\ seam.start < region.end

UnmarkedBreaks(c) ==
    { seam \in c.breaks \cup UNION { UNION { CandidatesOf(c.streams[s, p]) : p \in Pids } : s \in c.live } :
        \E region \in c.holes \cup c.removed : Straddles(seam, region) }

\* One past the last offset the file accounts for.
Reached(ledger) ==
    LET covered == ledger.spans \cup ledger.undecoded
    IN  IF covered = {} THEN 0 ELSE Max(covered) + 1

CoverageFault(ledger) ==
    LET values == { ledger.declared[s] : s \in Sids } \ {None}
        reach  == Reached(ledger)
    IN  \/ Cardinality(values) > 1
        \/ ledger.spans # {} /\ ~ (Span(0, reach) \subseteq ledger.spans \cup ledger.undecoded)
        \/ \E extent \in values : extent > reach + 1 \/ extent < reach

\* finish() raises.
FinishRefuses(c) ==
    \/ \E s \in c.live : BadStreams(c, s) # {}
    \/ c.digest /\ ~ c.zpfSourced
    \/ UnmarkedBreaks(c) # {}
    \/ \E k \in Keys : CoverageFault(c.coverage[k])

===============================================================================
