---------------------------- MODULE LenientReader ----------------------------
(***************************************************************************)
(* The indexing pass of FileReader: every block of a file goes through the *)
(* checker, a block whose observation raises is isolated (in strict mode   *)
(* the reader raises instead), every other block is filed into the index,  *)
(* and the end of the stream runs the checks that need the whole of it.    *)
(* The blocks are those BlockReader yields: a File Header first, nothing   *)
(* behind an End block, and possibly no End block at all.                  *)
(***************************************************************************)
EXTENDS Conformance, Sequences, SequencesExt

CONSTANTS
    Headers, Blocks,            \* the blocks a file may hold
    MaxBlocks                   \* bound: the blocks of a file, its header apart

ASSUME BlocksAssumption ==
    /\ Headers \cup Blocks \subseteq BlockType
    /\ \A b \in Headers : b.kind = "header"
    /\ MaxBlocks \in Nat

VARIABLES
    strict,                     \* open(strict=True)
    checker,                    \* the ConformanceChecker
    index,                      \* the blocks filed, in file order, with their notes
    isolated,                   \* the blocks refused and dropped, in file order
    status,                     \* "indexing", "indexed" or "raised"
    fault                       \* the end-of-stream pass found a violation

vars == <<strict, checker, index, isolated, status, fault>>

TypeOK ==
    /\ strict \in BOOLEAN
    /\ checker \in CheckerType
    /\ index \in Seq([block : BlockType, noted : BOOLEAN])
    /\ isolated \in Seq(BlockType)
    /\ status \in {"indexing", "indexed", "raised"}
    /\ fault \in BOOLEAN

Init ==
    /\ strict \in BOOLEAN
    /\ checker \in { Absorbed(NewChecker, header) : header \in Headers }
    /\ index = << >>
    /\ isolated = << >>
    /\ status = "indexing"
    /\ fault = FALSE

MoreBlocks == status = "indexing" /\ Len(index) + Len(isolated) < MaxBlocks /\ ~ checker.over

\* _admit and _file_into_index; an advisory finding does not cost the block.
Admit(b) ==
    /\ MoreBlocks
    /\ ~ Refuses(checker, b)
    /\ strict => ~ Advises(checker, b)
    /\ checker' = Absorbed(checker, b)
    /\ index' = Append(index, [block |-> b, noted |-> Unplaceable(checker, b)])
    /\ UNCHANGED <<strict, isolated, status, fault>>

Isolate(b) ==
    /\ MoreBlocks
    /\ ~ strict
    /\ Refuses(checker, b)
    /\ checker' = Left(checker, b)
    /\ isolated' = Append(isolated, b)
    /\ UNCHANGED <<strict, index, status, fault>>

\* Strict: the first finding closes the reader.
Raise(b) ==
    /\ MoreBlocks
    /\ strict
    /\ Refuses(checker, b) \/ Advises(checker, b)
    /\ checker' = IF Refuses(checker, b) THEN Left(checker, b) ELSE Absorbed(checker, b)
    /\ status' = "raised"
    /\ UNCHANGED <<strict, index, isolated, fault>>

\* _finish_checks, at the End block or where the stream stops.
FinishChecks ==
    /\ status = "indexing"
    /\ fault' = FinishRefuses(checker)
    /\ status' = IF strict /\ FinishRefuses(checker) THEN "raised" ELSE "indexed"
    /\ UNCHANGED <<strict, checker, index, isolated>>

Read(b) == Admit(b) \/ Isolate(b) \/ Raise(b)

Next ==
    \/ \E b \in Blocks : Read(b)
    \/ FinishChecks

Spec == Init /\ [][Next]_vars

-------------------------------------------------------------------------------
(* The file the reader shows: its index, read as a whole *)

Filed(i) == index[i].block

Positions == 1 .. Len(index)

Of(kind) == { i \in Positions : Filed(i).kind = kind }

OfStream(kind, s, p) == { i \in Of(kind) : Filed(i).sid = s /\ Filed(i).pid = p }

LayersOf(s, p) == { LayerOf(checker, Filed(i)) : i \in OfStream("record", s, p) }

\* A record is filed only behind what it names: its session, still open, its
\* participant, its source, its decoder and its spans' sources.  So isolating a
\* descriptor isolates everything that depends on it (conformance.py
\* _on_participant: "discards the participant together with everything that
\* references it").
DependentsIsolated ==
    \A i \in Of("record") :
        /\ \E j \in OfStream("participant", Filed(i).sid, Filed(i).pid) : j < i
        /\ \E j \in Of("session") : j < i /\ Filed(j).sid = Filed(i).sid
        /\ ~ \E j \in Of("sessionEnd") : j < i /\ Filed(j).sid = Filed(i).sid
        /\ \A source \in {Filed(i).source} \cup { x.source : x \in Filed(i).spans } :
              \E j \in Of("source") : j < i /\ Filed(j).id = source
        /\ Filed(i).decoder # None =>
              \E j \in Of("decoder") : j < i /\ Filed(j).id = Filed(i).decoder

\* What blocks of the index cite, mark and declare of input stream k.
CitedOf(k) ==
    UNION { UNION { Span(x.start, x.end) : x \in { y \in Filed(i).spans : <<y.source, y.input>> = k } } :
            i \in Of("record") }

MarkedOf(k) ==
    UNION { Span(Filed(i).start, Filed(i).end) :
            i \in { j \in Of("undecoded") : /\ <<Filed(j).source, Filed(j).input>> = k
                                            /\ checker.sources[Filed(j).source] = "zpf" } }

\* "A dropped block's claims must not count towards the guarantee"
\* (conformance.py observe): the coverage the checker judges is exactly what
\* the filed blocks say, whatever was isolated among them.  A strict reader that
\* raised has no index to show, and no verdict.
CoverageFromIndex ==
    status # "raised" => \A k \in Keys :
        /\ checker.coverage[k].spans = CitedOf(k)
        /\ checker.coverage[k].undecoded = MarkedOf(k)

-------------------------------------------------------------------------------
(* Placement: the checker's notes against the offsets a reader computes *)

\* The records of a stream, as positions of the index.
StreamRecords(s, p) ==
    SelectSeq([i \in Positions |-> i],
              LAMBDA i : i \in OfStream("record", s, p))

IsnOf(s, p) == Filed(CHOOSE i \in OfStream("participant", s, p) : TRUE).isn

\* reassembly.py record_ranges: whether the last of a transport stream's records
\* is placed, the origin being isn + 1 or the first seq_start of the stream.
LastPlaced(isn, records) ==
    OffsetOf(FoldLeft(Placed, NewPlacer(isn), Front(records)), Last(records)) # None

\* Nothing a pass over these records has read anchors the stream.
Unanchored(isn, records) ==
    isn = None /\ \A m \in 1 .. Len(records) : records[m].seq = None

NotesAgreeOn(s, p) ==
    LET positions == StreamRecords(s, p)
        records   == [n \in 1 .. Len(positions) |-> Filed(positions[n])]
        isn       == IsnOf(s, p)
    IN  \A n \in 1 .. Len(positions) :
            index[positions[n]].noted <=>
                /\ ~ Unanchored(isn, SubSeq(records, 1, n))
                /\ ~ LastPlaced(isn, SubSeq(records, 1, n))

Untouched(s, p) ==
    \A i \in 1 .. Len(isolated) :
        ~ (isolated[i].kind = "record" /\ isolated[i].sid = s /\ isolated[i].pid = p)

\* The single-pass notes and the whole-stream offset walk "agree on which
\* records are unplaceable" (conformance.py _ParticipantState), on transport
\* streams no record of which was isolated, but for the shape a single pass
\* cannot see: a hint-less record ahead of the first hint.
NotesAgree ==
    \A s \in Sids, p \in Pids :
        /\ OfStream("participant", s, p) # {}
        /\ LayersOf(s, p) = {"transport"}
        /\ Untouched(s, p)
        => NotesAgreeOn(s, p)

\* The same of every transport stream, isolation or none: "a raised violation
\* leaves the checker consistent (block isolation)" (conformance.py _on_record).
NotesSurviveIsolation ==
    \A s \in Sids, p \in Pids :
        OfStream("participant", s, p) # {} /\ LayersOf(s, p) = {"transport"} => NotesAgreeOn(s, p)

-------------------------------------------------------------------------------
(* The end-of-stream verdict, stated over the file as a whole *)

Units(s, p) == \A i \in OfStream("participant", s, p) : Filed(i).adjacency = "units"

BreakBetween(s, p, i, j) == \E m \in OfStream("discontinuity", s, p) : i < m /\ m < j

Neighbours(records, i, j) == i < j /\ ~ \E m \in records : i < m /\ m < j

SpansOn(i, k) == { x \in Filed(i).spans : <<x.source, x.input>> = k }

\* Of input stream k, the block between what i and j cite has no content to give.
LostBetween(i, j, k) ==
    /\ SpansOn(i, k) # {} /\ SpansOn(j, k) # {}
    /\ \E u \in Of("undecoded") :
          LET from == Max({ x.end : x \in SpansOn(i, k) })
              to   == Min({ x.start : x \in SpansOn(j, k) })
          IN  /\ <<Filed(u).source, Filed(u).input>> = k
              /\ ClassOf(Filed(u)) = "hole" \/ Filed(u).reason = "dropped"
              /\ Span(from, to) \cap Span(Filed(u).start, Filed(u).end) # {}

\* Two neighbours of a decoded stream cite one input stream either side of a
\* region that the file says holds no bytes, or had its content removed, and
\* nothing says that they do not join.
UnmarkedBreakInFile ==
    \E s \in Sids, p \in Pids :
        LET records == OfStream("record", s, p)
        IN  /\ "decoded" \in LayersOf(s, p)
            /\ ~ Units(s, p)
            /\ \E i, j \in records :
                  /\ Neighbours(records, i, j)
                  /\ ~ BreakBetween(s, p, i, j)
                  /\ \E k \in Keys : LostBetween(i, j, k)

\* A stream whose records resolve to no one layer, or that holds what its layer
\* forbids.
BadStreamInFile ==
    \E s \in Sids, p \in Pids :
        LET layers == LayersOf(s, p)
        IN  \/ Cardinality(layers) > 1 \/ "undefined" \in layers
            \/ layers \in {{}, {"transport"}} /\ OfStream("discontinuity", s, p) # {}
            \/ \E i, j \in OfStream("record", s, p) :
                  IsCopy(checker, Filed(i)) /\ Filed(j).seq # None

\* An input stream some record cites has an offset below the highest one named
\* that nothing names; or the lengths declared for it, the last of each Session End,
\* disagree with each other, or with what is named by more than the one position a FIN may occupy.
CoverageFaultInFile ==
    \E k \in Keys :
        LET named    == CitedOf(k) \cup MarkedOf(k)
            declared == { DeclaredBy(Filed(i), k, None) : i \in Of("sessionEnd") } \ {None}
        IN  \/ Cardinality(declared) > 1
            \/ CitedOf(k) # {} /\ \E o \in named : \E hole \in Span(0, o) : hole \notin named
            \/ \E extent \in declared :
                  \/ \E o \in named : o >= extent
                  \/ extent >= 2 /\ \A o \in named : o < extent - 2

\* The verdict of the one pass, with its seams held over and its ledgers folded
\* block by block, is the verdict on the whole file, wherever the Undecoded
\* blocks and the Session Ends stand in it.
VerdictIsWholeFile ==
    status = "indexed" /\ isolated = << >> =>
        (fault <=> \/ BadStreamInFile
                   \/ UnmarkedBreakInFile
                   \/ CoverageFaultInFile
                   \/ checker.digest /\ ~ checker.zpfSourced)

\* Whatever a lenient reader would have reported, a strict one raises on: a file
\* it opens has no fault as a whole, and none of its transport streams is
\* labelled or declared a unit sequence (reader.py _admit, _finish_checks).
StrictIsSilent ==
    strict /\ status = "indexed" =>
        /\ isolated = << >>
        /\ ~ BadStreamInFile
        /\ ~ UnmarkedBreakInFile
        /\ ~ CoverageFaultInFile
        /\ \A i \in Of("record") :
              /\ Filed(i).label => LayerOf(checker, Filed(i)) = "decoded"
              /\ Units(Filed(i).sid, Filed(i).pid) => LayerOf(checker, Filed(i)) = "decoded"

\* "Only blocks the handlers accepted contribute coverage" (conformance.py
\* observe), and so to the verdict: an end-of-
\* stream fault is one of the file the reader shows.
FaultIsInIndex ==
    status = "indexed" /\ fault =>
        \/ BadStreamInFile
        \/ UnmarkedBreakInFile
        \/ CoverageFaultInFile
        \/ checker.digest /\ ~ checker.zpfSourced

===============================================================================
