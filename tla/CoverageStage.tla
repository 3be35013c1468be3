---------------------------- MODULE CoverageStage ----------------------------
(***************************************************************************)
(* What a DecodeStage and a SessionizeStage have in common: an input file  *)
(* being read, an output file being written, and a ledger of what the      *)
(* output accounts for of the input.  close() fills in the rest.           *)
(*                                                                         *)
(* The output is a FileWriter, so each step that writes is one of the      *)
(* actions of FileWriting.  What reassembly says of an input stream is     *)
(* given: its extent, its holes and the positions of its FINs.             *)
(***************************************************************************)
EXTENDS FileWriting, Intervals

CONSTANT InputFiles             \* the input files: the streams streams() lists, session by session

\* The number Conformance knows a stream by.
InputOf(s, p) == s * Cardinality(Pids) + p

\* Holes lie below the extent, in order and apart from each other and from FINs.
InputStream(x) ==
    /\ x.sid \in Sids /\ x.pid \in Pids
    /\ x.extent \in Nat
    /\ x.gaps \in Seq(Ranges) /\ x.fins \in Seq(Nat)
    /\ Coalesced(x.gaps) /\ Offsets(x.gaps) \subseteq 0 .. x.extent - 1
    /\ Coalesced([i \in DOMAIN x.fins |-> <<2 * x.fins[i], 2 * x.fins[i] + 1>>])
    /\ ToSet(x.fins) \subseteq 0 .. x.extent - 1
    /\ ToSet(x.fins) \cap Offsets(x.gaps) = {}

\* What a stage lets its caller cite and mark: ranges of the streams of its input.
Citable(span) == span.start \in Nat /\ span.end \in Nat

Markable(b) ==
    /\ b.kind = "undecoded"
    /\ b.source = 0 /\ b.input \in Inputs
    /\ b.start \in Nat /\ b.end \in Nat

ASSUME StageAssumption ==
    /\ Pids = 0 .. Cardinality(Pids) - 1
    /\ \A b \in Producer.records : IsFiniteSet(b.spans) /\ \A span \in b.spans : Citable(span)
    /\ \A b \in Producer.declarations : Markable(b)
    /\ \A s \in Sids, p \in Pids : InputOf(s, p) \in Inputs
    /\ 0 \in SourceIds /\ 0 \in DecoderIds
    /\ \A streamsOf \in InputFiles :
          /\ streamsOf \in Seq(ToSet(streamsOf))
          /\ \A i \in DOMAIN streamsOf : InputStream(streamsOf[i])
          /\ \A i, j \in DOMAIN streamsOf :
                i # j => InputOf(streamsOf[i].sid, streamsOf[i].pid)
                            # InputOf(streamsOf[j].sid, streamsOf[j].pid)

VARIABLE stage                  \* the input, the ledger, and how far close() has come

StageTypeOK ==
    /\ TypeOK
    /\ DOMAIN stage = {"inputs", "fill", "cited", "marked", "step", "unfilled", "fills"}
    /\ stage.inputs \in InputFiles
    /\ stage.cited \in [Inputs -> Seq(Ranges)] /\ stage.marked \in [Inputs -> Seq(Ranges)]
    /\ stage.step \in {"open", "fill", "end", "raise", "done"}

\* A stage over an input: nothing accounted for.
Opened(inputs, fill) ==
    [inputs |-> inputs, fill |-> fill,
     cited |-> [k \in Inputs |-> << >>], marked |-> [k \in Inputs |-> << >>],
     step |-> "open", unfilled |-> << >>, fills |-> << >>]

-------------------------------------------------------------------------------
(* The ledger *)

\* The spans of a record that name input stream k of the stage's source.
SpansOn(b, k) == { span \in b.spans : span.source = 0 /\ span.input = k }

\* cite
Cited(ledger, b) ==
    [k \in Inputs |->
        FoldSet(LAMBDA span, list : Add(list, span.start, span.end), ledger[k], SpansOn(b, k))]

\* The input accounted for, and what close() still has to mark of stream x.
Clash(x) ==
    LET k == InputOf(x.sid, x.pid)
    IN  Intersections(stage.cited[k], stage.marked[k]) # << >>

Uncovered(x) ==
    LET k    == InputOf(x.sid, x.pid)
        fins == [i \in DOMAIN x.fins |-> <<x.fins[i], x.fins[i] + 1>>]
    IN  Complement(Coalesce(stage.cited[k] \o stage.marked[k] \o fins), x.extent)

\* Slip: a range that holds a gap anywhere is a gap.
Labelled_Whole(range, gaps) ==
    <<[start |-> range[1], end |-> range[2],
       reason |-> IF \E i \in DOMAIN gaps : gaps[i][1] < range[2] /\ range[1] < gaps[i][2]
                  THEN "gap" ELSE "skipped"]>>

\* A fill, unless there is nothing to fill.
Part(start, end, reason) ==
    IF start < end THEN <<[start |-> start, end |-> end, reason |-> reason]>> ELSE << >>

\* The loop of _label_fills over the gaps: one behind the range, or ahead of what
\* is labelled already, is passed over.
Labelling(state, gap, range) ==
    LET lo == Larger(state.position, gap[1])
        hi == Smaller(range[2], gap[2])
    IN  IF lo >= hi THEN state
        ELSE [position |-> hi,
              parts |-> state.parts \o Part(state.position, lo, "skipped") \o Part(lo, hi, "gap")]

\* _label_fills, of one uncovered range.
Labelled(range, gaps) ==
    LET last == FoldLeft(LAMBDA state, gap : Labelling(state, gap, range),
                         [position |-> range[1], parts |-> << >>], gaps)
    IN  last.parts \o Part(last.position, range[2], "skipped")

UndecodedOf(x, part) ==
    [kind |-> "undecoded", source |-> 0, input |-> InputOf(x.sid, x.pid),
     start |-> part.start, end |-> part.end, decoder |-> 0, reason |-> part.reason, class |-> None]

\* The blocks autofill writes for stream x.
FillsOf(x) ==
    FlattenSeq([i \in DOMAIN Uncovered(x) |->
        [j \in DOMAIN Labelled(Uncovered(x)[i], x.gaps) |->
            UndecodedOf(x, Labelled(Uncovered(x)[i], x.gaps)[j])]])

\* Slip: an extent counts the bytes of a stream, and not its holes.
ExtentOf_Bytes(x) ==
    [source |-> 0, input |-> InputOf(x.sid, x.pid),
     extent |-> x.extent - Cardinality(Offsets(x.gaps))]

\* extent: the whole of stream x, as a Session End declares it.
ExtentOf(x) == [source |-> 0, input |-> InputOf(x.sid, x.pid), extent |-> x.extent]

-------------------------------------------------------------------------------
(* Calls both have.  No call looks at whether the stage was closed. *)

MayStage == stage.step \in {"open", "done"} /\ MayCall

\* record() of the writer returns.
Takes(b) == sessions[b.sid].linearize \/ RecordEmits(b.sid, b)

\* Slip: a record is counted before it is written.
Counted_Refused(b) == [stage EXCEPT !.cited = Cited(@, b)]

\* The stage once record() of the writer has returned or raised.
Counted(b) == IF Takes(b) THEN [stage EXCEPT !.cited = Cited(@, b)] ELSE stage

\* undecoded: the range is counted once its block is written.
MarkUndecoded(b) ==
    /\ MayStage
    /\ Declare(b)
    /\ stage' = IF Emits(b) THEN [stage EXCEPT !.marked[b.input] = Add(@, b.start, b.end)] ELSE stage

\* A second close() returns at once.
MayClose == stage.step = "open" /\ call = Idle

CloseStage ==
    /\ MayClose
    /\ stage' = [stage EXCEPT !.step = "fill",
                              !.unfilled = IF stage.fill THEN stage.inputs ELSE << >>]
    /\ UNCHANGED vars

\* close(end=False): nothing is filled, ended or declared.
AbandonStage ==
    /\ MayClose
    /\ Abandon
    /\ stage' = [stage EXCEPT !.step = "done"]

-------------------------------------------------------------------------------
(* Inside close(): autofill, stream by stream *)

Filling == stage.step = "fill" /\ stage.fills = << >>

\* Slip: what was both cited and marked is let through.
FillStream_NoClash ==
    /\ Filling /\ stage.unfilled # << >>
    /\ stage' = [stage EXCEPT !.fills = FillsOf(Head(stage.unfilled)), !.unfilled = Tail(@)]
    /\ UNCHANGED vars

FillStream ==
    /\ Filling /\ stage.unfilled # << >>
    /\ ~ Clash(Head(stage.unfilled))
    /\ stage' = [stage EXCEPT !.fills = FillsOf(Head(stage.unfilled)), !.unfilled = Tail(@)]
    /\ UNCHANGED vars

\* autofill raises, and the output is closed without an End block.
FillClashes ==
    /\ Filling /\ stage.unfilled # << >>
    /\ Clash(Head(stage.unfilled))
    /\ Abandon
    /\ stage' = [stage EXCEPT !.step = "done"]

\* One block of the fill is written; were it refused, autofill would raise.
WriteFill ==
    /\ stage.step = "fill" /\ stage.fills # << >>
    /\ Emit(Head(stage.fills))
    /\ IF Emits(Head(stage.fills))
       THEN stage' = [stage EXCEPT !.fills = Tail(@)] /\ UNCHANGED closed
       ELSE stage' = [stage EXCEPT !.step = "done"] /\ closed' = TRUE
    /\ UNCHANGED <<sessions, linearizing, call, mergeVars, history>>

FillDone ==
    /\ Filling /\ stage.unfilled = << >>
    /\ stage' = [stage EXCEPT !.step = "end"]
    /\ UNCHANGED vars

Ending == stage.step = "end" /\ call = Idle

OutputClosed ==
    /\ EndFile
    /\ stage' = [stage EXCEPT !.step = "done"]

\* The steps of a flush that leave the stage alone.
Flushes ==
    /\ SkipFlush \/ StartFlush \/ MergeRuns \/ (\E p \in Pair : MergeYields(p)) \/ FlushDone
    /\ UNCHANGED stage

Autofill == FillStream \/ FillClashes \/ WriteFill \/ FillDone

-------------------------------------------------------------------------------
(* Properties *)

\* The offsets of input stream k that some records cite.
CitesOf(records, k) ==
    UNION { UNION { Span(span.start, span.end) : span \in SpansOn(b, k) } : b \in records }

CitedInFile(k) == CitesOf({ b \in ToSet(file) : b.kind = "record" }, k)

MarksInFile(k) ==
    { b \in ToSet(file) : b.kind = "undecoded" /\ b.source = 0 /\ b.input = k }

MarkedInFile(k) == UNION { Span(b.start, b.end) : b \in MarksInFile(k) }

\* The offsets of a stream that the coverage guarantee is about.
Owed(x) == (0 .. x.extent - 1) \ ToSet(x.fins)

\* A flush that raised has dropped records that were counted.
Filled == Complete /\ stage.fill /\ lost = {}

\* "Every offset is either cited by a record or named by an Undecoded block, never
\* both and never neither" (decode.py _Ledger): a stage that closed with an End
\* block accounts for its input, whatever was cited twice, marked twice, refused
\* or buffered on the way.
ClosedStageCovers ==
    Filled => \A x \in ToSet(stage.inputs) :
        LET k == InputOf(x.sid, x.pid)
        IN  /\ CitedInFile(k) \cap MarkedInFile(k) = {}
            /\ Owed(x) \subseteq CitedInFile(k) \cup MarkedInFile(k)

\* A reader of the output, who has not the input, finds no fault in its coverage:
\* the extents declared and what the file reaches are measured alike (decode.py
\* _declare_extents, "so the two cannot disagree"), where a FIN is its stream's
\* last offset.
ReaderAgrees == Filled => \A k \in Keys : ~ CoverageFault(tail.checker.coverage[k])

\* What that takes of a caller and of the input: records cite, and marks name, bytes
\* of the input's streams and nothing behind their ends, and a FIN is the last.
StaysInside ==
    /\ \A s \in Sids : \A b \in ToSet(accepted[s]) : \A span \in b.spans : span.source = 0
    /\ \A k \in Inputs : \A o \in Offsets(stage.cited[k]) \cup Offsets(stage.marked[k]) :
          \E x \in ToSet(stage.inputs) : InputOf(x.sid, x.pid) = k /\ o < x.extent
    /\ \A x \in ToSet(stage.inputs) : ToSet(x.fins) \subseteq {x.extent - 1}

\* What close() fills in, it tells the truth of: one block names each offset, as
\* a gap where the input had a hole and as skipped where it had a byte, and never
\* a FIN's (decode.py close, _label_fills).
FillsAreHonest ==
    Filled => \A x \in ToSet(stage.inputs) :
        LET k     == InputOf(x.sid, x.pid)
            told  == Offsets(stage.cited[k]) \cup Offsets(stage.marked[k])
        IN  /\ \A o \in Owed(x) \ told :
                  \E b \in MarksInFile(k) :
                      /\ { c \in MarksInFile(k) : o \in Span(c.start, c.end) } = {b}
                      /\ b.reason = IF o \in Offsets(x.gaps) THEN "gap" ELSE "skipped"
            /\ MarkedInFile(k) \cap ToSet(x.fins) \subseteq told

\* The records of session s that are in the file or may still come there.
WrittenOrHeld(s) ==
    { b \in ToSet(file) : b.kind = "record" /\ b.sid = s }
    \cup IF sessions[s] = None THEN {}
         ELSE UNION { ToSet(InFlight(s, p)) \cup ToSet(sessions[s].pending[p]) : p \in Pair }

\* The sessions a flush of which has raised, or is raising.
Dropping == lost \cup (IF call.step = "raise" THEN {Head(call.left)} ELSE {})

\* What the ledger counts is what the file has and what a sequenced session still
\* holds, which is counted when record() returns and not "only after its block is
\* written" (decode.py _Ledger); of a session whose flush raised, it goes on counting
\* the records the flush dropped.  Marks are never held, and until close() they are
\* those of the file.  The lists stay coalesced (_intervals.py add).
LedgerIsFile ==
    \A k \in Inputs :
        /\ Coalesced(stage.cited[k]) /\ Coalesced(stage.marked[k])
        /\ Offsets(stage.cited[k]) =
              CitesOf(UNION { IF s \in Dropping THEN ToSet(accepted[s]) ELSE WrittenOrHeld(s) : s \in Sids }, k)
        /\ stage.step = "open" => Offsets(stage.marked[k]) = MarkedInFile(k)

===============================================================================
