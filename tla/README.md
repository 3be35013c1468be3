# Verification of python-zipline

TLA+ models of `zpf`, the library that reads, checks, merges and writes `.zpf`
files (sessions of network traffic and what decoders made of them), with the
TLC runs that check them on small instances and the theorems TLAPS proves for
every value of the constants.

The library itself has no threads. What is hard in it is of another kind: a merge
that has to decide with one record of each stream in view; rules over a whole file
that are judged in one pass; calls that raise half way and may be followed by more
calls; generators over one object that are under way at once and may be dropped; two
computations of the same thing (a checker's and a reader's, a writer's and a
verifier's, a view's and a checker's) that must agree; 32-bit sequence numbers that
wrap; and files that another process may still be writing, or died writing.

## 1. Inventory

| Part | State it keeps | Operations | Works with | Correct when |
|---|---|---|---|---|
| `order.py` causal merge | one loaded record, offset walk and ack walk per participant | `causal_merge` (a generator), `timeline` | called by readers and by the linearizing writer | every record comes after what causally precedes it; it completes when an order exists; nothing lost |
| `order.py` stored order | last `seq_start`, offsets, highest ack per participant | `_StoredOrder.observe`, `verify_sequenced` | `SessionWriter`, `SessionReader.verify` | accepts what the merge yields, whether the count of participants is known or not |
| `conformance.py` checker | declared ids, live sessions and streams, holes, break candidates, coverage ledger | one handler per block, `finish` | `FileWriter` before each write, `FileReader` on each block | a refused block leaves no trace; the verdict of the single pass is that of the file |
| `reader.py` | the index, diagnostics, the checker | open (index), sessions, streams, timeline, verify | checker, container, reassembly | shows only blocks that depend on nothing it dropped; strict means silent |
| `reassembly.py` | a view: its walks under way, its measures and contributions once known | offsets, extents, `chunks`, `reassembled`, `off_start`, `units`, `ts_for` | reader, stages, transforms | every answer is of the stream, whatever walks gave it; overlaps resolved once; agrees with the checker's notes |
| `writer.py` | checker, sink, ids, per session guards and buffer | handles, `record`, `end`, `close` | checker, merge | what is written reads clean; what was accepted is written |
| `decode.py` | ledger of cited and marked ranges, seams, output writer | `record`, `undecoded`, `discontinuity`, `close` | reader, writer, `_intervals.py` | the output accounts for each byte of the input; seams are marked |
| `sessionize.py` | open flow sessions, ledger | `session`, `undecoded`, `incomplete`, `close` | reader, writer | each input region in exactly one place, in order |
| `transform.py` | id maps, one per input | `merge_files`, `rewrite_decoded`, `resolve_spans`, cross-file checks | readers, writer, merge | places, spans, breaks and coverage survive the rewrite; the cross-file check finds just what is missing |
| `binary.py`, `_frame.py`, `jsonl.py` | position in the stream, what was seen of header and End, the notes | read and write one block or line | reader, writer | a cut file reads as its whole blocks; its status is the truth; locators find their blocks |
| `blocks.py` | none | fields and options to bytes and text, and back | binary, jsonl | plain functions |
| `content.py`, `cli.py`, `errors.py` | none | parsing of labels, the command line, exceptions | all | plain functions |

Every hazard found while reading is listed with its line in `PROJECT.json`
(`hazards`), with the properties that watch over it, or the reason none does yet.

## 2. Modules

An arrow points from a module to one it is built on.

```
                                                 CausalOrder (abstract specification)
                                                      ^ (INSTANCE)
                                                  MergeOrder <- MC_CausalMerge, CausalMergeProofs
                                                      v
SerialNumbers <- StreamWalk <- StoredOrder <---- CausalMerge
                  ^                     ^             ^ (INSTANCE)
                  |                     +- Conformance <- FileWriting <- MC_FileWriting, WriterProofs
                  |                       ^           ^  ^
                  |                LenientReader      |  CoverageStage <- SessionizeStage <- MC_SessionizeStage
                  |                       ^           |  |        ^
                  |             MC_LenientReader      |  v        DecodeStage <- MC_DecodeStage
                  |                                   | Intervals
                  +- StreamPlaces <--- FileTransforms +   ^
                      ^     |               ^   |         |
               Reassembly   +---------------|---+---------+
                      ^            MergeFiles, RewriteDecoded <- MC_FileTransforms
               MC_Reassembly
                                   Container <- MC_Container
                                      ^- ContainerProofs

OperatorProofs (of StreamWalk, Conformance, Intervals)
      ^- CausalMergeProofs (of CausalMerge, MergeOrder)
      ^- VerdictProofs     (of LenientReader)
      ^- WriterProofs      (of FileWriting)
             ^- StageProofs (of CoverageStage)
                    ^- DecodeProofs     (of DecodeStage)
                    ^- SessionizeProofs (of SessionizeStage)
```

* `SerialNumbers` - `seq_lt`, `seq_leq`, `serial_delta`; `SEQ_SPACE` is a constant so
  that TLC can wrap a space of 8 or 16.
* `StreamWalk` - `_Placer`, `_StreamPlacer`, `_AckWalk`, `_sequence_end`, as values with
  one operator per method. A record is its `seq`, `ack`, `len`, `flag` and `ts`.
* `StoredOrder` - `_StoredOrder`: what an observation leaves behind (`OrderObserved`), also
  when it raises (`OrderRefuses`).
* `CausalMerge` - the generator `causal_merge`: `Prime`, `Begin`, `Emit`, `Refuse`, `Stall`,
  `Finish` are the passes of its loop. `out` is what was yielded; each record yielded is
  also fed to the stored-order check (`verified`).
* `CausalOrder` - the abstract specification of a merge's result. The streams are given whole,
  with what precedes what in them: a record may be taken once all that precede it are
  taken, each stream is taken in its stored order, and the order is complete only when nothing
  is left.
* `MergeOrder` - `CausalMerge` against `CausalOrder`: the precedence of two whole streams, by the
  walks of `StreamWalk` run over all of each (`PlacedOver`, `AcksOver`), what `order.py` takes for granted
  of a stream (`OriginFirst`, `RisingEnds`, `SynsFirst`; together, of every stream, `InTurn`), the
  refinement mapping and `ImplementsCausalOrder`.
* `Conformance` - `ConformanceChecker` as a value: `Refuses`, `Advises` and `Unplaceable`
  are its three channels, `Absorbed` the state after a block (`Handled`, then `Covered` by
  the ledger), `Left` the state after a block that was refused, in the order in which each
  handler checks and changes things; `FinishRefuses` is `finish()`. Ranges of offsets are sets of offsets.
* `LenientReader` - the indexing pass of `FileReader`: `Admit`, `Isolate`, `Raise` (strict),
  `FinishChecks`. Its properties speak of the index, the file a user sees, and define
  breaks, coverage and layers over it anew, without the checker's bookkeeping.
* `FileWriting` - `FileWriter` and `SessionWriter`: one action per call, and inside
  `end()` and `close()` one action per step of the flush. It holds an instance of
  `CausalMerge`: the merge step that yields a record is the step that writes it, so a
  write may raise out of a merge that is half way. History variables remember what was
  accepted, how much of it after `close()` (`late`), which flush raised (`lost`), what it refused
  (`rejected`), and what a reader's checker makes of the file so far. `Kept(s, S)` is what a
  sequence of blocks has of a set of them, `Held` what a flush has taken and not yet written.
* `Intervals` - `add`, `coalesce`, `complement` and `intersections` on lists of ranges, with
  both bisections. `Coalesced` and `Offsets` say what a list is and what it stands for. The loops
  are folds over one step each (`Added`, `Passed`, and `Swept` for the two cursors of
  `intersections`), so that they can be reasoned about.
* `CoverageStage` - what both stages have: the `_Ledger` of cited and marked ranges, how far
  `close` has come, and the fill, stream by stream (`FillStream`, then `WriteFill` for each
  block; a clash or a refusal ends it), over the writer's variables: a call that writes
  makes the writer's action part of its own. What reassembly makes of the input is given
  by the scenario. The properties of coverage are stated here, once for both.
* `DecodeStage` - the decoder's calls with their seams (`BreakFirst`, then `WriteDecoded`), the
  mirrored scaffold of `derive_from` (a session and a participant for each stream of the input, in the
  input's order), and the rest of `close`: `DeclareExtents`, `SessionEnds`, the flush,
  `CloseOutput`. `asked` remembers, stream by stream, which records were passed with a seam.
* `SessionizeStage` - `FlowSession` and `SessionizeStage`: `OpenFlow` for a key that has no open
  flow, `FlowRecord` citing any streams, `Incomplete` and then `MarkPiece` for each piece,
  `EndFlow` by the caller or by `close`, whose raise closes the output (`RaiseOut`).
* `StreamPlaces` - `record_ranges`, `stream_extent` and `fin_positions` of a stream, as
  functions of its records: what the checkers of a file compute.
* `Reassembly` - one `StreamView`, and two callers that walk it. A walk is a generator
  (`chunks`, `reassembled`, `off_start`, `units`) with its cursor, its run and its yields:
  `Start`, `Step` for each block, `Finish`, `Drop`. Beside them `Measure` and `Contribute` ask
  for what the view computes once and keeps. A byte is known by the record it came from.
* `FileTransforms` - `check_coverage`, `check_splice` and `resolve_spans` as functions of the
  blocks of a file and of the streams of its inputs, and how a transform leaves its writer.
* `MergeFiles` - `merge_files`: the two sides run through the merge of `FileWriting`'s
  instance, a step of which that yields a record writes it (`WriteMerged`); then the holes are
  marked one by one and the session ends with its extents.
* `RewriteDecoded` - `rewrite_decoded` and `_rewrite_stream`: any filter and any order of the
  records of each stream in turn (or a callback that raises), the breaks it inherits and
  the seams it owes, what was dropped marked behind them.
* `Container` - a file as parts: words of four bytes, or pieces of a line. `BlockWriter` or
  another program hands over blocks; `Flush`, `Close` and `Crash` decide how much of them is
  in the file, at any time, also between two reads of one block. `ReadFrame`, `ReadContent`
  and `ReadBehindEnd` are the reads of `BlockReader.__next__`, `ReadLine`, `ReadPast` and
  `ReadNoLine` those of `JsonlReader`; `index` has what `FileReader._index` files.
* `OperatorProofs` - lemmas and theorems about the operators the machines are made of: serial
  numbers, walks, intervals, the checker's handlers.
* `CausalMergeProofs`, `VerdictProofs`, `ContainerProofs`, `WriterProofs`, `StageProofs`,
  `DecodeProofs`, `SessionizeProofs` - the invariants of one machine each and the theorems
  that follow; `StageProofs` has what both stages share.

Definitions named `X_Y` with a comment "Slip:" are `X` with a plausible mistake;
each property is shown to fail with one of them in place of the real definition.

## 3. Runs

| Run | Asks | Shows |
|---|---|---|
| `merge_pair` | two streams: of 3 and 2 records that acknowledge each other; 3 records that pass the end of a space of 16, acks following; SYN, FIN, no hints, no isn | `NoRecordAfterItsAck`, `MergeVerifies`, `StallsOnlyOnCycles`, `ImplementsCausalOrder` |
| `merge_live` | does the merge end | `MergeCompletes`, with weak fairness of the generator's step |
| `merge_three` | three participants, clocks that run backwards | `ClockMergeSorted`, `TypeOK` |
| `read_files` | five kinds of file, see below | `DependentsIsolated`, `CoverageFromIndex`, `NotesAgree`, `VerdictIsWholeFile`, `StrictIsSilent` |
| `view_walks` | what a view says of its stream, asked by two callers at once | `MeasuredIsStream`, `RunsFavorOld`, `AnswersAreOfTheStream`, `UnitsArePlaced`, `TimesAreOfAcceptedBytes` |
| `write_files` | three kinds of producer, see below | `SequencedFileVerifies`, `FileReadsClean`, `RecordsConserved`, `CleanFileIsWhole` |
| `write_calls` | does each call come back | `CallsReturn`, with weak fairness of the steps inside a call |
| `stage_files` | a decoder that cites, marks and breaks as it likes over an input with holes and a FIN, or over two sessions that share participant ids | `ClosedStageCovers`, `ReaderAgrees`, `FillsAreHonest`, `LedgerIsFile`, `SeamsAreBreaks`, `DecodeTypeOK` (with the types of the writer and the ledger) |
| `flow_files` | flows of two keys that share the streams of one input; sequenced flows whose flush stalls or raises | `EndsDeclareCites`, `KeysAreSerial`, `FlowsEndOnce`, `LedgerIsFile` |
| `transform_files` | two captures merged; decoded files filtered and reordered | `MergeKeepsPlaces`, `TransformCovers`, `CoverageCheckIsExact`, `SeamsAreDeclared`, `ResolvesToInput` |
| `cut_files` | files of either face, cut anywhere, growing, damaged | `ReadsWholeBlocks`, `StatusIsHonest`, `LocatorsHold` |
| `cut_line` | does a lenient reader of a cut file raise | violated: `CutsDoNotRaise` |

A run takes its inputs from named shapes or scenarios of its MC module. `read_files`:
`lifetimes` (5 of 11 blocks in any order, declarations among them), `placement` (4 or 5
records around the origin and the wrap of a space of 8), `seams` (decoded streams over one
input: neighbours, breaks, holes, lengths), `layers` (transport, decoded and undefined,
copies, breaks) and `strict` (the same, read strictly). `write_files`: `guarded` (a verifying
session, up to three participants declared late, refusals), `linear` (two buffering sessions,
flushes that stall, refuse or raise, and calls after them) and `checked` (descriptors, layers,
copies, breaks, refused Session Ends). `stage_files`: `holed` (one session, an extent with a
hole, a FIN behind it, ranges cited out of order, overlapping and touching) and `paired` (two
sessions that both have a participant 0). `flow_files`: `shared` (two keys, cites of the same
ranges by two sessions, a message joined from two streams, incomplete messages marked whole,
twice or half, refusals) and `ordered` (one key whose flow ends and is opened again, records
buffered that can be merged, stall, or are refused when they are written).
`view_walks`: `Bytes` (up to three records around the wrap and the origin, overlapping,
apart, empty, with and without a FIN), `Long` (a stream longer than half the space, which
turns back on itself) and `Packets` (units and decoded records with breaks, with a width
or none); clocks do not follow the sequence numbers. `transform_files`: `MergePairings`
(up to three records of one side around the wrap, with a hole, a FIN and an ACK behind it,
up to two of the other that acknowledge them, some refused, some stalled) and
`RewriteInputs` (up to four records and breaks of a decoded stream, in every arrangement
of every subset, beside a stream that is empty or not). `cut_files`: three blocks of
each face out of whole, invalid, malformed, misframed and undecodable ones, from the
library or from another program.

`cut_line` is a disagreement between the code and its documentation, reproduced with the
library. "A lenient read never raises for a nonconformant or truncated file"
(`docs/user/howto/validate.md:46`), but a JSON Lines file that ends inside a multi-byte
character raises `UnicodeDecodeError` out of `readline()` (`jsonl.py:1010`); cut one byte
earlier or later, the same file is noted as truncated and its records are kept.

Others, met while modelling and reproduced too, have no run. Merge and reader:

* Ends are not monotone within a stream: a partial retransmission ends below its
  predecessor, and a record that acknowledges it is yielded first, though `_pair_ready`
  says "ends being monotone within a stream" (`order.py:472`): `MC_CausalMerge` with
  `OverlapShapes` and `Overlaps = TRUE` breaks `NoRecordAfterItsAck`.
* A keepalive probe (a record of no new bytes one below the end) stalls the merge of a
  session that has a causal order: `MC_CausalMerge` with `KeepaliveShapes` and
  `Keepalives = TRUE` breaks `StallsOnlyOnCycles`.
* A record that is refused has already moved the placement anchor (`conformance.py:695`,
  where a comment promises the checks come "before any state mutation"), so good records
  behind it are noted unplaceable: `MC_LenientReader`, scenario `strayRecord`, breaks
  `NotesSurviveIsolation`. `NotesAgree` leaves out streams with an isolated record.
* A flow whose flush raises says it has `ended` though no Session End was written, the same
  key opens a new session, and what its dropped records cited stays counted: a later
  `close()` writes a complete file that a reader finds no fault in, and `check_coverage`
  finds a gap as long as the input. The properties of coverage
  leave out files with records lost (`lost = {}`), and those of flows the lost session.
* "A range is counted only after its block is written" (`decode.py:213`) does not hold of a
  sequenced session, of either stage: a record is counted when `record()` buffers it, and stays
  counted when the flush raises and drops it. `LedgerIsFile` says what is so instead: counted is
  what the file has, what a session still holds, and of the sessions in `Dropping` all they
  accepted. Without that last part (`Dropping == {}`) it is violated in `stage_files` and
  `flow_files` alike.
* A refused Undecoded block still counts as a hole in the final verdict:
  `MC_LenientReader`, scenario `strayHole`, breaks `FaultIsInIndex`.
* A record refused with an advisory finding becomes the predecessor a copy is compared
  with, and the copy is written: `MC_FileWriting`, scenario `labelled`, breaks
  `FileReadsClean`.
* A record a stage refuses has its seam written already; the retry writes a second one,
  twice as wide (`BreakFirst`).
* A FIN in the middle of an extent is owed nothing by the fill of `close()`, but the checker
  of the output reports the position as a gap (`conformance.py:387-394` names only
  the last one). The inputs of `ReaderAgrees` have FINs only at the last offset.
* With no isn and a first record with no `seq_start`, a stream holds nothing back although
  its next record fixes its origin; and a bare SYN behind a pure ACK ends at the origin,
  where `_pair_ready` says nothing can end. Both yield a record after one that acknowledged
  it, as the retransmission above does; `merge_pair` leaves both out (`LateOrigins`, `LateSyns`).
* Hint-less decoded records of a participant with an isn, which are positional, are noted
  unplaceable: `_check_placement` does not ask for the layer.

Writer and stages:

* The order guard of a session keeps what it took from a record the checker then refused,
  and may refuse a good record on account of it (`AfterRecord`).
* Nor is it on the safe side, though a comment says that "the guard's state stays consistent"
  (`writer.py:967-969`): behind a refused record of 5, one of 12 and then one of 3 pass, each less than half
  the space from the one before, and a reader, which never saw 5, finds 3 before 12.
  `MC_FileWriting`, scenario `bridged` under `Producer <- BridgedProducer`, breaks `SequencedFileVerifies`. It
  takes a stream that is longer than half the sequence space, which the theorem excludes.
* `record()` of a linearizing session returns normally after `close()`, and the record is
  never written: `RecordsConserved` shows that it stays in the buffer.
* A `linearize` session with `verify_order=False` that is flushed twice (a `close()` that
  raised in between) may write an order no reader accepts: each merge orders its own batch.
  `SequencedFileVerifies` speaks of verifying sessions, whose guard refuses the record.
* A flush that raises empties the buffer in its `finally` clause, and a later `close()` writes
  the End of a file that lacks accepted records, though "dropping them silently is not an
  option" (`writer.py:335-336`): `MC_FileWriting`, scenario `linear`, breaks
  `CompleteFileKeepsAccepted`. `CleanFileIsWhole` speaks of files no flush raised for.
* The seams of a stage over two sessions that share participant ids are those of one: `_emitted`
  (`decode.py:353`) holds bare ids, so the first record of the second session is preceded by a
  Discontinuity with nothing before it. `MC_DecodeStage`, scenario `paired`, breaks
  `SeamHasTwoSides`.
* `DecodeStage.close()` leaves its output open when an extent is refused (`decode.py:671-700`),
  and a second `close()` returns at once, so no End is ever written: the same scenario
  breaks `StageClosesOutput`.

Reassembly and transforms:

* A FIN in the middle of a stream with data behind it counts as a hole of one offset in the
  gap lengths and in `units()`: `MC_Reassembly` breaks `FinsAreNotHoles`.
* Without an isn, with a first record that has no hint and a later one that has, the view's
  extents are not those of `record_ranges` (`LateHints`); of a hinted decoded layer of a
  participant with an isn the view says an extent from offset 0 and `record_ranges` starts at 1.
* An empty datagram strictly inside a range is counted by `ts_for` and `ts_first_for`
  (`EmptyUnitIn` leaves it out).
* A break in front of an empty record moves with it when the records are reordered, so that the
  neighbours it stood between lose it (`NoEmptyMoved`); a break in front of the first
  survivor leads the output stream.
* A trailing Discontinuity with a width is marked behind the last record as an Undecoded gap
  past the extent: `rewrite_decoded` writes a file its own coverage check finds excess in
  (`TrailsOff`).
* A reordering alone is declared as a seam "records-dropped", of a width, though nothing was: of
  three records kept in the order 1, 3, 2 the seam of 1 and 3 is as wide as record 2
  (`transform.py:1176`), which is written behind it, so its bytes count as a hole and as a
  record. "A reorder withheld nothing ... so it declares none" (`transform.py:957`) is kept only
  where the next record lies behind. `SeamsAreDeclared` asks for the width of a seam only where
  nothing of what it spans was kept.
* `merge_files` marks the position of a FIN as a gap when a pure ACK is stored past it.
* `resolve_spans` of a range leaves out records without spans when others that answer have some.
* A transport stream in a file that also has decoders is rewritten without its hints, so that
  its holes close and its extent is the end of its last range.
* A rewrite that drops everything with a digest of its parameters describes a session that
  no strict reader accepts.

Container:

* A growing JSON Lines file whose torn last line is completed between the two `readline()` calls
  of `_handle_undecodable_line` raises `StructuralError` for a line that is whole.
* A JSON Lines file of blank lines only reads as empty; an empty file raises.
* `zpf.open` of a binary file cut within its first 12 bytes raises "cannot detect", where the
  binary reader alone notes a truncation.

### Bounds, and why they are enough

Two records of each stream and their acks suffice for each way in which a merge can be
wrong about one unseen record; the third record makes "seen before, seen now, still
unseen" distinct, and the wrap of a space of 16 needs three steps of under half the space.
Checker rules relate at most two neighbours, one region between them and one block that
decides how they are judged (a Discontinuity, a layer, a length), so files of four to six
blocks behind the declarations contain each rule in each order; the declaration scenario
has every descriptor missing, repeated or late. The writer's runs bound the blocks written
plus the records accepted (`MaxBlocks`), which leaves room for a buffer of two records, a
flush that fails and a second flush. A stage is bounded by the same count:
a break, two records, a mark and what `close` has to fill fit into it, and each
range of an input of three or four offsets is cited, marked or left to the fill; cites stay
within the extents of the input, which is what reassembly hands a decoder. Two flows suffice
for all that sessions share: the ledger, the streams and a key.
A view answers about a record, its neighbours and what overlaps them: three records have each
overlap, hole and order of two beside a third, four reach past half the space; a second
walk is run beside the first on streams of one or two blocks, which is enough for each to
meet the other begun, half way, ended and dropped. A transform relates two neighbours in its
input and two in its output: three records of one side and two of the other merged, three or
four blocks rewritten. A container reader looks at one block and whether it is the first,
the End or behind it: three blocks, each of `FrameSize` words or pieces and its content, cut at
any of them; detection looks at `SniffSize` words.
`MaxOffset`, `MaxLen` and `MaxBlocks` are the only
bounds on what runs; `Shapes`, `Scenario`, `Blocks`, `Records` and the other sets in the MC modules name the
inputs. A linearizing session hears from at most two senders (`Pair`): with more, the merge
is by clocks, which `merge_three` covers.

### Fairness

`MC_CausalMerge!MCSpec` assumes weak fairness of the generator's step: its callers,
`SessionReader.timeline` and `SessionWriter._flush_pending`, iterate it to its end.
`FileWriting!Spec` assumes weak fairness of `Inside`, the steps within a call: one thread
runs a call until it returns or raises. Nothing is assumed of the producer, which may
make no further call. Deadlock is not an error in the runs, since a merge, a reader, a
writer, a view that answered all it was asked, a transform and a file all come to an end.

## 4. Proofs

### The merge

`CausalMergeProofs` proves, for every value of the constants:

* `TypeCorrect`: `Spec => []TypeOK`.
* `MergeIsCausal`: for two participants, `Spec /\ []WellFormed => []NoRecordAfterItsAck`.
* `MergeAlwaysVerifies`: `Spec /\ [](Pairwise => WellFormed) => []MergeVerifies`.
* `ClockMergeAlwaysSorted`: `Spec => []ClockMergeSorted`.
* `MergeImplementsOrder`: `Pairwise /\ Spec /\ InTurn => ImplementsCausalOrder`.
* `StreamsInTurnMerge`: `Pairwise /\ Spec /\ InTurn => [](WellFormed /\ NoRecordAfterItsAck /\ MergeVerifies)`.
* `StallsAlwaysOnCycles`: `Pairwise /\ Spec /\ InTurn /\ NoKeepalives => []StallsOnlyOnCycles`.

All safety properties the merge runs check are therefore proved. Assumed are only the named
assumptions on the constants (an even space, `None` neither number nor record, finitely many
participants, records of their type) and the hypotheses written in the theorems. `InTurn` and
`NoKeepalives` speak of the input alone, the streams before anything is merged: without
an isn the first record fixes the origin, ends rise, SYNs lead, and no record
without an end sits below an end stored before it. `WellFormed` says of the records loaded what `InTurn` says of
the streams, which implies it. Each is something the comments of `_pair_ready` take
for granted; the retransmission and the two streams listed in section 3 show that each is needed.
`HonestAcks`, in `StallsOnlyOnCycles` itself, is a hypothesis of the same kind.

`NoRecordAfterItsAck` is not inductive: it speaks of records yielded, and a step adds one
whose end must be past every position acknowledged so far. `CausalInv` adds what makes it
so: for every record yielded with an ack, each end its peer still has is past that
position (`EndsPast`), either because the head ends past it, or because the stream had
reached past it before, or because the head's offset has and no SYN can follow.

`MergeVerifies` relates two computations: the frontiers walk a stream up to the record
loaded, the stored-order check up to the record yielded. `VerifyInv` says that they are one
record apart: the check's walk of each participant, taken one step over the head, is the
frontier's (`Synced`), so the check sees each record at the end and the ack the merge gave it;
and the highest ack it has seen of anyone is that of a record yielded (`HighestYielded`), which
turns a refusal into a counterexample of `NoRecordAfterItsAck`. `ClockInv` adds to
`ClockMergeSorted` that no head is before a record yielded (`NotAfter`).

The refinement is about whole streams. `RefInv` says that each frontier stands where the
walks over its whole stream stand (`InStep`), that what was yielded of a stream is what was
loaded but for the head, and that nothing still to come ends below what the stream has
reached. Two lemmas carry the step: `PeerEndBounds`, that the bound `_pair_ready` computes
from one record is a lower bound of every end the peer has left, and `ReadyTakesAfter`,
that what precedes a ready record is therefore taken. `Emit` is then `Take`, `Finish` is `Complete`, and
every other step stutters. `StallIsCycle` uses the same invariant from the other side: by
honest acks a head held back waits for a record its peer has left (`HeldBack`), and two heads
held back wait for each other.

The walks over a stream are functions defined by recursion. What they are is not computed
by induction but by least elements: a walk exists (`WalkExists`), since there is no least
length it could not be made for, and two walks, or a walk and a bound, that part do so at a least
place (`RecordsInAppend`, `PlacedKeeps`). `LeastNatural`, which these rest on, is well-foundedness
of the naturals. The lemmas of `OperatorProofs` on walks say that serial distances lie within
half the space, that an offset is a natural number, and that placing a record leaves the
walk of its type and at that offset.

### Intervals

`OperatorProofs` proves of `Intervals`, for lists of any length:

* `AddIsUnion`: added to any coalesced list, any range leaves a coalesced list of exactly
  the offsets of both.
* `CoalesceIsUnion`: any list of ranges, in any order, coalesces to a list of exactly its offsets.
* `ComplementIsRest`: the complement of a coalesced list below an extent is the coalesced list of
  the offsets it leaves.
* `IntersectionsMeet`: the sweep of `intersections`, which passes one range a turn and never looks
  back, finds only offsets of both lists, and comes out empty exactly if they share none, for any
  lists sorted by their starts, also ones that overlap themselves, as `check_coverage` passes
  them; of coalesced lists it finds every offset they share. The invariant of the loop is
  `Sweeping`: what it knows of the pairs of ranges it has passed.

The leading lemmas say what the two bisections find (by least elements) and that the ranges
between them are those the new one touches; then one lemma for each case of `add`. The loops of
the others are folds. A fold over a sequence has the intermediate results its recursion goes
through (the lemma unfolds the library's definition of it), and an invariant of those results
that fails somewhere fails at a least place, where the step before it contradicts it: that is
induction without an operator as a parameter. These four and `LabelsAreTrue` are what the ledger
of a stage is reasoned with, so nothing below rests on a bound on offsets or ranges.

### The reader

`VerdictProofs` proves of `LenientReader`, for files of any number of blocks of any kinds in
any order, and whatever is refused among them:

* `DependentsAlwaysIsolated`: `Spec => []DependentsIsolated`.
* `CoverageAlwaysFromIndex`: `Spec => []CoverageFromIndex`.
* `ReaderTyped`: `Spec => []TypeOK`.

Neither property is inductive: both speak of the index, and a block is filed or refused by
what the checker remembers. `ReaderInv` adds that what the checker remembers is in the
index: each live session, each stream, source and decoder it knows was declared by a filed
block, each session a filed Session End names is over (`CheckerTied`), and each filed Undecoded
block names a source that is declared, whose kind therefore cannot change any more (`MarksTied`).
A Session End that is refused still ends its session for the checker, so only one direction
holds: what the checker knows is in the index, not the other way round. `OperatorProofs` has
what the step needs of the checker, one case for each handler: `Absorption` (the type, what
an accepted block declares and what it counts, by `Declares` and `Counts`) and `Refusal` (what a
refused one leaves behind: it declares nothing, counts nothing, and may end a session).
`ReaderFiles` is the step that files a block, `ReaderStill` all the others. The theorems assume
`IdsAssumption` (stream numbers are natural, `None` is none of the kinds) and `BlocksAssumption`
(blocks are of their type, a header is a header), and nothing of the order of blocks.

It proves, on top of these:

* `VerdictAlwaysWholeFile`: `Spec => []VerdictIsWholeFile`: of any file no block of which is
  refused, the end-of-stream pass finds fault exactly where the index, looked at as a whole, has one.
* `StrictAlwaysSilent`: `Spec => []StrictIsSilent`: a file that a strict reader opens has no fault, and
  no record of it was let through on an advisory finding.

The verdict is of bookkeeping that is spread over the pass and then thrown away: a stream that closes
leaves only its seams behind, a session that ends only its lengths, and a region may be declared lost
before or after the seam it breaks. `VerdictInv` says that all of it is `Faithful` to the index at
every step: each stream the checker holds has the layers, copies, hints, breaks and seams that its
records and Discontinuities have in the index, and its last record's reach (`StreamsTold`); each session
that ended was sound and handed over exactly the seams its streams have (`EndsTold`); regions and lengths
are those filed (`RegionsTold`, `LengthsTold`), and what filed records name cannot be declared anew
(`NamesKnown`). The seams are the hard part: the checker opens one between a record and its stream's
last, by one number per input, while the index has it between any two neighbours no break stands
between (`OpenedIsSeam`, `RecordMoves`). `Verdict` then takes the three sorts of fault one by one; the ranges
of a seam and a region meet where neither ends before the other (`SpansMeet`). For the strict reader
`Silent` is kept beside it. Beside the assumptions above, `NoStreamAssumption` says that `None` is
not the state of a stream. The theorem speaks of files without refused blocks since a refusal leaves
traces (two of them are listed in section 3): the property says the same.

### Files

`ContainerProofs` proves of `Container`, for files of any number of blocks of any sizes:

* `ContainerTyped`: `Spec => []TypeOK`.
* `LocatorsAlwaysHold`: `Spec => []LocatorsHold`: whatever is cut, grows or is skipped, each
  entry of the index stands at the first part of its block, and the file has that block whole.

`LocatorsHold` alone is not inductive, since it does not say where the next block is read.
`PlacesInv` adds that the blocks stand end to end over all parts handed over
(`Contiguous`), that the reader stands in a block at a place it has counted right, its
offset being that of the block it is about to read (`ReaderPlaced`), and that the index
lists blocks before that one only (`IndexPlaced`). A file only grows until it is closed or its
writer dies, so an entry once whole stays whole. The lemma for each kind of action (the
writer's, the two readers', end of file) rests on the assumptions on the
blocks and sizes alone: `BlocksAssumption` and `SizesAssumption`.

It proves of both faces, on top of these:

* `ReadsAreWhole`: `Spec => []ReadsWholeBlocks`: of a file of either face, cut anywhere or
  growing while it is read, the index is at every step the readable blocks that lie whole
  before the point the reader has reached, each once and in order.
* `StatusAlwaysHonest`: `Spec => []StatusIsHonest`: what a reader says of the file, complete,
  truncated or with trailing parts, is so.

Beside `PlacesInv`, `ReadInv` says: each entry is a block to read, and all such blocks before it are
entries (`EntryInOrder`); nothing the reader has passed was to be read and is not there, and it
knows End if it has passed End (`ReaderKnows`); a finding ends the read (`ReaderReports`); and
what is left of a line between two reads. The blocks of `BlocksAssumption` are those a
file can have: binary files have no blank and no undecodable lines, lines have no frame, a blank
line that is more than its newline has parts, and a header that is wrong does not decode, which is
how the two codecs read headers.

### The writer

`WriterProofs` proves of `FileWriting`, for every producer and any number of sessions:

* `RecordsAlwaysConserved`: `Spec => []RecordsConserved`.
* `CleanFilesAreWhole`: `Spec => []CleanFileIsWhole`.
* `FilesReadClean`: `Spec /\ [][Unadvised]_vars => []FileReadsClean`.
* `SequencedFilesVerify`: `ShortStreams /\ Spec => []SequencedFileVerifies`.

The first two speak of what was accepted and what the file holds, and between the two lie the
buffer, the streams handed to a merge, and the merge itself, which has loaded a record ahead of the
one it yields. `WriterInv` says what each step of a flush may find there: `CallKnown` (which call
is under way, and which sessions it has left), `FlushKnown` (who linearizes), `MergeKnown` (the
streams are records of the session being flushed, each head the record loaded last of its stream),
`WritersKnown` (a session not begun has nothing in the file), `HistoryKnown`, and `Conserved`, which
extends `RecordsConserved` to the steps in between by counting what a flush holds (`Held`). A
flush that raises leaves its session among the `Spoiled`; all others keep the property through it.
`Kept` is a recursive function, and its laws (over an append, a concatenation, a part) are
proved by least elements as well. `WriterAssumption` says that a producer hands over records
to `record()`, participants with an isn to `participant()`, and so on, and that a linearizing
session hears from two senders; what order it calls in, and what is refused, is open.

`FileReadsClean` relates two checkers: the writer's, which is asked about each block before it is
written, and the reader's, which sees those that were. They part at a refusal. What a refused block
leaves in the writer's checker only narrows what it accepts, with one exception: a refused Session End has ended
its session. `ClearInv` therefore says that the reader's checker `Trails` the writer's: they
know the same declarations and the same streams, up to what the order of records leaves
in them, but that a session whose end was refused is over for the writer only, which then
accepts less (`TrailAccepts`, `TrailAbsorbs`, `TrailLeaves` of `OperatorProofs`). `Unadvised`, that no
block is refused with an advisory finding, is needed: such a block has been absorbed whole
when the writer raises, and a copy is then compared with a record that is not in the file (scenario
`labelled` of section 3). It holds of every step of the run, and of the producers that leave
labels and marks of copies to the layers that may carry them. `ProducerAssumption` says that what a producer
hands over has the fields the checker reads.

`SequencedFileVerifies` relates two order checks, each of which sees what the other does not. The
session's has observed records that were then refused, and reads a participant's isn at its first
record; the reader's knows how many participants were declared, and asks for acks only if two were.
Behind both lie serial numbers, which are compared within half their space. `ShortStreams`
says that each stream of a session has a window of half the space that its records' sequence numbers, its declared
origin and its peers' acks of it lie in (`ShortFrom`, given the first numbers). Inside a window the walk
that a placer makes is an order by distance from its base, whatever it has been shown
(`PlacedAs`, `WalkedAs`), so that a check refuses exactly what is behind a larger number or under a
larger ack (`RefusesExactly` of `OperatorProofs`). What a session's guards know is then a superset of what the
file holds (`FollowedBy`), and what follows a larger set follows a smaller one: all that the reader would
refuse, the session refused. `OrderInv` keeps `FollowedBy` through every call and flush, together with what it
takes for granted: a live session's participants have streams in the checker, so that none is declared twice and loses
its place, and buffers and merges hold records of declared participants only. Without the windows the
property fails (scenario `bridged` of section 3). The producers of the run stay within theirs, which
begin at 15 and hold 15, 0, 1, 2 and 4 across the end of the space.

### The stages

`StageProofs` has what both stages share, beginning with `LabelsAreTrue`: of any uncovered range and
any coalesced list of holes, the loop of `_label_fills` gives parts that tile the range, each
labelled as the input has it. `DecodeProofs` proves of `DecodeStage`, for every input file, any
number of sessions and participants, and every order of calls, taken or refused:

* `DecodeCovers`, `DecodeFillsAreHonest`, `DecodeLedgerIsFile`: `DecodeSpec =>` `[]ClosedStageCovers`,
  `[]FillsAreHonest`, `[]LedgerIsFile`: the last from `LedgerKnown` and, session by session, from
  the conservation of records (`AcceptedIsHeld`).
* `DecodeReaderAgrees`: `DecodeSpec => [](StaysInside => ReaderAgrees)`.
* `DecodeSeamsAreBreaks`: `DecodeSpec => []SeamsAreBreaks`.
* `DecodeConservesRecords`: `DecodeSpec => []RecordsConserved`, inside `close()` too.

and `SessionizeProofs` of `SessionizeStage`, for any number of flows and keys:

* `FlowStageCovers`, `FlowFillsAreHonest`, `FlowLedgerIsFile`, `FlowReaderAgrees`,
  `FlowConservesRecords`: the same of a ledger that all flows share.
* `EndsAlwaysDeclare`: `FlowSpec => []EndsDeclareCites`.
* `FlowsAlwaysEndOnce`: `FlowSpec /\ []EndsStand => []FlowsEndOnce`.
* `KeysAlwaysSerial`: `FlowSpec /\ []EndsStand => []KeysAreSerial`.

A stage is a writer with a ledger, so its invariant is a conjunction: `WriterInv`, which the writer's
lemmas keep through every action a stage makes of it, `StageInv`, and what the stage itself
remembers. `ClosedStageCovers` says nothing before the file is complete. `StageInv` says what makes it so.
`LedgerKnown`: the ledger's cites are those of the records accepted, of whatever session. `MarksKnown`:
its marks are those of the Undecoded blocks in the file, until autofill comes to a stream; from there on
`Meant`, the blocks of the stream in the file and those of the fill not yet written, answer for
it (`Answered`): each offset that is owed is cited or named, none both, and what was told by
nobody is named by one block with its true reason. That a fill answers is `FillsTell`, from
`ComplementIsRest`, `LabelsAreTrue` and `IntersectionsMeet`; that writing it block by block keeps the answer
is `StageFillWritten`; and that at the End block no fill is left and what was accepted is what is in the
file, but for sessions lost, is `AnswersCover`.

For a decode stage `DecodeKnown` says that a record waiting behind its break is one the decoder passed
and that nothing but its `record()` goes on; `SeamInv`, that the break is then the last block
of the file (`BreakKnown`), that a session which writes at once has one answer, seam or not, for each of
its records in the file, in file order (`AskedKnown`), and that one which buffers took a seam for the first
record of a stream only. For a sessionizing stage `FlowInv` ties flows to sessions: each session is one
flow's, a flow cites what its accepted records draw on (`FlowsKnown`), an end under way is of a flow
that has just ended and has the extents of that flow (`EndingKnown`), and a session that is over takes no more
records, so what its Session End declared stays what its records cite (`EndsKnown`). `LivesInv`
adds the order of their blocks: a session begins once; one of the same key begins behind the End
of the one before.

`ReaderAgrees` is about the checker of a reader, which has the file alone. `ReadKnown` says that its ledger is
the file's (`Reads`), that what the file has of records was accepted, of marks was counted or lies
within the input, and that the extents declared are those of input streams. It needs `StaysInside`:
a record cites, and a mark names, bytes of the streams this stage reads and nothing behind their
ends, and a FIN is its stream's last offset. Without it the property is false, since a ledger keeps whatever
offset it is told of and a reader compares it with the extent. `StaysInside` holds at every state of the
runs `stage_files` and `flow_files`, as does `EndsStand`: a Session End is refused only where the output
was closed under it. The checker refuses one if a stream of the session mixes layers, or anchors
copies, and the flow has then ended without one (a hazard listed in `PROJECT.json`), so
that the lives of flows are as `FlowsEndOnce` says only as long as none is refused.

The theorems assume `StageAssumption` (records cite, and marks name, ranges within the bound, the streams
of an input are numbered apart and their holes are coalesced lists, as `Reassembly` measures them),
`SessionizeAssumption`, and the writer's.

### Only model-checked

* Liveness (`MergeCompletes`, `CallsReturn`), which is out of the prover's reach, as is ENABLED; and
  `CutsDoNotRaise`, which is violated.
* `NotesAgree`, whose reference takes the records of one stream out of a file by `SelectSeq`. The
  library defines it by a local recursive definition the prover does not unfold, and its laws take
  operators as parameters. Folds (`FoldLeft`, `FoldSet`, `FlattenSeq`) are within reach, by the
  least place an invariant of their intermediate results fails.
* `Reassembly` (`MeasuredIsStream`, `RunsFavorOld`, `AnswersAreOfTheStream`, `UnitsArePlaced`,
  `TimesAreOfAcceptedBytes`) and the transforms (`MergeKeepsPlaces`, `TransformCovers`,
  `CoverageCheckIsExact`, `SeamsAreDeclared`, `ResolvesToInput`): their references go byte by byte over
  whole streams and chains of files, and their models sort and select sequences (`SortSeq`, `SelectSeq`).
* `DecodeTypeOK`, of whose conjuncts `SoundDecode` has the most.

## 5. Not modelled, and why

* Field encodings, option encodings and text projections (`blocks.py`, most of `jsonl.py`,
  `_frame.py`, `content.py`) convert data and keep no state: what they do is a function of
  one block, for which bounded inputs of a model checker say less than a test with bytes. The
  rules read their results, which are fields of `BlockType`, and `Container` reads whether
  they succeed. The formats of labels and times a rule refuses are one flag.
* `cli.py`, `errors.py`: no behaviour of their own.
* The text forms of a block (`jsonl.py`), in which a writer may choose keys and their order.
* I/O errors of a sink, time bases, digests, allocation of ids, names of sources.
* Random access by a locator (`FileReader._resolve`) is a seek and a read of one frame;
  `LocatorsHold` says that it finds the block.

Type invariants are checked by a run where no property would fail of a wrong type otherwise;
`TypeOK` of `FileWriting` and `Reassembly` can be added to the runs of those modules and holds;
that of `LenientReader` is proved.

## 6. Plan

In this order, most important behaviour first:

1. *Done* - merge and stored order, with its abstract specification and first theorems.
2. *Done* - checker and lenient reader.
3. *Done* - writer, composed with the merge and the checker.
4. *Done* - `DecodeStage` over the writer, and `Intervals` with its theorems.
5. *Done* - `Reassembly`, against a reference by bytes, with interleaved walks.
6. *Done* - `SessionizeStage`, sharing `CoverageStage` with `DecodeStage`.
7. *Done* - `MergeFiles` and `RewriteDecoded`, over the writer and the merge.
8. *Done* - `Container`: files cut, growing and damaged, on both faces, with its theorem.
9. *Done* - `VerdictProofs`: the reader's index against its checker, and the verdict.
10. *Done* - `WriterProofs`, the reads of `ContainerProofs`, and the refinement of `CausalOrder`.
11. *Done* - `StageProofs`, `DecodeProofs`, `SessionizeProofs`: what both stages account for, seams,
   and the lives of flows.
12. *Done* - `FilesReadClean`: the reader's checker against the writer's.
13. Left: `Reassembly` and the transforms, once their references are folds.
