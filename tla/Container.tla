------------------------------- MODULE Container -------------------------------
(***************************************************************************)
(* The two faces of a file as a stream: BlockWriter and BlockReader        *)
(* (binary.py), JsonlWriter and JsonlReader (jsonl.py), and the pass of    *)
(* FileReader over them (reader.py).  A file is written block by block and *)
(* reaches the reader as far as it was flushed: it may be cut anywhere, by *)
(* a crash, or still grow between two reads of one block.                  *)
(*                                                                         *)
(* A file is counted in parts: words of four bytes, or pieces of a line,   *)
(* the last of which is its newline.  What a block says is left out, but   *)
(* for what decides how it reads:                                          *)
(*   kind   "header", "record", "end", or "blank" for an empty line        *)
(*   form   "ok"; "invalid", well framed and isolated by a lenient reader; *)
(*          "malformed", structurally; "misframed", its length is none a   *)
(*          frame can have; "garbled", a line that is not JSON             *)
(*   size   parts, the frame and the newline included                      *)
(*   wide   a line whose first piece ends inside a character               *)
(***************************************************************************)
EXTENDS Integers, Sequences, SequencesExt

CONSTANTS
    Blocks,                     \* face -> the blocks a file of that face may hold
    FrameSize,                  \* parts of a frame (_frame.FRAME_SIZE)
    SniffSize,                  \* parts zpf.open needs to see the magic
    MaxBlocks

BlockType ==
    [kind : {"header", "record", "end", "blank"},
     form : {"ok", "invalid", "malformed", "misframed", "garbled"},
     size : Nat \ {0}, wide : BOOLEAN]

ASSUME BlocksAssumption ==
    /\ Blocks \in [{"binary", "jsonl"} -> SUBSET BlockType]
    /\ \A block \in Blocks["binary"] : block.kind # "blank" /\ block.form # "garbled"
    /\ \A line \in Blocks["jsonl"] : line.form # "misframed" /\ (line.kind # "blank" => line.size > 1)
    /\ \A block \in Blocks["binary"] \cup Blocks["jsonl"] :
          block.kind = "header" => block.form # "invalid"   \* a header that is wrong is malformed

ASSUME SizesAssumption ==
    /\ FrameSize \in Nat \ {0} /\ SniffSize \in Nat /\ SniffSize > FrameSize
    /\ \A block \in Blocks["binary"] : block.size > FrameSize

VARIABLES
    face,                       \* "binary" or "jsonl"
    medium,                     \* the blocks handed to the stream
    starts,                     \* the part each begins at, as BlockWriter.write returns it
    total,                      \* the parts they have together (BlockWriter._offset)
    grown,                      \* how many parts of them are in the file
    producer,                   \* [library, step]: BlockWriter or JsonlWriter, or another program
    reader,                     \* the flat reader
    index                       \* the blocks it has yielded: [block, isolated, at]

vars == <<face, medium, starts, total, grown, producer, reader, index>>

handed == <<face, medium, starts, total, producer>>

EndOf(i) == starts[i] + medium[i].size

\* The block that holds part n of the stream, counted from 0.
BlockAt(n) == CHOOSE i \in DOMAIN medium : starts[i] <= n /\ n < EndOf(i)

-------------------------------------------------------------------------------
(* Writing *)

\* BlockWriter.write, JsonlWriter.write: a header first and once, nothing behind End.
Takes(written, kind) ==
    /\ written = << >> <=> kind = "header"
    /\ "end" \notin ToSet(written)

Kinds(blocks) == [i \in DOMAIN blocks |-> IF blocks[i].form = "ok" THEN blocks[i].kind ELSE "unknown"]

\* A write that raises leaves the file as it is.
Write(block) ==
    /\ producer.step = "open"
    /\ Len(medium) < MaxBlocks
    /\ producer.library =>
          /\ block.form = "ok" /\ block.kind # "blank"
          /\ Takes(Kinds(medium), block.kind)
    /\ medium' = Append(medium, block)
    /\ starts' = Append(starts, total)
    /\ total' = total + block.size
    /\ UNCHANGED <<face, grown, producer, reader, index>>

\* The stream has a buffer, of which any part may have reached the file.
Flush ==
    /\ producer.step = "open"
    /\ grown' \in grown + 1 .. total
    /\ UNCHANGED <<handed, reader, index>>

Close ==
    /\ producer.step = "open"
    /\ grown' = total
    /\ producer' = [producer EXCEPT !.step = "closed"]
    /\ UNCHANGED <<face, medium, starts, total, reader, index>>

Crash ==
    /\ producer.step = "open"
    /\ producer' = [producer EXCEPT !.step = "crashed"]
    /\ UNCHANGED <<face, medium, starts, total, grown, reader, index>>

-------------------------------------------------------------------------------
(* What becomes of a read *)

Raised(r, error) == [r EXCEPT !.step = "raised", !.error = error]

Stopped(r) == [r EXCEPT !.step = "stopped"]

\* A finding is noted, and raised if the reader is strict.
Noted(r, category, error) ==
    LET noted == [r EXCEPT !.found = @ \cup {category}]
    IN  IF r.strict THEN Raised(noted, error) ELSE noted

\* _truncate
TruncatedAt(r) == Noted(Stopped([r EXCEPT !.truncated = TRUE]), "truncated", "truncated")

\* _check_trailing, _report_trailing: finished, whatever follows.
Trailing(r) == Noted(Stopped(r), "trailing", "semantic")

Entry(i, isolated) == [block |-> i, isolated |-> isolated, at |-> reader.position]

\* Slip: an isolated block is not counted.
Yielded_Skips(r, i, isolated) ==
    [r EXCEPT !.position = IF isolated THEN @ ELSE @ + medium[i].size,
              !.header   = @ \/ medium[i].kind = "header",
              !.complete = @ \/ (medium[i].kind = "end" /\ ~ isolated)]

\* The block is yielded, and FileReader._index counts it by the size it would be
\* written in; End is the last.
Yielded(r, i, isolated) ==
    [r EXCEPT !.position = @ + medium[i].size,
              !.header   = @ \/ medium[i].kind = "header",
              !.complete = @ \/ (medium[i].kind = "end" /\ ~ isolated)]

\* The position rules of the header, and what no parser can take apart.
Unreadable(i) ==
    \/ medium[i].form = "malformed"
    \/ reader.header <=> medium[i].kind = "header"

-------------------------------------------------------------------------------
(* BlockReader.__next__: the frame, then the content, each read to its end *)

Ready == face = "binary" /\ reader.step = "next" /\ ~ reader.complete

ReadFrame ==
    /\ Ready
    /\ LET here == grown - reader.offset
       IN  reader' = CASE here = 0 /\ reader.offset = 0  -> Raised(reader, "structural")
                       [] here = 0 /\ reader.offset > 0  -> Stopped(reader)
                       [] here > 0 /\ here < FrameSize   -> TruncatedAt(reader)
                       [] here >= FrameSize ->
                             IF medium[BlockAt(reader.offset)].form = "misframed"
                             THEN Raised(reader, "structural")
                             ELSE [reader EXCEPT !.step = "content"]
    /\ UNCHANGED <<handed, grown, index>>

\* Slip: short content is parsed for what there is of it.
ContentIsShort_Never(i) == FALSE

ContentIsShort(i) == grown < EndOf(i)

\* _to_block: what is invalid becomes an UnknownBlock of the same bytes.
ReadContent ==
    /\ reader.step = "content"
    /\ LET i        == BlockAt(reader.offset)
           isolated == medium[i].form = "invalid"
           read     == [reader EXCEPT !.step = "next", !.offset = EndOf(i)]
           noted    == IF isolated THEN Noted(read, "invalid", "semantic") ELSE read
       IN  CASE ContentIsShort(i) ->
                    reader' = TruncatedAt(reader) /\ UNCHANGED index
             [] ~ ContentIsShort(i) /\ Unreadable(i) ->
                    reader' = Raised(read, "structural") /\ UNCHANGED index
             [] ~ ContentIsShort(i) /\ ~ Unreadable(i) /\ noted.step = "raised" ->
                    reader' = noted /\ UNCHANGED index
             [] ~ ContentIsShort(i) /\ ~ Unreadable(i) /\ noted.step # "raised" ->
                    reader' = Yielded(noted, i, isolated) /\ index' = Append(index, Entry(i, isolated))
    /\ UNCHANGED <<handed, grown>>

ReadBehindEnd ==
    /\ face = "binary" /\ reader.step = "next" /\ reader.complete
    /\ reader' = IF grown > reader.offset THEN Trailing(reader) ELSE Stopped(reader)
    /\ UNCHANGED <<handed, grown, index>>

-------------------------------------------------------------------------------
(* JsonlReader.__next__: one line, up to its newline or the end of the file *)

LineEnd(i) == IF EndOf(i) <= grown THEN EndOf(i) ELSE grown

\* The text decoder raises where the file ends inside a character.
EndsInCharacter(i) == medium[i].wide /\ grown = starts[i] + 1

\* Only a newline is left, of a line read before it was there.
IsBlank(i) == medium[i].kind = "blank" \/ reader.offset > starts[i]

\* Slip: a line without its newline is no line.
Decodes_Terminated(i) == medium[i].form # "garbled" /\ LineEnd(i) = EndOf(i)

\* All of the line but its newline is there, and is JSON.
Decodes(i) == medium[i].form # "garbled" /\ LineEnd(i) >= EndOf(i) - 1

\* _parse_line: an invalid line is isolated, and not yielded.
Parsed(read, i) ==
    CASE Unreadable(i) ->
             reader' = Raised(read, "structural") /\ UNCHANGED index
      [] ~ Unreadable(i) /\ medium[i].form = "invalid" ->
             reader' = Noted(read, "invalid", "semantic") /\ UNCHANGED index
      [] ~ Unreadable(i) /\ medium[i].form # "invalid" ->
             reader' = Yielded(read, i, FALSE) /\ index' = Append(index, Entry(i, FALSE))

ReadLine ==
    /\ face = "jsonl" /\ reader.step = "next" /\ reader.offset < grown
    /\ LET i    == BlockAt(reader.offset)
           read == [reader EXCEPT !.offset = LineEnd(i), !.lines = TRUE]
       IN  CASE EndsInCharacter(i) ->
                    reader' = Raised(reader, "decoding") /\ UNCHANGED index
             [] ~ EndsInCharacter(i) /\ IsBlank(i) ->
                    reader' = read /\ UNCHANGED index
             [] ~ EndsInCharacter(i) /\ ~ IsBlank(i) /\ reader.complete ->
                    reader' = Trailing(read) /\ UNCHANGED index
             [] ~ EndsInCharacter(i) /\ ~ IsBlank(i) /\ ~ reader.complete /\ Decodes(i) ->
                    Parsed(read, i)
             [] ~ EndsInCharacter(i) /\ ~ IsBlank(i) /\ ~ reader.complete /\ ~ Decodes(i) ->
                    reader' = [read EXCEPT !.step = "undecodable"] /\ UNCHANGED index
    /\ UNCHANGED <<handed, grown>>

\* _finish_at_eof: only a file without any line is empty.
ReadNoLine ==
    /\ face = "jsonl" /\ reader.step = "next" /\ reader.offset = grown
    /\ reader' = IF reader.lines THEN Stopped(reader) ELSE Raised(reader, "structural")
    /\ UNCHANGED <<handed, grown, index>>

\* _handle_undecodable_line: truncated, unless the file goes on by now.
ReadPast ==
    /\ reader.step = "undecodable"
    /\ reader' = CASE reader.offset = grown -> TruncatedAt(reader)
                   [] reader.offset < grown /\ EndsInCharacter(BlockAt(reader.offset)) ->
                        Raised(reader, "decoding")
                   [] reader.offset < grown /\ ~ EndsInCharacter(BlockAt(reader.offset)) ->
                        Raised(reader, "structural")
    /\ UNCHANGED <<handed, grown, index>>

-------------------------------------------------------------------------------
(* The specification *)

NewReader(strict) ==
    [step |-> "new", strict |-> strict, error |-> "none", opened |-> 0, offset |-> 0, position |-> 0,
     lines |-> FALSE, header |-> FALSE, complete |-> FALSE, truncated |-> FALSE, found |-> {}]

Init ==
    /\ face \in DOMAIN Blocks
    /\ medium = << >> /\ starts = << >> /\ total = 0 /\ grown = 0
    /\ producer \in [library : BOOLEAN, step : {"open"}]
    /\ reader \in { NewReader(strict) : strict \in BOOLEAN }
    /\ index = << >>

\* _resolve_face: the magic of a header, or the brace a line opens with.
Sniffed ==
    IF face = "binary"
    THEN grown >= SniffSize /\ medium[1].kind = "header" /\ medium[1].form # "misframed"
    ELSE \E i \in DOMAIN medium :
            /\ starts[i] < grown /\ medium[i].kind # "blank" /\ medium[i].form # "garbled"
            /\ \A j \in 1 .. i - 1 : medium[j].kind = "blank"

\* zpf.open finds the face out, a flat reader is told.
Open ==
    /\ reader.step = "new"
    /\ \E told \in BOOLEAN :
          reader' = IF told \/ Sniffed THEN [reader EXCEPT !.step = "next", !.opened = grown]
                    ELSE Raised(reader, "structural")
    /\ UNCHANGED <<handed, grown, index>>

Reads == Open \/ ReadFrame \/ ReadContent \/ ReadBehindEnd \/ ReadLine \/ ReadNoLine \/ ReadPast

Next ==
    \/ \E block \in Blocks[face] : Write(block)
    \/ Flush \/ Close \/ Crash
    \/ Reads

Spec == Init /\ [][Next]_vars

-------------------------------------------------------------------------------
(* Properties *)

ReaderType ==
    [step : {"new", "next", "content", "undecodable", "stopped", "raised"}, strict : BOOLEAN,
     error : {"none", "structural", "semantic", "truncated", "decoding"},
     opened : Nat, offset : Nat, position : Nat, lines : BOOLEAN, header : BOOLEAN,
     complete : BOOLEAN, truncated : BOOLEAN, found : SUBSET {"invalid", "truncated", "trailing"}]

\* The type invariant of Container.
TypeOK ==
    /\ face \in {"binary", "jsonl"}
    /\ medium \in Seq(BlockType) /\ starts \in Seq(Nat) /\ Len(starts) = Len(medium)
    /\ total \in Nat /\ grown \in 0 .. total
    /\ producer \in [library : BOOLEAN, step : {"open", "closed", "crashed"}]
    /\ reader \in ReaderType
    /\ index \in Seq([block : Nat, isolated : BOOLEAN, at : Nat])

\* Where the block ends, but for a newline, and whether the file has it so far.
Until(i) == EndOf(i) - (IF face = "jsonl" THEN 1 ELSE 0)

Whole(i) == Until(i) <= grown

\* What a reader yields of a file: all but empty lines and, of JSON Lines, those it
\* isolates, up to the End block.
Readable(i) ==
    /\ medium[i].kind # "blank" /\ (face = "binary" \/ medium[i].form = "ok")
    /\ \A j \in 1 .. i - 1 : medium[j].kind # "end" \/ medium[j].form # "ok"

Numbers == [n \in DOMAIN index |-> index[n].block]

\* Nothing was added to the file since it was opened.
Still == grown = reader.opened

\* "It stops at the last whole block, keeps every record before the cut" (robustness.md):
\* wherever the file ends and whether it grows, the blocks yielded are the first whole ones
\* of the file, in order and none left out, those of a reader that came to the end of a
\* file at rest are all of them, and a converter can write each (binary_to_jsonl).
ReadsWholeBlocks ==
    /\ \A m, n \in DOMAIN index : m < n => Numbers[m] < Numbers[n]
    /\ ToSet(Numbers) = { i \in DOMAIN medium :
          Readable(i) /\ Whole(i) /\ \E n \in DOMAIN index : i <= Numbers[n] }
    /\ reader.step = "stopped" /\ Still =>
          ToSet(Numbers) = { i \in DOMAIN medium : Readable(i) /\ Whole(i) }
    /\ \A n \in DOMAIN index :
          LET kinds == [m \in 1 .. n |-> IF index[m].isolated THEN "unknown" ELSE medium[Numbers[m]].kind]
          IN  Takes(Front(kinds), Last(kinds))

\* The file ends where a block does, or inside one.
EndsInBlock ==
    \E i \in DOMAIN medium : medium[i].kind # "blank" /\ starts[i] < grown /\ ~ Whole(i)

\* "complete: True once a valid End block was read", "truncated: True if the stream
\* ended inside a block" (binary.py BlockReader), of a file at rest: neither a cut that
\* falls between two blocks nor a complete file is truncated, what stands behind End is
\* reported and never read, and a strict reader that did not raise has nothing to report.
StatusIsHonest ==
    /\ reader.complete <=> \E n \in DOMAIN index : medium[Numbers[n]].kind = "end" /\ ~ index[n].isolated
    /\ reader.step = "stopped" =>
          /\ ~ (reader.complete /\ reader.truncated)
          /\ reader.strict => reader.found = {}
          /\ Still /\ producer.library =>
                /\ reader.truncated <=> EndsInBlock
                /\ reader.complete <=> \E i \in DOMAIN medium : medium[i].kind = "end" /\ Whole(i)
          /\ Still /\ reader.complete => ("trailing" \in reader.found <=>
                \E i \in DOMAIN medium : i > Last(index).block /\ medium[i].kind # "blank" /\ starts[i] < grown)

\* FileReader._resolve seeks: the block whose frame begins there, and is whole.
Resolved(at) == { i \in DOMAIN medium : starts[i] = at /\ EndOf(i) <= grown }

\* A record is found again, and nothing else, where the index has it, however blocks
\* before it were isolated and whatever is added to the file later (reader.py
\* FileReader._index counts the sizes blocks would be written in).
LocatorsHold ==
    face = "binary" => \A n \in DOMAIN index : Resolved(index[n].at) = {index[n].block}

\* "A lenient read never raises for a nonconformant or truncated file"
\* (docs/user/howto/validate.md), here of a file the library wrote, cut behind its header.
CutsDoNotRaise ==
    producer.library /\ ~ reader.strict /\ Still /\ index # << >> => reader.step # "raised"

===============================================================================
