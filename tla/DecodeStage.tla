----------------------------- MODULE DecodeStage -----------------------------
(***************************************************************************)
(* DecodeStage: a decoder that reads the streams of one input file and     *)
(* writes a file derived from it, under the same ids, each session of the  *)
(* output fed by the streams of its counterpart.                           *)
(***************************************************************************)
EXTENDS CoverageStage

VARIABLES
    seams,                      \* the pids that have emitted, and a record behind its break
    unended,                    \* the sessions close() has yet to end
    asked                       \* history: was each record taken passed a seam

stageVars == <<vars, stage, seams, unended, asked>>

DecodeTypeOK ==
    /\ StageTypeOK
    /\ seams \in [emitted : SUBSET Pids, record : Producer.records \cup {None}]
    /\ unended \in Seq(Sids)
    /\ asked \in [Sids \X Pids -> Seq(BOOLEAN)]

-------------------------------------------------------------------------------
(* What a decoder calls.  A record that cites nothing, or has no time and     *)
(* cites no byte to take one from, is refused before anything happens.        *)

MayDecode == seams.record = None /\ MayStage

BreakIn(b) == [kind |-> "discontinuity", sid |-> b.sid, pid |-> b.pid]

\* record(seam=...) with a record behind it: the break is written first.  A raise
\* leaves the record unwritten; a buffering session raises at any break.
BreakFirst(b) ==
    /\ MayDecode
    /\ b.spans # {}
    /\ b.pid \in seams.emitted
    /\ Size + 1 < MaxBlocks
    /\ Discontinuity(BreakIn(b))
    /\ seams' = IF Emits(BreakIn(b)) THEN [seams EXCEPT !.record = b] ELSE seams
    /\ UNCHANGED <<stage, unended, asked>>

\* Slip: only the last stream to emit is remembered.
Emitted_Last(b) ==
    [emitted |-> IF Takes(b) THEN {b.pid} ELSE seams.emitted, record |-> None]

\* The streams that have emitted, once record() has returned or raised.
Emitted(b) ==
    [emitted |-> IF Takes(b) THEN seams.emitted \cup {b.pid} ELSE seams.emitted, record |-> None]

\* record(): the record itself, behind its break if a seam asked for one.
WriteDecoded(b, seam) ==
    /\ b.spans # {}
    /\ \/ MayDecode /\ (seam => b.pid \notin seams.emitted)
       \/ seams.record = b /\ seam
    /\ Record(b) \/ Buffer(b)
    /\ stage' = Counted(b)
    /\ seams' = Emitted(b)
    /\ asked' = IF Takes(b) THEN [asked EXCEPT ![<<b.sid, b.pid>>] = Append(@, seam)] ELSE asked
    /\ UNCHANGED unended

Undecoded(b) == seams.record = None /\ MarkUndecoded(b) /\ UNCHANGED <<seams, unended, asked>>

BreakOutput(b) ==
    /\ MayDecode
    /\ Discontinuity(b)
    /\ UNCHANGED <<stage, seams, unended, asked>>

-------------------------------------------------------------------------------
(* close() *)

\* The sessions of the output, in the order of the input's.
OutputSessions ==
    LET begun == Kept(file, { b \in ToSet(file) : b.kind = "session" })
    IN  [i \in DOMAIN begun |-> begun[i].sid]

CloseDecoding ==
    /\ seams.record = None
    /\ CloseStage
    /\ unended' = OutputSessions
    /\ UNCHANGED <<seams, asked>>

AbandonDecoding == seams.record = None /\ AbandonStage /\ UNCHANGED <<seams, unended, asked>>

\* An output session accounts for the input streams of its counterpart.
ExtentsOf(s) ==
    LET mine == Kept(stage.inputs, { x \in ToSet(stage.inputs) : x.sid = s })
    IN  [i \in DOMAIN mine |-> ExtentOf(mine[i])]

\* _declare_extents ends each session of the output.
DeclareExtents ==
    /\ Ending /\ unended # << >>
    /\ End(Head(unended), ExtentsOf(Head(unended)))
    /\ unended' = Tail(unended)
    /\ UNCHANGED <<stage, seams, asked>>

\* An end() that raises is not caught: close() raises with it.
SessionEnds ==
    /\ EndSession
    /\ stage' = IF Emits(SessionEndOf(call.sid, call.extents)) THEN stage
                ELSE [stage EXCEPT !.step = "done"]

FlushRaises ==
    /\ Unwind
    /\ stage' = [stage EXCEPT !.step = "done"]

CloseOutput ==
    /\ Ending /\ unended = << >>
    /\ Close
    /\ UNCHANGED stage

-------------------------------------------------------------------------------

\* What derive_from writes of the i-th stream of the input: its participant, without
\* the isn, behind its session if it is the first of that.
MirrorOf(inputs, i) ==
    (IF \E j \in 1 .. i - 1 : inputs[j].sid = inputs[i].sid THEN << >>
     ELSE <<[kind |-> "session", sid |-> inputs[i].sid]>>)
    \o <<[kind |-> "participant", sid |-> inputs[i].sid, pid |-> inputs[i].pid, isn |-> None,
          adjacency |-> "contiguous"]>>

\* derive_from: the source, then the input session by session; then the stage's decoder.
Scaffold(inputs) ==
    <<Header, [kind |-> "source", id |-> 0, source |-> "zpf"]>>
    \o FlattenSeq([i \in DOMAIN inputs |-> MirrorOf(inputs, i)])
    \o <<[kind |-> "decoder", id |-> 0, layer |-> "decoded"]>>

\* decode_stage: with sequenced, every session is buffered and then put in order.
DecodeInit(inputs, sequenced, fill) ==
    /\ InitAfter(Scaffold(inputs), [s \in Sids |-> [verify |-> sequenced, linearize |-> sequenced]])
    /\ stage = Opened(inputs, fill)
    /\ seams = [emitted |-> {}, record |-> None]
    /\ unended = << >>
    /\ asked = [key \in Sids \X Pids |-> << >>]

\* The decoder's calls, given what it may pass.
Decodes(decoder) ==
    \/ \E b \in decoder.records, seam \in BOOLEAN : WriteDecoded(b, seam)
    \/ \E b \in decoder.records : BreakFirst(b)
    \/ \E b \in decoder.declarations : Undecoded(b)
    \/ \E b \in decoder.breaks : BreakOutput(b)

\* What is left of record() and close() once they are called.
DecodeInside ==
    \/ (seams.record # None /\ WriteDecoded(seams.record, TRUE))
    \/ DeclareExtents
    \/ /\ Autofill \/ SessionEnds \/ FlushRaises \/ Flushes \/ CloseOutput \/ OutputClosed
       /\ UNCHANGED <<seams, unended, asked>>

DecodeNext == Decodes(Producer) \/ CloseDecoding \/ AbandonDecoding \/ DecodeInside

DecodeSpec ==
    /\ \E inputs \in InputFiles, sequenced, fill \in BOOLEAN : DecodeInit(inputs, sequenced, fill)
    /\ [][DecodeNext]_stageVars

-------------------------------------------------------------------------------
(* Properties *)

\* The records of its stream up to record i of the file, i among them.
RecordsUpTo(i) ==
    { j \in 1 .. i : file[j].kind = "record" /\ file[j].sid = file[i].sid /\ file[j].pid = file[i].pid }

\* Each seam a decoder passed with a record that was taken is a break in the file,
\* right before that record, also when earlier attempts at either were refused
\* (decode.py record: "emits the Discontinuity in the right place for you").  A
\* session that buffers takes no seam but a stream's first, which is none.
SeamsAreBreaks ==
    /\ \A s \in Sids, p \in Pids :
          sessions[s] # None /\ sessions[s].linearize =>
              \A n \in 2 .. Len(asked[<<s, p>>]) : ~ asked[<<s, p>>][n]
    /\ \A i \in DOMAIN file :
          file[i].kind = "record" /\ ~ sessions[file[i].sid].linearize =>
              LET seam == asked[<<file[i].sid, file[i].pid>>]
                  n    == Cardinality(RecordsUpTo(i))
              IN  /\ n \in DOMAIN seam
                  /\ n > 1 /\ seam[n] => file[i - 1] = BreakIn(file[i])

\* A seam is "ignored for a stream's first record, which has no seam" (decode.py
\* record): the break written for one is behind a record of its stream.
SeamHasTwoSides ==
    seams.record # None => RecordsOf(seams.record.sid, seams.record.pid) # << >>

\* "Close the output, then the input" (decode.py close): a stage that closed,
\* by returning or by raising, closed its output.
StageClosesOutput == stage.step = "done" => closed

===============================================================================
