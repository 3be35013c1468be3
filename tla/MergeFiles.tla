------------------------------ MODULE MergeFiles ------------------------------
(***************************************************************************)
(* merge_files: two captures, each of one direction, become one sequenced  *)
(* file.  The records of both run through causal_merge and are written     *)
(* under new ids, each citing the range it has in its input; then the      *)
(* holes of each input are marked and its length is declared.              *)
(*                                                                         *)
(* The steps of the merge are those of the instance in FileWriting.  What  *)
(* raises on the way leaves a file without an End block.                   *)
(***************************************************************************)
EXTENDS FileTransforms

\* _require_mergeable: one transport stream on each side, whose key is the pid it
\* is given in the output and the number of the stream.
Mergeable(inputs) ==
    /\ DOMAIN inputs = Pair
    /\ \A p \in Pair :
          /\ inputs[p].layer = "transport"
          /\ inputs[p].key[1] = p /\ inputs[p].key \in Keys
          /\ \A i \in DOMAIN inputs[p].blocks : IsRecord(inputs[p].blocks[i])

-------------------------------------------------------------------------------
(* What is written of an input *)

SourceBlock(p) == [kind |-> "source", id |-> p, source |-> "zpf"]

\* Slip: the isn is left behind, as derive_from leaves it.
CopiedParticipant_NoIsn(p, v) ==
    [kind |-> "participant", sid |-> 0, pid |-> p, isn |-> None, adjacency |-> "contiguous"]

\* _copy_participant: with the isn, since the offsets are kept.
CopiedParticipant(p, v) ==
    [kind |-> "participant", sid |-> 0, pid |-> p, isn |-> v.isn, adjacency |-> "contiguous"]

\* _reissued: each record under the output's ids, citing its own range.
Reissued(p, v) ==
    [i \in DOMAIN v.blocks |->
        [v.blocks[i] EXCEPT !.sid = 0, !.pid = p, !.source = p,
                            !.spans = {SpanOf(v, RecordRanges(v)[i])}]]

\* Slip: a stream ends where its last record does.
InputExtent_Last(v) == IF v.blocks = << >> THEN 0 ELSE RecordRanges(v)[Len(v.blocks)][2]

InputExtent(v) == StreamExtent(v)

\* _account_for_input: the holes, and the length.
HolesOf(v) ==
    LET holes == Complement(InOrder(ToSet(RecordRanges(v))), InputExtent(v))
    IN  [i \in DOMAIN holes |->
            [kind |-> "undecoded", source |-> v.key[1], input |-> v.key[2], start |-> holes[i][1],
             end |-> holes[i][2], decoder |-> None, reason |-> "gap", class |-> None]]

MergedExtent(v) == [source |-> v.key[1], input |-> v.key[2], extent |-> InputExtent(v)]

Sides == SetToSortSeq(Pair, <)

-------------------------------------------------------------------------------
(* The transform *)

\* The output's session is SEQUENCED: a promise, which write_block does not check.
MergeInit(inputs) ==
    /\ InitAfter(<<Header>> \o [i \in 1 .. 2 |-> SourceBlock(Sides[i])]
                    \o <<[kind |-> "session", sid |-> 0]>>
                    \o [i \in 1 .. 2 |-> CopiedParticipant(Sides[i], inputs[Sides[i]])],
                 [s \in {0} |-> [verify |-> FALSE, linearize |-> FALSE]])
    /\ job = [inputs |-> inputs, step |-> "open", todo |-> << >>]

\* The generator is called: nothing is read of the streams yet.
StartMerge ==
    /\ job.step = "open"
    /\ streams' = [p \in Pair |-> Reissued(p, job.inputs[p])]
    /\ isns' = [p \in Pair |-> job.inputs[p].isn]
    /\ frontier' = [p \in Pair |-> Merge!NewFrontier(job.inputs[p].isn)]
    /\ verified' = [order |-> Merge!NewOrder(2, sessions[0].isn), ok |-> TRUE]
    /\ out' = << >>
    /\ status' = "priming"
    /\ job' = [job EXCEPT !.step = "merge"]
    /\ UNCHANGED <<checker, file, closed, sessions, linearizing, call, history, tail>>

MergeAdvances ==
    /\ job.step = "merge"
    /\ (\E p \in Pair : Merge!Prime(p) \/ Merge!Refuse(p)) \/ Merge!Begin \/ Merge!Stall \/ Merge!Finish
    /\ UNCHANGED <<checker, file, closed, sessions, linearizing, call, history, tail, job>>

\* write_block hands the record to the checker and the sink, past the session.
WriteMerged(p) ==
    /\ job.step = "merge"
    /\ Merge!Emit(p)
    /\ Emit(frontier[p].head)
    /\ job' = IF Emits(frontier[p].head) THEN job ELSE [job EXCEPT !.step = "raise"]
    /\ UNCHANGED <<closed, sessions, linearizing, call, history>>

MergeRaises ==
    /\ job.step = "merge"
    /\ status \in {"refused", "stalled"}
    /\ job' = [job EXCEPT !.step = "raise"]
    /\ UNCHANGED vars

AccountForInputs ==
    /\ job.step = "merge"
    /\ status = "done"
    /\ job' = [job EXCEPT !.step = "account",
                          !.todo = HolesOf(job.inputs[Sides[1]]) \o HolesOf(job.inputs[Sides[2]])]
    /\ UNCHANGED vars

MarkHole ==
    /\ job.step = "account" /\ job.todo # << >>
    /\ Emit(Head(job.todo))
    /\ job' = IF Emits(Head(job.todo)) THEN [job EXCEPT !.todo = Tail(@)]
              ELSE [job EXCEPT !.step = "raise"]
    /\ UNCHANGED <<closed, sessions, linearizing, call, mergeVars, history>>

EndMerged ==
    /\ job.step = "account" /\ job.todo = << >>
    /\ End(0, [i \in 1 .. 2 |-> MergedExtent(job.inputs[Sides[i]])])
    /\ job' = [job EXCEPT !.step = "end"]

MergeNext ==
    \/ StartMerge \/ MergeAdvances \/ (\E p \in Pair : WriteMerged(p)) \/ MergeRaises
    \/ AccountForInputs \/ MarkHole \/ EndMerged
    \/ Leaving

-------------------------------------------------------------------------------
(* Properties *)

MergedRecords(p) == RecordsOf(0, p)

\* The stream a reader of the output finds.
MergedStream(p) ==
    [isn |-> sessions[0].isn[p], layer |-> "transport", units |-> FALSE, blocks |-> MergedRecords(p)]

\* "The output preserves that space, so the same pair is correct on both sides"
\* (transform.py _reissued): at every instant each output stream is a prefix of its
\* input, each of its records stands in the output where it stood and cites that
\* range.  A stream without an isn has no place for its records before the first hint.
MergeKeepsPlaces ==
    DOMAIN job.inputs = Pair =>
        \A p \in Pair :
            LET written == MergedRecords(p)
                v       == job.inputs[p]
            IN  /\ Len(written) <= Len(v.blocks)
                /\ Complete => Len(written) = Len(v.blocks)
                /\ \A i \in DOMAIN written :
                      /\ written[i].seq = v.blocks[i].seq /\ written[i].ack = v.blocks[i].ack
                      /\ written[i].payload = v.blocks[i].payload
                      /\ Complete \/ ~ Positional(MergedStream(p)) =>
                            written[i].spans = {SpanOf(v, RecordRanges(MergedStream(p))[i])}

===============================================================================
