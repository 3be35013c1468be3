----------------------------- MODULE FileWriting -----------------------------
(***************************************************************************)
(* FileWriter and its SessionWriters: the calls a producer makes, each     *)
(* block checked before it is written.  A refused call raises, and the     *)
(* producer may carry on, so what a refusal leaves behind matters.         *)
(*                                                                         *)
(* A linearizing session buffers its records; end() and close() run them   *)
(* through causal_merge and write each record the merge yields, so the two *)
(* machines step together here: a step of the module CausalMerge that      *)
(* yields a record is the step of this one that writes it.                 *)
(***************************************************************************)
EXTENDS Conformance, Sequences, SequencesExt

CONSTANTS
    Header,                     \* the File Header the writer begins with
    Producer,                   \* what the producer may pass: declarations (blocks of
                                \* methods that keep no state), participants, breaks,
                                \* records, sids and modes of begin_session
    Pair,                       \* bound: the senders a linearizing session hears from
    MaxBlocks                   \* bound: blocks written or buffered

\* What add_source, add_decoder, undecoded, name and write_custom write.
Stateless == {"source", "decoder", "undecoded", "name", "custom"}

\* The fields Conformance reads of a record, and those the order rules read.
SessionRecord(b) ==
    /\ b.kind = "record"
    /\ b.sid \in Sids /\ b.pid \in Pids
    /\ b.seq \in SeqNum \cup {None}
    /\ b.flag \in {"none", "syn", "fin"}
    /\ b.ack \in SeqNum \cup {None}
    /\ b.len \in Nat
    /\ b.ts \in Int

\* A SessionWriter.
WriterType ==
    [verify : BOOLEAN, linearize : BOOLEAN, pids : SUBSET Pids,
     isn : [Pids -> SeqNum \cup {None}], anchor : [Pids -> SeqNum \cup {None}],
     order : OrderType, pending : [Pair -> Seq(Producer.records)]]

ASSUME WriterAssumption ==
    /\ \A b \in Producer.records : SessionRecord(b) /\ b # None
    /\ \A b \in Producer.participants :
          b.kind = "participant" /\ b.sid \in Sids /\ b.pid \in Pids /\ b.isn \in SeqNum \cup {None}
    /\ \A b \in Producer.breaks : b.kind = "discontinuity"
    /\ \A b \in Producer.declarations : b.kind \in Stateless
    /\ Header.kind = "header"
    /\ Producer.sids \subseteq Sids
    /\ Producer.modes \subseteq [verify : BOOLEAN, linearize : BOOLEAN]
    /\ Pair \subseteq Pids /\ Cardinality(Pair) = 2
    /\ MaxBlocks \in Nat
    /\ None \notin WriterType

\* Without the fields that only the order rules read.
RecordOf(b) ==
    [kind |-> b.kind, sid |-> b.sid, pid |-> b.pid, source |-> b.source, decoder |-> b.decoder,
     seq |-> b.seq, flag |-> b.flag, copy |-> b.copy, payload |-> b.payload,
     label |-> b.label, badLabel |-> b.badLabel, spans |-> b.spans]

\* What a producer passes has the fields the checker reads.
ASSUME ProducerAssumption ==
    /\ \A b \in Producer.records : RecordOf(b) \in BlockType
    /\ Producer.declarations \cup Producer.participants \cup Producer.breaks \cup {Header}
          \subseteq BlockType

VARIABLES
    checker,                    \* the writer's ConformanceChecker
    file,                       \* the blocks handed to the sink
    closed,
    sessions,                   \* sid -> the SessionWriter, or None
    linearizing,                \* the sessions close() has to flush
    call,                       \* the end() or close() in progress
    streams, isns, frontier, out, status, verified,     \* its causal_merge
    accepted,                   \* history: sid -> the records record() returned from
    late,                       \* history: sid -> how many of them it took after close()
    lost,                       \* history: the sessions a flush of which raised
    rejected,                   \* history: sid -> records a flush refused before close()
    tail                        \* history: a reader's checker, over the file

mergeVars == <<streams, isns, frontier, out, status, verified>>
history   == <<accepted, late, lost, rejected>>
vars == <<checker, file, closed, sessions, linearizing, call, mergeVars, history, tail>>

\* causal_merge is given the senders that buffered a record.  One of them alone is
\* merged as a pair of which the other stream is empty: neither waits for the other.
Merge == INSTANCE CausalMerge WITH Pids <- Pair, Records <- {}, MaxLen <- 0

CallType ==
    [op : {"none", "end", "close"}, sid : Sids \cup {None}, extents : Seq(ExtentType),
     left : Seq(Sids), step : {"none", "flush", "merge", "raise"}]

TypeOK ==
    /\ checker \in CheckerType
    /\ sessions \in [Sids -> WriterType \cup {None}]
    /\ linearizing \in Seq(Sids)
    /\ call \in CallType
    /\ closed \in BOOLEAN
    /\ verified \in [order : Merge!OrderType, ok : BOOLEAN]

-------------------------------------------------------------------------------
(* _emit *)

Idle == [op |-> "none", sid |-> None, extents |-> << >>, left |-> << >>, step |-> "none"]

NoStreams == [p \in Pair |-> << >>]

\* The block is checked and written, and the call returns.
Emits(b) == ~ closed /\ ~ Refuses(checker, b) /\ ~ Advises(checker, b)

\* Slip: the block is written before it is checked.
Emit_WritesFirst(b) ==
    /\ checker' = CASE closed -> checker
                    [] ~ closed /\ Refuses(checker, b) -> Left(checker, b)
                    [] ~ closed /\ ~ Refuses(checker, b) -> Absorbed(checker, b)
    /\ IF ~ closed
       THEN /\ file' = Append(file, b)
            /\ tail' = [checker |-> Absorbed(tail.checker, b),
                        ok |-> tail.ok /\ ~ Refuses(tail.checker, b)]
       ELSE UNCHANGED <<file, tail>>

\* A raise leaves the checker with what it took from the block: all of it, when
\* the finding is only advisory.
Emit(b) ==
    /\ checker' = CASE closed -> checker
                    [] ~ closed /\ Refuses(checker, b) -> Left(checker, b)
                    [] ~ closed /\ ~ Refuses(checker, b) -> Absorbed(checker, b)
    /\ IF Emits(b)
       THEN /\ file' = Append(file, b)
            /\ tail' = [checker |-> Absorbed(tail.checker, b),
                        ok |-> tail.ok /\ ~ Refuses(tail.checker, b)]
       ELSE UNCHANGED <<file, tail>>

Complete == file[Len(file)].kind = "end"

-------------------------------------------------------------------------------
(* A SessionWriter's own guards *)

NewSession(mode) ==
    [verify |-> mode.verify, linearize |-> mode.linearize, pids |-> {},
     isn |-> [p \in Pids |-> None], anchor |-> [p \in Pids |-> None],
     order |-> NewOrder(None, [p \in Pids |-> None]), pending |-> NoStreams]

\* The isn mapping is shared with the stored-order check, which reads it at the
\* participant's first record.
DeclaredIn(writer, b) ==
    [writer EXCEPT
        !.pids = @ \cup {b.pid},
        !.isn[b.pid] = b.isn,
        !.anchor[b.pid] = IF b.isn = None THEN None ELSE (b.isn + 1) % SeqSpace,
        !.order.placers[b.pid] = NewPlacer(b.isn)]

Guarded(writer, b) == writer.isn[b.pid] # None /\ b.seq # None

\* _guard_placement raises: a SYN off the origin, or payload below it.
GuardRefuses(writer, b) ==
    /\ Guarded(writer, b)
    /\ LET origin == (writer.isn[b.pid] + 1) % SeqSpace
       IN  \/ b.flag = "syn" /\ b.seq # origin
           \/ /\ SerialDelta(b.seq, writer.anchor[b.pid]) < 0
              /\ writer.anchor[b.pid] = origin
              /\ b.len > 0

Advance(writer, b) ==
    IF Guarded(writer, b) /\ SerialDelta(b.seq, writer.anchor[b.pid]) >= 0
    THEN [writer EXCEPT !.anchor[b.pid] = b.seq]
    ELSE writer

\* Slip: the order check forgets a record's ack.
OrderStops_NoAcks(writer, b) ==
    writer.verify /\ PrecedesLastSeq(writer.order, b.pid, b)

OrderStops(writer, b) == writer.verify /\ OrderRefuses(writer.order, None, b.pid, b)

\* The session's guards after a record, written or not.
AfterRecord(writer, b) ==
    IF GuardRefuses(writer, b) THEN writer
    ELSE IF ~ writer.verify THEN Advance(writer, b)
    ELSE [Advance(writer, b) EXCEPT !.order = OrderObserved(@, None, b.pid, b)]

\* _emit_record: the placement guard, the stored order, the write.
Stopped(writer, b) == GuardRefuses(writer, b) \/ OrderStops(writer, b)

RecordEmits(s, b) == ~ Stopped(sessions[s], b) /\ Emits(b)

EmitRecord(s, b) ==
    /\ sessions' = [sessions EXCEPT ![s] = AfterRecord(@, b)]
    /\ IF Stopped(sessions[s], b) THEN UNCHANGED <<checker, file, tail>> ELSE Emit(b)

-------------------------------------------------------------------------------

\* The sessions a sequence of blocks begins.
Begun(opening) ==
    { s \in Sids : \E i \in DOMAIN opening : opening[i].kind = "session" /\ opening[i].sid = s }

\* The subsequence of s with its members in S.
Kept(s, S) ==
    LET kept[n \in 0 .. Len(s)] ==
          IF n = 0 THEN << >>
          ELSE IF s[n] \in S THEN Append(kept[n - 1], s[n]) ELSE kept[n - 1]
    IN  kept[Len(s)]

ParticipantsIn(opening, s) ==
    Kept(opening, { b \in ToSet(opening) : b.kind = "participant" /\ b.sid = s })

\* The sessions of an opening that linearize, in the order it begins them.
LinearizingIn(opening, modes) ==
    LET begun == Kept(opening, { b \in ToSet(opening) : b.kind = "session" /\ modes[b.sid].linearize })
    IN  [i \in DOMAIN begun |-> begun[i].sid]

\* The writer once it has written an opening no block of which is refused, its
\* sessions begun in the given modes.
InitAfter(opening, modes) ==
    /\ checker = FoldLeft(Absorbed, NewChecker, opening)
    /\ file = opening
    /\ closed = FALSE
    /\ sessions = [s \in Sids |->
          IF s \notin Begun(opening) THEN None
          ELSE FoldLeft(DeclaredIn, NewSession(modes[s]), ParticipantsIn(opening, s))]
    /\ linearizing = LinearizingIn(opening, modes)
    /\ call = Idle
    /\ streams = NoStreams /\ isns = [p \in Pair |-> None]
    /\ Merge!Start
    /\ accepted = [s \in Sids |-> << >>]
    /\ late = [s \in Sids |-> 0]
    /\ lost = {}
    /\ rejected = [s \in Sids |-> 0]
    /\ tail = [checker |-> checker, ok |-> TRUE]

Init == InitAfter(<<Header>>, << >>)

-------------------------------------------------------------------------------
(* The producer's calls *)

Size == Len(file) + MapThenSumSet(LAMBDA s : Len(accepted[s]), Sids)

\* The library is called by one thread: a call runs to its end before the next.
MayCall ==
    /\ call = Idle
    /\ Size < MaxBlocks

\* add_source, add_decoder, undecoded, name, write_custom
Declare(b) ==
    /\ MayCall
    /\ Emit(b)
    /\ UNCHANGED <<closed, sessions, linearizing, call, mergeVars, history>>

BeginSession(s, mode) ==
    LET b == [kind |-> "session", sid |-> s]
    IN  /\ MayCall
        /\ sessions[s] = None
        /\ Emit(b)
        /\ IF Emits(b)
           THEN /\ sessions' = [sessions EXCEPT ![s] = NewSession(mode)]
                /\ linearizing' = IF mode.linearize THEN Append(linearizing, s) ELSE linearizing
           ELSE UNCHANGED <<sessions, linearizing>>
        /\ UNCHANGED <<closed, call, mergeVars, history>>

Participant(b) ==
    /\ MayCall
    /\ sessions[b.sid] # None
    /\ Emit(b)
    /\ sessions' = IF Emits(b) THEN [sessions EXCEPT ![b.sid] = DeclaredIn(@, b)] ELSE sessions
    /\ UNCHANGED <<closed, linearizing, call, mergeVars, history>>

\* A sender is a handle participant() returned.
HasHandle(b) == sessions[b.sid] # None /\ b.pid \in sessions[b.sid].pids

\* record() of a linearizing session checks nothing.
Buffer(b) ==
    /\ MayCall
    /\ HasHandle(b)
    /\ sessions[b.sid].linearize
    /\ b.pid \in Pair
    /\ sessions' = [sessions EXCEPT ![b.sid].pending[b.pid] = Append(@, b)]
    /\ accepted' = [accepted EXCEPT ![b.sid] = Append(@, b)]
    /\ late' = IF closed THEN [late EXCEPT ![b.sid] = @ + 1] ELSE late
    /\ UNCHANGED <<checker, file, closed, linearizing, call, mergeVars, lost, rejected, tail>>

Record(b) ==
    /\ MayCall
    /\ HasHandle(b)
    /\ ~ sessions[b.sid].linearize
    /\ EmitRecord(b.sid, b)
    /\ accepted' = IF RecordEmits(b.sid, b)
                   THEN [accepted EXCEPT ![b.sid] = Append(@, b)]
                   ELSE accepted
    /\ UNCHANGED <<closed, linearizing, call, mergeVars, late, lost, rejected>>

\* discontinuity() is refused while the session buffers.
Discontinuity(b) ==
    /\ MayCall
    /\ HasHandle(b)
    /\ ~ sessions[b.sid].linearize
    /\ Emit(b)
    /\ UNCHANGED <<closed, sessions, linearizing, call, mergeVars, history>>

\* end() flushes its session, close() every session in turn.
End(s, extents) ==
    /\ call = Idle
    /\ sessions[s] # None
    /\ call' = [op |-> "end", sid |-> s, extents |-> extents, left |-> <<s>>, step |-> "flush"]
    /\ UNCHANGED <<checker, file, closed, sessions, linearizing, mergeVars, history, tail>>

\* Slip: close() writes the End block over what the sessions still hold.
Close_NoFlush ==
    /\ call = Idle
    /\ ~ closed
    /\ call' = [op |-> "close", sid |-> None, extents |-> << >>, left |-> << >>, step |-> "flush"]
    /\ UNCHANGED <<checker, file, closed, sessions, linearizing, mergeVars, history, tail>>

Close ==
    /\ call = Idle
    /\ ~ closed
    /\ call' = [op |-> "close", sid |-> None, extents |-> << >>, left |-> linearizing, step |-> "flush"]
    /\ UNCHANGED <<checker, file, closed, sessions, linearizing, mergeVars, history, tail>>

\* close(end=False), when the body of the with statement raised.
Abandon ==
    /\ call = Idle
    /\ ~ closed
    /\ closed' = TRUE
    /\ UNCHANGED <<checker, file, sessions, linearizing, call, mergeVars, history, tail>>

-------------------------------------------------------------------------------
(* Inside end() and close(): _flush_pending, session by session *)

Flushing == call.step = "flush" /\ call.left # << >>

PendingOf(s) == sessions[s].pending

SkipFlush ==
    /\ Flushing
    /\ PendingOf(Head(call.left)) = NoStreams
    /\ call' = [call EXCEPT !.left = Tail(@)]
    /\ UNCHANGED <<checker, file, closed, sessions, linearizing, mergeVars, history, tail>>

\* Slip: the buffer is kept, so that a later flush writes it again.
StartFlush_KeepsBuffer ==
    /\ Flushing
    /\ LET s == Head(call.left)
       IN  /\ PendingOf(s) # NoStreams
           /\ streams' = PendingOf(s)
           /\ isns' = [p \in Pair |-> sessions[s].isn[p]]
           /\ frontier' = [p \in Pair |-> Merge!NewFrontier(sessions[s].isn[p])]
           /\ verified' = [order |-> Merge!NewOrder(2, sessions[s].isn), ok |-> TRUE]
    /\ out' = << >>
    /\ status' = "priming"
    /\ call' = [call EXCEPT !.step = "merge"]
    /\ UNCHANGED <<checker, file, closed, sessions, linearizing, history, tail>>

\* The buffer is handed to causal_merge and is empty from here on.
StartFlush ==
    /\ Flushing
    /\ LET s == Head(call.left)
       IN  /\ PendingOf(s) # NoStreams
           /\ sessions' = [sessions EXCEPT ![s].pending = NoStreams]
           /\ streams' = PendingOf(s)
           /\ isns' = [p \in Pair |-> sessions[s].isn[p]]
           /\ frontier' = [p \in Pair |-> Merge!NewFrontier(sessions[s].isn[p])]
           /\ verified' = [order |-> Merge!NewOrder(2, sessions[s].isn), ok |-> TRUE]
    /\ out' = << >>
    /\ status' = "priming"
    /\ call' = [call EXCEPT !.step = "merge"]
    /\ UNCHANGED <<checker, file, closed, linearizing, history, tail>>

\* The generator runs up to its next yield.
MergeRuns ==
    /\ call.step = "merge"
    /\ (\E p \in Pair : Merge!Prime(p) \/ Merge!Refuse(p)) \/ Merge!Begin \/ Merge!Stall \/ Merge!Finish
    /\ UNCHANGED <<checker, file, closed, sessions, linearizing, call, history, tail>>

\* It yields a record and the loop's body writes it, or raises out of the loop.
MergeYields(p) ==
    /\ call.step = "merge"
    /\ Merge!Emit(p)
    /\ LET s == Head(call.left)
           b == frontier[p].head
       IN  /\ EmitRecord(s, b)
           /\ IF RecordEmits(s, b)
              THEN UNCHANGED <<call, rejected>>
              ELSE /\ call' = [call EXCEPT !.step = "raise"]
                   /\ rejected' = IF closed THEN rejected ELSE [rejected EXCEPT ![s] = @ + 1]
    /\ UNCHANGED <<closed, linearizing, accepted, late, lost>>

FlushDone ==
    /\ call.step = "merge"
    /\ status = "done"
    /\ call' = [call EXCEPT !.step = "flush", !.left = Tail(@)]
    /\ UNCHANGED <<checker, file, closed, sessions, linearizing, mergeVars, history, tail>>

\* Slip: a merge that stalls is waited for.
Unwind_StallWaits ==
    /\ \/ call.step = "raise"
       \/ call.step = "merge" /\ status = "refused"
    /\ lost' = lost \cup {Head(call.left)}
    /\ call' = Idle
    /\ UNCHANGED <<checker, file, closed, sessions, linearizing, mergeVars, accepted, late, rejected, tail>>

\* The merge or a write raised: end() or close() raises with it.
Unwind ==
    /\ \/ call.step = "raise"
       \/ call.step = "merge" /\ status \in {"refused", "stalled"}
    /\ lost' = lost \cup {Head(call.left)}
    /\ call' = Idle
    /\ UNCHANGED <<checker, file, closed, sessions, linearizing, mergeVars, accepted, late, rejected, tail>>

Flushed(op) == call.op = op /\ call.step = "flush" /\ call.left = << >>

SessionEndOf(s, extents) == [kind |-> "sessionEnd", sid |-> s, extents |-> extents]

EndSession ==
    /\ Flushed("end")
    /\ Emit(SessionEndOf(call.sid, call.extents))
    /\ call' = Idle
    /\ UNCHANGED <<closed, sessions, linearizing, mergeVars, history>>

EndFile ==
    /\ Flushed("close")
    /\ IF Complete THEN UNCHANGED <<checker, file, tail>> ELSE Emit([kind |-> "end"])
    /\ closed' = TRUE
    /\ call' = Idle
    /\ UNCHANGED <<sessions, linearizing, mergeVars, history>>

\* The library's own steps, inside a call.
Inside ==
    \/ SkipFlush \/ StartFlush
    \/ MergeRuns \/ (\E p \in Pair : MergeYields(p))
    \/ FlushDone \/ Unwind \/ EndSession \/ EndFile

\* The methods of the writer, given what a producer may pass.
Calls(producer) ==
    \/ \E b \in producer.declarations : Declare(b)
    \/ \E s \in producer.sids, mode \in producer.modes : BeginSession(s, mode)
    \/ \E b \in producer.participants : Participant(b)
    \/ \E b \in producer.records : Buffer(b) \/ Record(b)
    \/ \E b \in producer.breaks : Discontinuity(b)

Closing == (\E s \in Sids : End(s, << >>)) \/ Close \/ Abandon

Next == Calls(Producer) \/ Closing \/ Inside

\* A call runs to its end once it is made; a producer need not make any.
Spec == Init /\ [][Next]_vars /\ WF_vars(Inside)

-------------------------------------------------------------------------------
(* Properties *)

RecordsOf(s, p) ==
    SelectSeq(file, LAMBDA b : b.kind = "record" /\ b.sid = s /\ b.pid = p)

\* The records a producer may send in session s, of participant p.
SentIn == [s \in Sids |-> { b \in Producer.records : b.sid = s }]
Sent   == [s \in Sids |-> [p \in Pids |-> { b \in SentIn[s] : b.pid = p }]]

\* The order check of verify_sequenced, one record further.
Verify(count, state, b) ==
    [order |-> OrderObserved(state.order, count, b.pid, b),
     ok    |-> state.ok /\ ~ OrderRefuses(state.order, count, b.pid, b)]

\* SessionReader.verify over session s of the file as it stands.
Verifies(s) ==
    LET mine  == Kept(file, SentIn[s])
        count == Cardinality(sessions[s].pids)
        start == [order |-> NewOrder(count, sessions[s].isn), ok |-> TRUE]
    IN  FoldLeft(LAMBDA state, b : Verify(count, state, b), start, mine).ok

\* Whatever was refused on the way, and whatever was flushed in one merge or in
\* several, the records a verify_order session wrote pass the check a reader
\* makes of a SEQUENCED session, streams being shorter than half the sequence space:
\* the writer never knows the participant count, and reads an isn only at the
\* participant's first record (writer.py begin_session: without it a producer
\* can "get a silently non-conformant file").
SequencedFileVerifies ==
    \A s \in Sids :
        sessions[s] # None /\ sessions[s].verify => Verifies(s)

\* "A violation raises SemanticError before anything hits the sink" (writer.py
\* FileWriter): a reader that goes through the file refuses none of its blocks.
FileReadsClean == tail.ok

\* The records the running merge has yet to yield, of participant p: its head,
\* and what it has not loaded.
Held(p) ==
    SubSeq(streams[p], IF frontier[p].head = None THEN frontier[p].loaded + 1 ELSE frontier[p].loaded,
           Len(streams[p]))

InFlight(s, p) == IF call.step = "merge" /\ Head(call.left) = s THEN Held(p) ELSE << >>

\* At every instant of every call, what a session accepted of a participant is
\* what it wrote, then what its merge still holds, then what it still buffers:
\* nothing is lost, repeated or overtaken, whatever became of other sessions'
\* flushes and however often end() and close() are called again.
RecordsConserved ==
    call.step # "raise" => \A s \in Sids \ lost : sessions[s] # None =>
        \A p \in Pids :
            Kept(accepted[s], Sent[s][p]) =
                Kept(file, Sent[s][p]) \o
                    (IF p \in Pair THEN InFlight(s, p) \o sessions[s].pending[p] ELSE << >>)

\* How many records taken before close() the file lacks, those apart that a
\* flush refused.
Unwritten(s) == Len(accepted[s]) - late[s] - rejected[s] - Len(Kept(file, SentIn[s]))

\* A file marked complete holds every record accepted before close(), unless a
\* flush of its session raised (writer.py close).
CleanFileIsWhole == Complete => \A s \in Sids \ lost : Unwritten(s) = 0

\* The same without the exception: the records were accepted, "so dropping them
\* silently is not an option" (writer.py FileWriter.__init__).
CompleteFileKeepsAccepted == Complete => \A s \in Sids : Unwritten(s) = 0

\* Every end() and close() comes back, by returning or by raising, on streams the
\* merge cannot order too (order.py causal_merge raises rather than wait).
CallsReturn == call # Idle ~> call = Idle

===============================================================================
