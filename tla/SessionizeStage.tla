---------------------------- MODULE SessionizeStage ----------------------------
(***************************************************************************)
(* SessionizeStage: packets are read from the streams of one input file,   *)
(* and the flows found in them written as sessions with ids of their own.  *)
(* Any session may cite any input stream; one ledger counts for them all.  *)
(***************************************************************************)
EXTENDS CoverageStage

\* incomplete() is passed ranges that undecoded() takes.
ASSUME SessionizeAssumption ==
    \A marks \in Producer.incomplete : marks \in Seq(Producer.declarations)

VARIABLES
    flows,                      \* the FlowSessions, in creation order
    pieces                      \* what incomplete() has yet to mark

flowVars == <<vars, stage, flows, pieces>>

FlowType ==
    [key : Producer.keys, sid : Sids, ended : BOOLEAN, cited : Seq(Inputs)]

FlowsTypeOK ==
    /\ StageTypeOK
    /\ flows \in Seq(FlowType)
    /\ pieces \in Seq(Producer.declarations)

-------------------------------------------------------------------------------
(* What a sessionizer calls *)

MayFlow == pieces = << >> /\ MayStage

\* Slip: a flow that has cited nothing yet is taken for none.
OpenFlows_Cited(key) ==
    { i \in DOMAIN flows :
        /\ flows[i].key = key /\ ~ flows[i].ended
        /\ flows[i].cited # << >> }

\* The flow session() returns for a key: the last one, unless it has ended.
OpenFlows(key) ==
    { i \in DOMAIN flows :
        /\ flows[i].key = key /\ ~ flows[i].ended
        /\ \A j \in i + 1 .. Len(flows) : flows[j].key # key }

\* session() of a key with no open flow begins one, under the next id.
OpenFlow(key, s, sequenced) ==
    /\ MayFlow
    /\ \A r \in Sids : r < s => sessions[r] # None
    /\ OpenFlows(key) = {}
    /\ BeginSession(s, [verify |-> sequenced, linearize |-> sequenced])
    /\ flows' = IF Emits([kind |-> "session", sid |-> s])
                THEN Append(flows, [key |-> key, sid |-> s, ended |-> FALSE, cited |-> << >>])
                ELSE flows
    /\ UNCHANGED <<stage, pieces>>

\* participant() declares an endpoint at its first use, of a flow that ended too,
\* and afterwards returns what it declared.
DeclareEndpoint(b) ==
    /\ MayFlow
    /\ \E i \in DOMAIN flows : flows[i].sid = b.sid
    /\ b.pid \notin sessions[b.sid].pids
    /\ Participant(b)
    /\ UNCHANGED <<stage, flows, pieces>>

\* _check_cites: a record cites a range, and more than one only with evidence
\* that they join.
CitesStand(b) ==
    /\ b.spans # {}
    /\ Cardinality(b.spans) > 1 => b.seq # None \/ b.message

\* The input streams of this stage among a record's cites, whatever their source.
StreamsCited(b) ==
    { span.input : span \in b.spans } \cap
    { InputOf(x.sid, x.pid) : x \in ToSet(stage.inputs) }

\* Slip: only the streams of a flow's last record are remembered.
WithCites_Last(flow, b) == [flow EXCEPT !.cited = SetToSeq(StreamsCited(b))]

\* The order among the streams of one record matters to nobody.
WithCites(flow, b) ==
    [flow EXCEPT !.cited = @ \o SetToSeq(StreamsCited(b) \ ToSet(@))]

\* record() of flow i, refused once it has ended.
FlowRecord(i, b) ==
    /\ MayFlow
    /\ b.sid = flows[i].sid
    /\ CitesStand(b)
    /\ ~ flows[i].ended
    /\ Record(b) \/ Buffer(b)
    /\ stage' = Counted(b)
    /\ flows' = IF Takes(b) THEN [flows EXCEPT ![i] = WithCites(@, b)] ELSE flows
    /\ UNCHANGED pieces

FlowUndecoded(b) ==
    /\ pieces = << >>
    /\ MarkUndecoded(b)
    /\ UNCHANGED <<flows, pieces>>

\* Slip: the pieces are counted as they are looked at.
Incomplete_CountsFirst(marks) ==
    /\ MayFlow
    /\ marks # << >>
    /\ Size + Len(marks) <= MaxBlocks
    /\ \A m \in ToSet(marks) :
          m.source = 0 /\ m.input \in { InputOf(x.sid, x.pid) : x \in ToSet(stage.inputs) }
    /\ pieces' = marks
    /\ stage' = [stage EXCEPT !.marked =
          FoldLeft(LAMBDA marked, m : [marked EXCEPT ![m.input] = Add(@, m.start, m.end)], @, marks)]
    /\ UNCHANGED <<vars, flows>>

\* incomplete(): every piece is looked at before the first is marked.
Incomplete(marks) ==
    /\ MayFlow
    /\ marks # << >>
    /\ Size + Len(marks) <= MaxBlocks
    /\ \A m \in ToSet(marks) :
          m.source = 0 /\ m.input \in { InputOf(x.sid, x.pid) : x \in ToSet(stage.inputs) }
    /\ pieces' = marks
    /\ UNCHANGED <<vars, stage, flows>>

\* One undecoded() of incomplete(); a raise leaves the pieces behind it unmarked.
MarkPiece ==
    /\ pieces # << >>
    /\ MarkUndecoded(Head(pieces))
    /\ pieces' = IF Emits(Head(pieces)) THEN Tail(pieces) ELSE << >>
    /\ UNCHANGED flows

\* input_extents: the whole of each stream the flow cited.
ExtentsOf(flow) ==
    [n \in DOMAIN flow.cited |->
        ExtentOf(CHOOSE x \in ToSet(stage.inputs) : InputOf(x.sid, x.pid) = flow.cited[n])]

\* end() marks the flow before the writer ends its session.
EndFlow(i) ==
    /\ ~ flows[i].ended
    /\ End(flows[i].sid, ExtentsOf(flows[i]))
    /\ flows' = [flows EXCEPT ![i].ended = TRUE]
    /\ UNCHANGED <<stage, pieces>>

EndEarly(i) == pieces = << >> /\ stage.step \in {"open", "done"} /\ EndFlow(i)

-------------------------------------------------------------------------------
(* close() *)

CloseFlows == pieces = << >> /\ CloseStage /\ UNCHANGED <<flows, pieces>>

AbandonFlows == pieces = << >> /\ AbandonStage /\ UNCHANGED <<flows, pieces>>

\* Each flow still open is ended, in creation order.
EndRest ==
    /\ Ending
    /\ \E i \in DOMAIN flows :
          /\ \A j \in 1 .. i - 1 : flows[j].ended
          /\ EndFlow(i)

\* A raise within close() closes the output; one within end() is the caller's.
Raised ==
    CASE stage.step = "end" /\ call.op = "end" -> [stage EXCEPT !.step = "raise"]
      [] stage.step = "end" /\ call.op = "close" -> [stage EXCEPT !.step = "done"]
      [] OTHER -> stage

FlowEnds ==
    /\ EndSession
    /\ stage' = IF Emits(SessionEndOf(call.sid, call.extents)) THEN stage ELSE Raised

FlowRaises ==
    /\ Unwind
    /\ stage' = Raised

\* writer.close(end=False), for a raise on the way.
RaiseOut ==
    /\ stage.step = "raise"
    /\ Abandon
    /\ stage' = [stage EXCEPT !.step = "done"]

\* Slip: a flow that has cited nothing is left open.
CloseOutput_Citing ==
    /\ Ending
    /\ \A i \in DOMAIN flows : flows[i].cited # << >> => flows[i].ended
    /\ Close
    /\ UNCHANGED stage

CloseOutput ==
    /\ Ending
    /\ \A i \in DOMAIN flows : flows[i].ended
    /\ Close
    /\ UNCHANGED stage

-------------------------------------------------------------------------------

\* sessionize_stage: the source and the decoder, and no session.
Scaffold ==
    <<Header, [kind |-> "source", id |-> 0, source |-> "zpf"],
      [kind |-> "decoder", id |-> 0, layer |-> "transport"]>>

FlowInit(inputs, fill) ==
    /\ InitAfter(Scaffold, << >>)
    /\ stage = Opened(inputs, fill)
    /\ flows = << >>
    /\ pieces = << >>

\* The sessionizer's calls, given what it may pass.
Sessionizes(caller) ==
    \/ \E key \in caller.keys, s \in caller.sids, mode \in caller.modes :
          OpenFlow(key, s, mode.linearize)
    \/ \E b \in caller.participants : DeclareEndpoint(b)
    \/ \E b \in caller.records, i \in DOMAIN flows : FlowRecord(i, b)
    \/ \E b \in caller.declarations : FlowUndecoded(b)
    \/ \E marks \in caller.incomplete : Incomplete(marks)

FlowInside ==
    \/ MarkPiece
    \/ EndRest
    \/ /\ Autofill \/ FlowEnds \/ FlowRaises \/ Flushes \/ CloseOutput \/ RaiseOut \/ OutputClosed
       /\ UNCHANGED <<flows, pieces>>

FlowNext ==
    \/ Sessionizes(Producer)
    \/ (\E i \in DOMAIN flows : EndEarly(i))
    \/ CloseFlows \/ AbandonFlows
    \/ FlowInside

FlowSpec ==
    /\ \E inputs \in InputFiles, fill \in BOOLEAN : FlowInit(inputs, fill)
    /\ [][FlowNext]_flowVars

-------------------------------------------------------------------------------
(* Properties *)

EndsOf(s) == { n \in DOMAIN file : file[n].kind = "sessionEnd" /\ file[n].sid = s }

BeginOf(s) == CHOOSE n \in DOMAIN file : file[n].kind = "session" /\ file[n].sid = s

InputsCited(s) ==
    UNION { StreamsCited(b) : b \in { x \in ToSet(file) : x.kind = "record" /\ x.sid = s } }

\* "Under fan-out a consuming session declares the whole input stream, not its
\* share" (sessionize.py): a Session End declares each input stream its session's
\* records in the file cite, once, at the stream's own extent, and no other;
\* whether they were buffered, refused or shared between sessions.
EndsDeclareCites ==
    \A n \in DOMAIN file : file[n].kind = "sessionEnd" =>
        LET extents == file[n].extents
        IN  /\ { extents[i].input : i \in DOMAIN extents } = InputsCited(file[n].sid)
            /\ Cardinality({ extents[i].input : i \in DOMAIN extents }) = Len(extents)
            /\ \A i \in DOMAIN extents : \E x \in ToSet(stage.inputs) :
                  InputOf(x.sid, x.pid) = extents[i].input /\ x.extent = extents[i].extent

\* A key has one session at a time: "once the key's session has ended, the next
\* call opens a new session" (sessionize.py session), so in the file the End of
\* one comes before the Session of the next, unless its flush raised.
KeysAreSerial ==
    \A i, j \in DOMAIN flows : i < j /\ flows[i].key = flows[j].key =>
        /\ flows[i].ended
        /\ flows[i].sid \notin lost =>
              \E n \in EndsOf(flows[i].sid) : n < BeginOf(flows[j].sid)

\* Until the output is closed, and in a complete one, a flow has ended when its
\* Session End is written (sessionize.py ended), written once, unless its flush
\* raised; and a complete output leaves no flow open (sessionize.py close).
FlowsEndOnce ==
    call = Idle /\ (~ closed \/ Complete) => \A i \in DOMAIN flows :
        /\ flows[i].sid \notin lost =>
              Cardinality(EndsOf(flows[i].sid)) = IF flows[i].ended THEN 1 ELSE 0
        /\ Complete => flows[i].ended

\* What the lives of flows take of what was written: a Session End is refused only
\* where the output was closed under it.
EndsStand == Flushed("end") /\ ~ closed => Emits(SessionEndOf(call.sid, call.extents))

===============================================================================
