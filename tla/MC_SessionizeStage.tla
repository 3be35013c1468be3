-------------------------- MODULE MC_SessionizeStage --------------------------
(***************************************************************************)
(* Small instances of SessionizeStage.  A scenario gives what the caller   *)
(* finds in one input: a stream with a hole and a FIN, and a short one.    *)
(***************************************************************************)
EXTENDS SessionizeStage

CONSTANT Names                  \* the scenarios of the run

VARIABLE scenario               \* the one this stage is in

-------------------------------------------------------------------------------

DerivedHeader == [kind |-> "header", derived |-> TRUE, digest |-> TRUE]

TunnelFile ==
    << [sid |-> 0, pid |-> 0, extent |-> 5, gaps |-> <<<<2, 4>>>>, fins |-> <<4>>],
       [sid |-> 0, pid |-> 1, extent |-> 1, gaps |-> << >>, fins |-> << >>] >>

AnyInput == {TunnelFile}

Cite(p, start, end) == [source |-> 0, input |-> p, start |-> start, end |-> end]

Endpoint(s, p, isn) ==
    [kind |-> "participant", sid |-> s, pid |-> p, isn |-> isn, adjacency |-> "contiguous"]

\* A transport record of one byte.
Segment(s, p, spans) ==
    [kind |-> "record", sid |-> s, pid |-> p, source |-> 0, decoder |-> 0, seq |-> None,
     flag |-> "none", copy |-> FALSE, payload |-> 1, label |-> FALSE, badLabel |-> FALSE,
     spans |-> spans, ack |-> None, len |-> 1, ts |-> p, message |-> FALSE]

\* Decoder 1 is never declared, so the checker refuses what names it.
Astray(b) == [b EXCEPT !.decoder = 1]

Mark(p, start, end, reason) ==
    [kind |-> "undecoded", source |-> 0, input |-> p, start |-> start, end |-> end,
     decoder |-> 0, reason |-> reason, class |-> None]

\* Shared: flows of two keys that cite the same streams, a message joined from
\* two of them, ranges marked and marked twice, and a mark of nothing.
SharedRecords ==
    { Segment(s, 0, {Cite(0, 0, 1)}) : s \in {0, 1} } \cup
    { [Segment(0, 0, {Cite(0, 1, 2), Cite(1, 0, 1)}) EXCEPT !.message = TRUE],
      Astray(Segment(1, 0, {Cite(1, 0, 1)})) }

SharedMarks == { Mark(0, 3, 3, "skipped") }

SharedPieces ==
    { <<Mark(0, 0, 2, "undecodable"), Mark(1, 0, 1, "undecodable")>>,
      <<Astray(Mark(0, 1, 3, "undecodable")), Mark(1, 0, 1, "undecodable")>> }

\* Ordered: sequenced flows, one whose streams can be merged or not, and a
\* record that cannot be written.
OrderedRecords ==
    { [Segment(0, 0, {Cite(0, 0, 1)}) EXCEPT !.seq = 0, !.ack = ack] : ack \in {None, 1} } \cup
    { [Segment(0, 1, {Cite(0, 1, 2)}) EXCEPT !.seq = 0, !.ack = 1],
      [Segment(1, 0, {Cite(0, 0, 1), Cite(1, 0, 1)}) EXCEPT !.seq = 0],
      Astray(Segment(1, 0, {Cite(0, 1, 2)})) }

Scenario ==
    [shared  |-> [keys |-> {"a", "b"}, sids |-> {0, 1},
                  modes |-> {[verify |-> FALSE, linearize |-> FALSE]},
                  participants |-> { Endpoint(s, 0, None) : s \in {0, 1} },
                  records |-> SharedRecords, declarations |-> SharedMarks,
                  incomplete |-> SharedPieces, max |-> 9],
     ordered |-> [keys |-> {"a"}, sids |-> {0, 1},
                  modes |-> {[verify |-> TRUE, linearize |-> TRUE]},
                  participants |-> { Endpoint(0, p, SeqSpace - 1) : p \in {0, 1} }
                                     \cup {Endpoint(1, 0, None)},
                  records |-> OrderedRecords, declarations |-> {}, incomplete |-> {},
                  max |-> 11]]

\* What any of them may pass.
AnyCaller ==
    LET All(field) == UNION { Scenario[name][field] : name \in DOMAIN Scenario }
    IN  [keys |-> All("keys"), sids |-> All("sids"), modes |-> All("modes"),
         participants |-> All("participants"), records |-> All("records"),
         declarations |-> All("declarations") \cup UNION { ToSet(marks) : marks \in SharedPieces },
         incomplete |-> All("incomplete"), breaks |-> {}]

-------------------------------------------------------------------------------

MCInit ==
    /\ scenario \in Names
    /\ \E inputs \in InputFiles, fill \in BOOLEAN : FlowInit(inputs, fill)

MCNext ==
    /\ \/ Size < Scenario[scenario].max /\ Sessionizes(Scenario[scenario])
       \/ (\E i \in DOMAIN flows : EndEarly(i))
       \/ CloseFlows \/ AbandonFlows
       \/ FlowInside
    /\ UNCHANGED scenario

MCSpec == MCInit /\ [][MCNext]_<<flowVars, scenario>>

===============================================================================
