---------------------------- MODULE MC_FileWriting ----------------------------
(***************************************************************************)
(* Small instances of FileWriting.  A scenario gives the blocks already    *)
(* written when it begins, and what its producer may hand the writer then. *)
(***************************************************************************)
EXTENDS FileWriting

CONSTANT Names                  \* the scenarios of the run

VARIABLE scenario               \* the one this writer is in

-------------------------------------------------------------------------------

PlainHeader == [kind |-> "header", derived |-> FALSE, digest |-> FALSE]

HeaderOnly == <<PlainHeader>>

OneSource == <<PlainHeader, [kind |-> "source", id |-> 0, source |-> "capture"]>>

ParticipantBlock(s, p, isn) ==
    [kind |-> "participant", sid |-> s, pid |-> p, isn |-> isn, adjacency |-> "contiguous"]

\* A record of one byte, with no hint and no option set.
Plain(s, p) ==
    [kind |-> "record", sid |-> s, pid |-> p, source |-> 0, decoder |-> None, seq |-> None,
     flag |-> "none", copy |-> FALSE, payload |-> 1, label |-> FALSE, badLabel |-> FALSE,
     spans |-> {}, ack |-> None, len |-> 1, ts |-> 0]

\* Source 1 is never declared, so the checker refuses what cites it.
Astray(b) == [b EXCEPT !.source = 1]

Verifying == {[verify |-> TRUE, linearize |-> FALSE]}

Linearizing == {[verify |-> TRUE, linearize |-> TRUE]}

Mixed == {[verify |-> FALSE, linearize |-> TRUE], [verify |-> TRUE, linearize |-> FALSE]}

Unordered == {[verify |-> FALSE, linearize |-> FALSE]}

\* Guarded: three participants, the acks of any two of them, and refusals

GuardedParticipants ==
    { ParticipantBlock(0, 0, 15), ParticipantBlock(0, 0, None), ParticipantBlock(0, 1, None),
      ParticipantBlock(0, 2, None) }

GuardedRecords ==
    { [Plain(0, 0) EXCEPT !.seq = seq] : seq \in {0, 1} } \cup
    { [Plain(0, 0) EXCEPT !.seq = 15, !.len = len, !.flag = "syn"] : len \in {0} } \cup
    { [Plain(0, 1) EXCEPT !.ack = ack] : ack \in {1, 2} } \cup
    { Plain(0, 2), Astray([Plain(0, 0) EXCEPT !.seq = 1]), Astray([Plain(0, 1) EXCEPT !.ack = 2]) }

\* Linearized: two sessions, streams that cannot be merged and records that
\* cannot be written

TwoSessions ==
    OneSource \o
    <<[kind |-> "session", sid |-> 0], [kind |-> "session", sid |-> 1],
      ParticipantBlock(0, 0, 15), ParticipantBlock(0, 1, 15), ParticipantBlock(1, 0, None)>>

LinearRecords ==
    { [Plain(0, 0) EXCEPT !.seq = 0, !.ack = ack] : ack \in {None, 1} } \cup
    { [Plain(0, 1) EXCEPT !.seq = 0, !.ack = 1], Astray(Plain(1, 0)) } \cup
    { [Plain(1, 0) EXCEPT !.seq = seq] : seq \in {0, 1} }

\* Checked: descriptors in any order, refused or repeated, and records that
\* leave their stream in two layers, so that its Session End is refused

CheckedDeclarations ==
    { [kind |-> "source", id |-> 0, source |-> "capture"],
      [kind |-> "decoder", id |-> 0, layer |-> "decoded"],
      [kind |-> "name", sid |-> 0, pid |-> 0],
      [kind |-> "undecoded", source |-> 0, input |-> 0, start |-> 0, end |-> 1,
       decoder |-> None, reason |-> "gap", class |-> None] }

CheckedParticipants == { ParticipantBlock(0, 0, None), ParticipantBlock(0, 1, None) }

CheckedBreaks == { [kind |-> "discontinuity", sid |-> 0, pid |-> p] : p \in {0, 1} }

CheckedRecords ==
    { Plain(0, 0), [Plain(0, 0) EXCEPT !.decoder = 0], [Plain(0, 0) EXCEPT !.seq = 4],
      [Plain(0, 0) EXCEPT !.copy = TRUE], [Plain(0, 1) EXCEPT !.decoder = 0] }

\* The same, with a label that only a decoded record may carry.
LabelledRecords == { [Plain(0, 0) EXCEPT !.label = TRUE], [Plain(0, 0) EXCEPT !.copy = TRUE] }

OneStream == OneSource \o <<[kind |-> "session", sid |-> 0], ParticipantBlock(0, 0, None)>>

\* A record that is refused, and two that are each within half the space of the one
\* before, by way of it.
BridgedRecords ==
    { Astray([Plain(0, 0) EXCEPT !.seq = 5]), [Plain(0, 1) EXCEPT !.ack = 5] } \cup
    { [Plain(0, 0) EXCEPT !.seq = seq] : seq \in {12, 3} }

TwoStreams ==
    OneSource \o
    <<[kind |-> "session", sid |-> 0], ParticipantBlock(0, 0, 15), ParticipantBlock(0, 1, None)>>

-------------------------------------------------------------------------------

\* A producer that only sends records, of sessions begun in one of the modes.
Sender(opening, modes, records, max) ==
    [opening |-> opening, modes |-> modes, records |-> records, max |-> max,
     declarations |-> {}, sids |-> {}, participants |-> {}, breaks |-> {}]

Scenario ==
    [guarded  |-> [Sender(OneSource, Verifying, GuardedRecords, 11) EXCEPT
                      !.sids = {0}, !.participants = GuardedParticipants],
     linear   |-> Sender(TwoSessions, Linearizing, LinearRecords, 11),
     checked  |-> [Sender(HeaderOnly, Unordered, CheckedRecords, 8) EXCEPT
                      !.sids = {0}, !.participants = CheckedParticipants,
                      !.declarations = CheckedDeclarations, !.breaks = CheckedBreaks],
     calls    |-> Sender(TwoSessions, Mixed, LinearRecords, 10),
     labelled |-> Sender(OneStream, Unordered, LabelledRecords, 9),
     bridged  |-> Sender(TwoStreams, Verifying, BridgedRecords, 12)]

\* What a producer may pass in some of the scenarios.
ProducerOf(names) ==
    LET All(field) == UNION { Scenario[name][field] : name \in names }
    IN  [declarations |-> All("declarations"), sids |-> All("sids"), modes |-> All("modes"),
         participants |-> All("participants"), breaks |-> All("breaks"),
         records |-> All("records")]

\* Their streams are short, those of the scenario bridged apart.
AnyProducer == ProducerOf(DOMAIN Scenario \ {"bridged"})

BridgedProducer == ProducerOf({"bridged"})

FileScenarios == {"guarded", "linear", "checked"}

MCInit ==
    /\ scenario \in Names
    /\ LET opening == Scenario[scenario].opening
       IN  \E modes \in [Begun(opening) -> Scenario[scenario].modes] : InitAfter(opening, modes)

MCNext ==
    /\ \/ Size < Scenario[scenario].max /\ Calls(Scenario[scenario])
       \/ Closing
       \/ Inside
    /\ UNCHANGED scenario

MCSpec == MCInit /\ [][MCNext]_<<vars, scenario>> /\ WF_vars(Inside)

===============================================================================
