---------------------------- MODULE MC_DecodeStage ----------------------------
(***************************************************************************)
(* Small instances of DecodeStage.  A scenario gives an input file and     *)
(* what its decoder may call; the stage fills or not, in order or not.     *)
(***************************************************************************)
EXTENDS DecodeStage

CONSTANT Names                  \* the scenarios of the run

VARIABLE scenario               \* the one this stage is in

-------------------------------------------------------------------------------

DerivedHeader == [kind |-> "header", derived |-> TRUE, digest |-> TRUE]

Stream(s, p, extent, gaps, fins) ==
    [sid |-> s, pid |-> p, extent |-> extent, gaps |-> gaps, fins |-> fins]

Cite(s, p, start, end) == [source |-> 0, input |-> InputOf(s, p), start |-> start, end |-> end]

\* A decoded record of one byte.
Decoded(s, p, spans) ==
    [kind |-> "record", sid |-> s, pid |-> p, source |-> 0, decoder |-> 0, seq |-> None,
     flag |-> "none", copy |-> FALSE, payload |-> 1, label |-> TRUE, badLabel |-> FALSE,
     spans |-> spans, ack |-> None, len |-> 1, ts |-> p]

\* Decoder 1 is never declared, so the checker refuses what names it.
Astray(b) == [b EXCEPT !.decoder = 1]

Mark(s, p, start, end, reason) ==
    [kind |-> "undecoded", source |-> 0, input |-> InputOf(s, p), start |-> start, end |-> end,
     decoder |-> 0, reason |-> reason, class |-> None]

Break(s, p) == [kind |-> "discontinuity", sid |-> s, pid |-> p]

\* Holed: a stream with a hole, a byte behind it and a FIN behind that, and a
\* stream that only lost its tail; marks that clash, one without a class
\* and an empty one.

HoledFile == << Stream(0, 0, 5, <<<<2, 3>>>>, <<4>>), Stream(0, 1, 2, <<<<1, 2>>>>, << >>) >>

HoledRecords ==
    { Decoded(0, 0, {Cite(0, 0, 3, 4)}), Decoded(0, 0, {Cite(0, 0, 0, 1), Cite(0, 1, 0, 1)}),
      Decoded(0, 1, {Cite(0, 1, 0, 1)}),
      Astray(Decoded(0, 0, {Cite(0, 0, 1, 2)})) }

HoledMarks ==
    { Mark(0, 0, 1, 4, "undecodable"), Mark(0, 0, 2, 3, "gap"), Mark(0, 0, 3, 4, "own"),
      Mark(0, 0, 1, 1, "skipped") }

\* Paired: two sessions whose streams have one participant id, and an empty one.

PairedFile ==
    << Stream(0, 0, 2, << >>, << >>), Stream(0, 1, 0, << >>, << >>), Stream(1, 0, 3, << >>, <<2>>) >>

PairedRecords ==
    { Decoded(0, 0, {Cite(0, 0, 0, 1)}), Decoded(0, 0, {Cite(0, 0, 1, 2)}),
      Decoded(1, 0, {Cite(1, 0, 0, 2)}), Astray(Decoded(1, 0, {Cite(1, 0, 0, 1)})) }

PairedMarks == { Mark(1, 0, 1, 2, "undecodable") }

Scenario ==
    [holed  |-> [inputs |-> HoledFile, records |-> HoledRecords, declarations |-> HoledMarks,
                 breaks |-> {}, max |-> 11],
     paired |-> [inputs |-> PairedFile, records |-> PairedRecords, declarations |-> PairedMarks,
                 breaks |-> {Break(0, 0)}, max |-> 12]]

\* What any of them may pass.
AnyDecoder ==
    [records |-> HoledRecords \cup PairedRecords, declarations |-> HoledMarks \cup PairedMarks,
     breaks |-> {Break(0, 0)}, participants |-> {}, sids |-> {}, modes |-> {}]

AnyInput == { HoledFile, PairedFile }

-------------------------------------------------------------------------------

MCInit ==
    /\ scenario \in Names
    /\ \E sequenced, fill \in BOOLEAN : DecodeInit(Scenario[scenario].inputs, sequenced, fill)

MCNext ==
    /\ \/ Size < Scenario[scenario].max /\ Decodes(Scenario[scenario])
       \/ CloseDecoding \/ AbandonDecoding
       \/ DecodeInside
    /\ UNCHANGED scenario

MCSpec == MCInit /\ [][MCNext]_<<stageVars, scenario>>

===============================================================================
