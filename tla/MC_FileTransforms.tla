--------------------------- MODULE MC_FileTransforms ---------------------------
(***************************************************************************)
(* Small instances of MergeFiles and RewriteDecoded: the files each of     *)
(* them may be given.                                                      *)
(***************************************************************************)
EXTENDS MergeFiles, RewriteDecoded

CONSTANTS
    Pairings,                   \* what merge_files is given
    DecodedFiles                \* what rewrite_decoded is given

-------------------------------------------------------------------------------

\* The transforms are the only producers.
NoProducer ==
    [declarations |-> {}, sids |-> {}, modes |-> {}, participants |-> {}, breaks |-> {},
     records |-> {}]

OutputHeader == [kind |-> "header", derived |-> TRUE, digest |-> FALSE]

\* A record as its file has it: a capture cites nothing.
Rec(s, p, seq, ack, len) ==
    [kind |-> "record", sid |-> s, pid |-> p, source |-> 0, decoder |-> None, seq |-> seq,
     flag |-> "none", copy |-> FALSE, payload |-> len, label |-> FALSE, badLabel |-> FALSE,
     spans |-> {}, ack |-> ack, len |-> len, ts |-> p, message |-> FALSE]

Fin(rec) == [rec EXCEPT !.flag = "fin"]

Syn(rec) == [rec EXCEPT !.flag = "syn"]

Message(rec) == [rec EXCEPT !.message = TRUE]

Capture(key, isn, blocks) ==
    [key |-> key, sid |-> 0, pid |-> 0, isn |-> isn, layer |-> "transport", units |-> FALSE,
     blocks |-> blocks]

\* Side 0: bytes around the wrap, overlapping or apart; a FIN and an ACK behind it.
RequestBlocks ==
    { Rec(0, 0, 14, None, 2), Rec(0, 0, 15, 1, 1), Rec(0, 0, 1, None, 2), Fin(Rec(0, 0, 2, 1, 0)),
      Rec(0, 0, 3, None, 0), Rec(0, 0, None, 1, 1), Syn(Rec(0, 0, 14, None, 0)) }

ResponseBlocks ==
    { Rec(0, 0, 0, 0, 1), Rec(0, 0, 2, None, 1), Message(Rec(0, 0, None, None, 2)) }

Stored(blocks) ==
    LET hints == SelectSeq(blocks, LAMBDA b : b.seq # None)
    IN  \A i \in 1 .. Len(hints) - 1 : SeqLeq(hints[i].seq, hints[i + 1].seq)

StoredStreams(blocks, n) ==
    { stored \in UNION { [1 .. m -> blocks] : m \in 0 .. n } : Stored(stored) }

MergePairings ==
    { 0 :> Capture(<<0, 0>>, isn, request) @@ 1 :> Capture(<<1, 0>>, 15, response) :
        isn \in {13, None}, request \in StoredStreams(RequestBlocks, 3),
        response \in StoredStreams(ResponseBlocks, 2) }

\* Decoded streams: records of a capture's ranges, with breaks between them.
Unit(p, len, spans) ==
    [Rec(0, p, None, None, len) EXCEPT !.decoder = 0, !.spans = spans]

Raw(start, end) == [source |-> 0, input |-> 1, start |-> start, end |-> end]

Width(width) == [kind |-> "discontinuity", sid |-> 0, pid |-> 0, width |-> width]

Decoded(s, p, units, blocks) ==
    [key |-> <<0, p>>, sid |-> s, pid |-> p, isn |-> None,
     layer |-> IF blocks = << >> THEN "transport" ELSE "decoded", units |-> units, blocks |-> blocks]

DecodedBlocks ==
    { Unit(0, 0, {Raw(0, 1)}), Unit(0, 1, {Raw(1, 2)}), Unit(0, 2, {Raw(0, 1), Raw(2, 3)}),
      Unit(0, 1, {}), Width(None), Width(1) }

DecodedStreams(blocks, n) ==
    { stored \in UNION { [1 .. m -> blocks] : m \in 1 .. n } : \E i \in DOMAIN stored : IsRecord(stored[i]) }

RewriteInputs ==
    { <<Decoded(0, 0, units, blocks), Decoded(0, 1, FALSE, << >>)>> :
        units \in BOOLEAN, blocks \in DecodedStreams(DecodedBlocks, 3) }
    \cup { <<Decoded(0, 0, FALSE, blocks), Decoded(0, 1, FALSE, <<Unit(1, 1, {})>>)>> :
        blocks \in DecodedStreams({Unit(0, 1, {Raw(1, 2)}), Width(1)}, 4)
                      \cup DecodedStreams({Unit(0, 1, {Raw(1, 2)}), Unit(0, 0, {Raw(1, 2)}), Width(None)}, 4) }

-------------------------------------------------------------------------------

MCInit ==
    \/ /\ \E inputs \in Pairings : Mergeable(inputs) /\ MergeInit(inputs)
       /\ agenda = << >> /\ orders = << >>
    \/ \E inputs \in DecodedFiles : RewriteInit(inputs)

Merging == DOMAIN job.inputs = Pair

MCNext ==
    \/ Merging /\ MergeNext /\ UNCHANGED <<agenda, orders>>
    \/ ~ Merging /\ RewriteNext

MCSpec == MCInit /\ [][MCNext]_rewriteVars

===============================================================================
