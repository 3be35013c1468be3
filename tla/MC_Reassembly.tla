----------------------------- MODULE MC_Reassembly -----------------------------
(***************************************************************************)
(* Small instances of Reassembly: byte streams around the wrap of the      *)
(* sequence space, and packet-oriented ones with their breaks.             *)
(***************************************************************************)
EXTENDS Reassembly

-------------------------------------------------------------------------------

\* Stored order is not the clocks' order where sequence numbers give it.
Jittery == <<2, 4, 1, 3>>

Rec(seq, len) ==
    [kind |-> "record", seq |-> seq, len |-> len, flag |-> "none", ts |-> 0, first |-> None]

Fin(rec) == [rec EXCEPT !.flag = "fin"]

Width(n) == [kind |-> "discontinuity", width |-> n]

\* The i-th block of a stream is captured at clock[i]; every other record is one
\* that several packets made up.
Stamped(blocks, clock) ==
    [i \in DOMAIN blocks |->
        IF blocks[i].kind = "record"
        THEN [blocks[i] EXCEPT !.ts = clock[i], !.first = IF i % 2 = 0 THEN clock[i] - 2 ELSE None]
        ELSE blocks[i]]

\* The streams of at most n of the blocks.
StreamsOf(isns, layer, units, blocks, n, clock) ==
    { [isn |-> isn, layer |-> layer, units |-> units, blocks |-> Stamped(stored, clock)] :
        isn \in isns, stored \in UNION { [1 .. m -> blocks] : m \in 0 .. n } }

\* Bytes: sequence numbers 14, 15, 0, 1 ... from the origin 14; one ahead of it.
ByteBlocks ==
    { Rec(14, 1), Rec(14, 3), Rec(15, 0), Rec(15, 2), Fin(Rec(15, 1)), Fin(Rec(0, 0)), Rec(0, 2),
      Rec(1, 0), Fin(Rec(1, 0)), Rec(2, 0), Rec(2, 2), Rec(13, 2), Rec(None, 1) }

Bytes ==
    { v \in StreamsOf({None, 13}, "transport", FALSE, ByteBlocks, 3, Jittery) :
        v.isn # None \/ StreamOriented(v) \/ v.blocks = << >> }

\* Long: records six apart, three of them longer than half the space.
LongBlocks == { Rec(14, 6), Rec(4, 6), Rec(10, 6), Rec(0, 2), Rec(9, 1) }

Long == StreamsOf({13}, "transport", FALSE, LongBlocks, 4, Jittery)

\* Packets: no hint, clocks in stored order.
PacketBlocks == { Rec(None, 0), Rec(None, 1), Rec(None, 2), Width(None), Width(2) }

Packets ==
    StreamsOf({None}, "decoded", TRUE, PacketBlocks, 4, <<1, 2, 3, 4>>)
    \cup StreamsOf({None}, "decoded", FALSE, PacketBlocks, 4, <<1, 2, 3, 4>>)
    \cup StreamsOf({None}, "transport", TRUE, {Rec(None, 0), Rec(None, 2)}, 3, <<1, 2, 3, 4>>)

AllViews == Bytes \cup Long \cup Packets

\* A second walk beside the first, over the streams short enough for it.
MCNext ==
    \/ \E w \in Walkers : (w = 1 \/ Len(view.blocks) < 3) /\ Walking(w)
    \/ Measure
    \/ Contribute

MCSpec == Init /\ [][MCNext]_vars

\* A stream whose hints start behind its first record.
LateHints ==
    { v \in StreamsOf({None}, "transport", FALSE, {Rec(None, 1), Rec(14, 1), Rec(2, 2)}, 3, Jittery) :
        TransportOrigin(v) # None /\ ~ StreamOriented(v) }

===============================================================================
