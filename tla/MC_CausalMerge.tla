---------------------------- MODULE MC_CausalMerge ----------------------------
(***************************************************************************)
(* Small instances of CausalMerge: the streams a run feeds the merge, and  *)
(* the conditions on them that separate the runs.                          *)
(***************************************************************************)
EXTENDS MergeOrder, SequencesExt

CONSTANTS
    Shapes,         \* each: pid -> the values its records' fields and its isn may take
    Overlaps,       \* a record may end below one stored before it
    LateOrigins,    \* with no isn, a record may come before the first seq_start
    Keepalives,     \* a record with no end may sit below an end stored before it
    LateSyns        \* a bare SYN may follow a record that is not one

RecordsOf(values) ==
    [seq : values.seq, ack : values.ack, len : values.len, flag : values.flag, ts : values.ts]

AllRecords == UNION { RecordsOf(shape[p]) : shape \in Shapes, p \in Pids }

\* Two streams acknowledging each other.
MutualShape ==
    <<[seq |-> {0, 2}, ack |-> {None, 2}, len |-> {0, 2}, flag |-> {"none"},
       ts |-> {1}, isn |-> {15}, max |-> 3],
      [seq |-> {1}, ack |-> {None, 2, 4}, len |-> {0, 1}, flag |-> {"none"},
       ts |-> {0, 2}, isn |-> {0}, max |-> 2]>>

\* MutualShape cut down, for the liveness check: pure ACKs, requests, responses.
LiveShape ==
    <<[seq |-> {0, 2}, ack |-> {None, 2}, len |-> {0, 2}, flag |-> {"none"},
       ts |-> {1}, isn |-> {15}, max |-> 2],
      [seq |-> {1}, ack |-> {None, 2, 4}, len |-> {0, 1}, flag |-> {"none"},
       ts |-> {0}, isn |-> {0}, max |-> 2]>>

\* A stream that passes the end of a space of 16, and a peer whose acks follow it.
WrapShape ==
    <<[seq |-> {7, 14, 5}, ack |-> {None}, len |-> {2}, flag |-> {"none"},
       ts |-> {1}, isn |-> {15}, max |-> 3],
      [seq |-> {0}, ack |-> {None, 7, 14, 5}, len |-> {0}, flag |-> {"none"},
       ts |-> {0, 2}, isn |-> {15}, max |-> 3]>>

\* Handshake records, records with no seq_start, mid-stream captures.
HandshakeShape ==
    <<[seq |-> {None, 0, 1}, ack |-> {None, 0, 1}, len |-> {0, 1}, flag |-> {"none", "syn"},
       ts |-> {0}, isn |-> {None, 15}, max |-> 2],
      [seq |-> {0}, ack |-> {None, 1}, len |-> {0}, flag |-> {"fin", "syn"},
       ts |-> {0}, isn |-> {None, 15}, max |-> 2]>>

\* Three participants, whose acks say nothing of one another; one may have
\* declared an isn that puts a record of its below its origin.
ThreeShape ==
    [p \in 1 .. 3 |->
        [seq |-> {None, 1}, ack |-> {None, 3}, len |-> {1}, flag |-> {"none"}, ts |-> 0 .. 2,
         isn |-> IF p = 1 THEN {None, 1} ELSE {None}, max |-> IF p = 1 THEN 2 ELSE 1]]

\* A retransmission that ends inside the segment it repeats a part of.
OverlapShape ==
    <<[seq |-> {0, 1}, ack |-> {None}, len |-> {1, 3}, flag |-> {"none"},
       ts |-> {1}, isn |-> {15}, max |-> 2],
      [seq |-> {0}, ack |-> {None, 2}, len |-> {1}, flag |-> {"none"},
       ts |-> {0}, isn |-> {15}, max |-> 2]>>

\* A mid-stream capture whose first record carries no seq_start.
LateOriginShape ==
    <<[seq |-> {None, 0}, ack |-> {None}, len |-> {1}, flag |-> {"none"},
       ts |-> {1}, isn |-> {None}, max |-> 2],
      [seq |-> {0}, ack |-> {None, 1}, len |-> {1}, flag |-> {"none"},
       ts |-> {0}, isn |-> {15}, max |-> 2]>>

\* A SYN stored behind a pure ACK.
LateSynShape ==
    <<[seq |-> {0}, ack |-> {None}, len |-> {0}, flag |-> {"none", "syn"},
       ts |-> {1}, isn |-> {15}, max |-> 2],
      [seq |-> {0}, ack |-> {None, 0}, len |-> {1}, flag |-> {"none"},
       ts |-> {0}, isn |-> {15}, max |-> 2]>>

\* A request, its response, and a keepalive probe below what the request reached.
KeepaliveShape ==
    <<[seq |-> {0, 1}, ack |-> {None, 2}, len |-> {0, 2}, flag |-> {"none"},
       ts |-> {1}, isn |-> {15}, max |-> 2],
      [seq |-> {0}, ack |-> {None, 2}, len |-> {2}, flag |-> {"none"},
       ts |-> {0}, isn |-> {15}, max |-> 1]>>

PairShapes == {MutualShape, WrapShape, HandshakeShape}
SmallShapes == {LiveShape}
ThreeShapes == {ThreeShape}
OverlapShapes == {OverlapShape}
LateOriginShapes == {LateOriginShape}
LateSynShapes == {LateSynShape}
KeepaliveShapes == {KeepaliveShape}

-------------------------------------------------------------------------------
(* The conditions, on one stream *)

Fit(stream, isn) ==
    /\ Overlaps \/ RisingEnds(stream, isn)
    /\ Keepalives \/ NoKeepalive(stream, isn)
    /\ LateOrigins \/ OriginFirst(stream, isn)
    /\ LateSyns \/ SynsFirst(stream)

\* What a participant may send under a shape: a stream and the isn declared for it.
Inputs(values) ==
    { input \in (UNION { [1 .. n -> RecordsOf(values)] : n \in 0 .. values.max }) \X values.isn :
        Fit(input[1], input[2]) }

MCInit ==
    /\ \E shape \in Shapes :
        \E a \in Inputs(shape[1]), b \in Inputs(shape[2]),
           c \in IF 3 \in Pids THEN Inputs(shape[3]) ELSE {0} :
            /\ streams = [p \in Pids |-> <<a, b, c>>[p][1]]
            /\ isns = [p \in Pids |-> <<a, b, c>>[p][2]]
    /\ Start

\* The caller iterates the generator to its end, as SessionReader.timeline and
\* SessionWriter._flush_pending do, so the merge keeps stepping while it can.
MCSpec == MCInit /\ [][Next]_vars /\ WF_vars(Next)

-------------------------------------------------------------------------------
(* Properties that look at whole streams *)

\* The stored order of a stream: each seq_start against the one before it.
InOrder(stream) ==
    LET hints == SelectSeq(stream, LAMBDA rec : rec.seq # None)
    IN  \A i \in 1 .. Len(hints) - 1 : SeqLeq(hints[i].seq, hints[i + 1].seq)

\* Whole streams in stored order that some causal order satisfies are merged to
\* the end, whichever records the merge happens to have loaded first.
MergeCompletes ==
    /\ status = "priming" /\ \A p \in Pids : frontier[p].loaded = 0
    /\ Causal!Orderable
    /\ HonestAcks
    /\ \A p \in Pids : InOrder(streams[p])
    ~> status = "done"

===============================================================================
