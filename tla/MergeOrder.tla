------------------------------ MODULE MergeOrder ------------------------------
(***************************************************************************)
(* The causal merge against the abstract specification of its result: what *)
(* precedes what in two whole streams, and what has been taken of them.    *)
(* The walks over a whole stream are those a reader makes of one           *)
(* (_Placer and _AckWalk, fed record by record), with nothing left unseen. *)
(***************************************************************************)
EXTENDS CausalMerge

\* The offset walk of a stream once its first n records were placed.
PlacedOver(stream, isn, n) ==
    LET placer[i \in 0 .. Len(stream)] ==
          IF i = 0 THEN NewPlacer(isn) ELSE Placed(placer[i - 1], stream[i])
    IN  placer[n]

\* The ack walk of its sender.
AcksOver(stream, n) ==
    LET walk[i \in 0 .. Len(stream)] ==
          IF i = 0 THEN NewAckWalk
          ELSE IF stream[i].ack = None THEN walk[i - 1]
          ELSE AckObserved(walk[i - 1], stream[i].ack)
    IN  walk[n]

\* Where the i-th record of a stream starts and ends, or None.
OffsetIn(stream, isn, i) == OffsetOf(PlacedOver(stream, isn, i - 1), stream[i])

EndIn(stream, isn, i) == SequenceEnd(stream[i], OffsetIn(stream, isn, i))

\* The stream's origin, the whole stream considered.
OriginOf(p) == PlacedOver(streams[p], isns[p], Len(streams[p])).origin

\* The position record i of p acknowledges in the stream of q.
AckedIn(p, i, q) ==
    AckPosition(AcksOver(streams[p], i), AcksOver(streams[p], i).position, OriginOf(q))

\* Record j of participant q causally precedes record i of its peer p.
Precedes(q, j, p, i) ==
    /\ q # p
    /\ streams[p][i].ack # None
    /\ EndIn(streams[q], isns[q], j) # None
    /\ EndIn(streams[q], isns[q], j) <= AckedIn(p, i, q)

Places == UNION { {p} \X (1 .. Len(streams[p])) : p \in Pids }

Precedence ==
    [p \in Pids |-> [i \in 1 .. Len(streams[p]) |->
        { place \in Places : Precedes(place[1], place[2], p, i) }]]

-------------------------------------------------------------------------------
(* What order.py takes for granted of a stream.  Each condition has a shape   *)
(* in MC_CausalMerge that breaks the merge without it.                        *)

\* Without an isn, the first record fixes the origin.
OriginFirst(stream, isn) == isn # None \/ stream = << >> \/ stream[1].seq # None

\* "Ends being monotone within a stream" (order.py _pair_ready).
RisingEnds(stream, isn) ==
    \A i, j \in 1 .. Len(stream) :
        /\ i < j
        /\ EndIn(stream, isn, i) # None
        /\ EndIn(stream, isn, j) # None
        => EndIn(stream, isn, i) <= EndIn(stream, isn, j)

\* "A SYN only at the origin, before any data" (order.py _pair_ready).
SynsFirst(stream) ==
    \A i, j \in 1 .. Len(stream) : i < j /\ BareSyn(stream[j]) => BareSyn(stream[i])

InTurn ==
    \A p \in Pids :
        /\ OriginFirst(streams[p], isns[p])
        /\ RisingEnds(streams[p], isns[p])
        /\ SynsFirst(streams[p])

\* A record with no end does not sit below an end stored before it.
NoKeepalive(stream, isn) ==
    \A i, j \in 1 .. Len(stream) :
        /\ i < j
        /\ EndIn(stream, isn, i) # None
        /\ EndIn(stream, isn, j) = None /\ OffsetIn(stream, isn, j) # None
        => EndIn(stream, isn, i) <= OffsetIn(stream, isn, j)

NoKeepalives == \A p \in Pids : NoKeepalive(streams[p], isns[p])

\* Every record can be placed, and every ack that covers anything covers up to
\* the end of a stored record.
HonestAcks ==
    \A p \in Pids : \A i \in 1 .. Len(streams[p]) :
        /\ OffsetIn(streams[p], isns[p], i) # None
        /\ \A q \in Pids \ {p} :
              streams[p][i].ack # None /\ OriginOf(q) # None =>
              \/ AckedIn(p, i, q) <= 0
              \/ \E j \in 1 .. Len(streams[q]) :
                    EndIn(streams[q], isns[q], j) = AckedIn(p, i, q)

-------------------------------------------------------------------------------

\* The merge takes records only in a causal order of the whole streams, and ends without
\* raising only when all are taken: none is lost to the record loaded ahead of the one
\* yielded, none repeated, none overtakes its predecessor (causal_merge's "stable with
\* respect to stored order").
Causal == INSTANCE CausalOrder WITH before <- Precedence,
                                    taken  <- [p \in Pids |-> YieldedBy(p)],
                                    done   <- status = "done"

ImplementsCausalOrder == Causal!Spec

\* The merge, which sees one record ahead of each stream, stalls only on streams
\* no order at all would satisfy (order.py: "a broken file"), as long as acks
\* are honest; the bound on a peer's unseen ends is otherwise conservative.
StallsOnlyOnCycles == status = "stalled" /\ HonestAcks => ~ Causal!Orderable

-------------------------------------------------------------------------------

\* How many records of p the merge has released: all it loaded but the head.
Released(p) ==
    IF frontier[p].head = None THEN frontier[p].loaded ELSE frontier[p].loaded - 1

\* Frontier p stands where the walks over its whole stream stand, and nothing
\* still to be released ends below what it reached.
InStep(p) ==
    LET f      == frontier[p]
        stream == streams[p]
    IN  /\ f.placer = PlacedOver(stream, isns[p], f.loaded)
        /\ f.acks = AcksOver(stream, f.loaded)
        /\ f.head # None => /\ f.offset = OffsetIn(stream, isns[p], f.loaded)
                            /\ f.ack = IF f.head.ack = None THEN None ELSE f.acks.position
        /\ f.head = None => \/ f.loaded = Len(stream)
                            \/ status = "priming" /\ f.loaded = 0
        /\ Len(YieldedBy(p)) = Released(p)
        /\ \A j \in 1 .. Len(stream) :
              j > Released(p) /\ EndIn(stream, isns[p], j) # None
              => f.reached <= EndIn(stream, isns[p], j)

\* The inductive invariant behind ImplementsCausalOrder.
RefInv == InTurn /\ \A p \in Pids : HeadPlaced(p) /\ InStep(p)

===============================================================================
