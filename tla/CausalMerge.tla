----------------------------- MODULE CausalMerge -----------------------------
(***************************************************************************)
(* causal_merge: the streaming merge of one session's per-participant      *)
(* record streams.  Each iteration of its loop is one step.  The merge     *)
(* keeps one loaded record per participant (its frontier) and, for exactly *)
(* two participants, releases a record only once every peer record it      *)
(* acknowledges has been emitted; ties go to the least (timestamp, pid).   *)
(*                                                                         *)
(* The merged order is folded, record by record, into the stored-order     *)
(* check of order.py (verified), which is what a SEQUENCED session written *)
(* in this order is held to.                                               *)
(***************************************************************************)
EXTENDS StoredOrder, Sequences

CONSTANTS
    Records,                    \* the records a stream may hold
    MaxLen                      \* bound: the longest stream

ASSUME RecordsAssumption == Records \subseteq RecordType /\ MaxLen \in Nat

VARIABLES
    streams,                    \* pid -> its records, in stored order
    isns,                       \* pid -> its declared isn, or None
    frontier,                   \* pid -> its _Frontier
    out,                        \* the records yielded so far
    status,                     \* where the generator is
    verified                    \* _StoredOrder over out, and whether it held

vars == <<streams, isns, frontier, out, status, verified>>

FrontierType ==
    [loaded : Nat,                              \* records taken from the stream
     head : RecordType \cup {None},
     lastSeq : SeqNum \cup {None},
     placer : PlacerType,
     acks : AckWalkType,
     offset : Nat \cup {None},                  \* head_offset
     end : Nat \cup {None},                     \* head_end
     ack : Int \cup {None},                     \* head_ack
     reached : Nat]

OutType == [pid : Pids, rec : RecordType, end : Nat \cup {None}, ack : Int \cup {None}]

StatusType == {"priming", "merging", "done", "stalled", "refused"}

TypeOK ==
    /\ streams \in [Pids -> Seq(RecordType)]
    /\ isns \in [Pids -> SeqNum \cup {None}]
    /\ frontier \in [Pids -> FrontierType]
    /\ out \in Seq(OutType)
    /\ status \in StatusType
    /\ verified \in [order : OrderType, ok : BOOLEAN]

-------------------------------------------------------------------------------
(* _Frontier *)

NewFrontier(isn) ==
    [loaded |-> 0, head |-> None, lastSeq |-> None, placer |-> NewPlacer(isn),
     acks |-> NewAckWalk, offset |-> None, end |-> None, ack |-> None, reached |-> 0]

\* The record advance() would load: the stream's next, or None.
NextOf(f, stream) == IF f.loaded < Len(stream) THEN stream[f.loaded + 1] ELSE None

\* advance() raises: the stream breaks its own stored order.
AdvanceRefuses(f, rec) ==
    /\ rec # None
    /\ rec.seq # None
    /\ f.lastSeq # None
    /\ ~ SeqLeq(f.lastSeq, rec.seq)

ReachedAfter(f) == IF f.end # None /\ f.end > f.reached THEN f.end ELSE f.reached

Drained(f) ==
    [f EXCEPT !.head = None, !.offset = None, !.end = None, !.ack = None,
              !.reached = ReachedAfter(f)]

Advanced(f, rec) ==
    LET offset == OffsetOf(f.placer, rec)
        acks   == IF rec.ack = None THEN f.acks ELSE AckObserved(f.acks, rec.ack)
    IN  [loaded  |-> f.loaded + 1,
         head    |-> rec,
         lastSeq |-> IF rec.seq = None THEN f.lastSeq ELSE rec.seq,
         placer  |-> Placed(f.placer, rec),
         acks    |-> acks,
         offset  |-> offset,
         end     |-> SequenceEnd(rec, offset),
         ack     |-> IF rec.ack = None THEN None ELSE acks.position,
         reached |-> ReachedAfter(f)]

AdvancedTo(f, rec) == IF rec = None THEN Drained(f) ELSE Advanced(f, rec)

-------------------------------------------------------------------------------
(* Readiness *)

Pairwise == Cardinality(Pids) = 2

\* Slip: the bound before 0.23, which a pure ACK at 0 stalled.
PeerEnd_Reached(f) == IF f.end # None THEN f.end ELSE f.reached

\* The lowest end any record of the stream from its head on could have.
PeerEnd(f) ==
    CASE f.end # None -> f.end
      [] f.end = None /\ f.offset # None ->
            IF f.offset + 1 > f.reached THEN f.offset + 1 ELSE f.reached
      [] f.end = None /\ f.offset = None -> f.reached

\* Slip: ready as soon as the peer's head ends at the ack.
PairReady_AtEnd(f, peer) ==
    /\ f.head # None
    /\ \/ f.ack = None
       \/ peer.head = None
       \/ peer.placer.origin = None
       \/ AckPosition(f.acks, f.ack, peer.placer.origin) <= PeerEnd(peer)

\* Slip: positions compared as wire values, which a long stream wraps.
PairReady_Wire(f, peer) ==
    /\ f.head # None
    /\ \/ f.ack = None
       \/ peer.head = None
       \/ peer.placer.origin = None
       \/ AckPosition(f.acks, f.ack, peer.placer.origin) % SeqSpace < PeerEnd(peer)

\* _pair_ready
PairReady(f, peer) ==
    /\ f.head # None
    /\ \/ f.ack = None
       \/ peer.head = None
       \/ peer.placer.origin = None
       \/ AckPosition(f.acks, f.ack, peer.placer.origin) < PeerEnd(peer)

\* Slip: the pair is merged by its clocks alone.
Ready_ClockOnly == { p \in Pids : frontier[p].head # None }

Ready ==
    { p \in Pids :
        IF Pairwise
        THEN \A peer \in Pids \ {p} : PairReady(frontier[p], frontier[peer])
        ELSE frontier[p].head # None }

\* Slip: the tie-break compares pids before timestamps.
Before_PidFirst(p, q) == p <= q

\* (timestamp, pid) is a total order over the frontiers.
Before(p, q) ==
    LET tp == frontier[p].head.ts
        tq == frontier[q].head.ts
    IN  tp < tq \/ (tp = tq /\ p <= q)

IsBest(p) == p \in Ready /\ \A q \in Ready : Before(p, q)

-------------------------------------------------------------------------------
(* The generator *)

Input ==
    /\ streams \in [Pids -> UNION { [1 .. n -> Records] : n \in 0 .. MaxLen }]
    /\ isns \in [Pids -> SeqNum \cup {None}]

Start ==
    /\ frontier = [p \in Pids |-> NewFrontier(isns[p])]
    /\ out = << >>
    /\ status = "priming"
    /\ verified = [order |-> NewOrder(Cardinality(Pids), isns), ok |-> TRUE]

Init == Input /\ Start

\* The first advance of every frontier, in pid order, before anything is yielded.
Primed(p) == frontier[p].loaded > 0 \/ Len(streams[p]) = 0

Prime(p) ==
    /\ status = "priming"
    /\ ~ Primed(p)
    /\ \A q \in Pids : q < p => Primed(q)
    /\ frontier' = [frontier EXCEPT ![p] = AdvancedTo(@, NextOf(@, streams[p]))]
    /\ UNCHANGED <<streams, isns, out, status, verified>>

Begin ==
    /\ status = "priming"
    /\ \A p \in Pids : Primed(p)
    /\ status' = "merging"
    /\ UNCHANGED <<streams, isns, frontier, out, verified>>

\* Slip: the head is read after the advance, so the record ahead is yielded.
Emit_HeadAhead(p) ==
    /\ status = "merging"
    /\ IsBest(p)
    /\ LET f   == frontier[p]
           rec == NextOf(f, streams[p])
       IN  /\ ~ AdvanceRefuses(f, rec)
           /\ frontier' = [frontier EXCEPT ![p] = AdvancedTo(f, rec)]
           /\ out' = IF rec = None THEN out
                     ELSE Append(out, [pid |-> p, rec |-> rec, end |-> None, ack |-> None])
    /\ UNCHANGED <<streams, isns, status, verified>>

\* Advance past the best head, then yield it.
Emit(p) ==
    /\ status = "merging"
    /\ IsBest(p)
    /\ LET f == frontier[p]
       IN  /\ ~ AdvanceRefuses(f, NextOf(f, streams[p]))
           /\ frontier' = [frontier EXCEPT ![p] = AdvancedTo(f, NextOf(f, streams[p]))]
           /\ out' = Append(out, [pid |-> p, rec |-> f.head, end |-> f.end, ack |-> f.ack])
           /\ verified' =
                LET count == Cardinality(Pids)
                IN  [order |-> OrderObserved(verified.order, count, p, f.head),
                     ok    |-> /\ verified.ok
                               /\ ~ OrderRefuses(verified.order, count, p, f.head)]
    /\ UNCHANGED <<streams, isns, status>>

\* The advance raises first, so the best head itself is never yielded.
Refuse(p) ==
    /\ status = "merging"
    /\ IsBest(p)
    /\ AdvanceRefuses(frontier[p], NextOf(frontier[p], streams[p]))
    /\ status' = "refused"
    /\ UNCHANGED <<streams, isns, frontier, out, verified>>

Stall ==
    /\ status = "merging"
    /\ Pairwise
    /\ Ready = {}
    /\ \E p \in Pids : frontier[p].head # None
    /\ status' = "stalled"
    /\ UNCHANGED <<streams, isns, frontier, out, verified>>

Finish ==
    /\ status = "merging"
    /\ Ready = {}
    /\ \A p \in Pids : frontier[p].head = None
    /\ status' = "done"
    /\ UNCHANGED <<streams, isns, frontier, out, verified>>

Next ==
    \/ \E p \in Pids : Prime(p) \/ Emit(p) \/ Refuse(p)
    \/ Begin
    \/ Stall
    \/ Finish

Spec == Init /\ [][Next]_vars

-------------------------------------------------------------------------------
(* Properties *)

\* No record is yielded after a peer record that already acknowledged it: the
\* docstring's "every record after all records that causally precede it"
\* (order.py causal_merge), in the positions the merge itself computed.
NoRecordAfterItsAck ==
    \A i, j \in 1 .. Len(out) :
        /\ i < j
        /\ out[i].pid # out[j].pid
        /\ out[i].ack # None
        /\ out[j].end # None
        => AckPosition(frontier[out[i].pid].acks, out[i].ack,
                       frontier[out[j].pid].placer.origin) < out[j].end

\* The order the merge yields passes the stored-order check a SEQUENCED session
\* is held to (order.py _StoredOrder), which walks offsets and acks by itself,
\* over records already emitted, and compares against a running maximum.
MergeVerifies == verified.ok

\* The records of participant p in a merged sequence, in order.
RecordsIn(merged, p) ==
    LET taken[n \in 0 .. Len(merged)] ==
          IF n = 0 THEN << >>
          ELSE IF merged[n].pid = p THEN Append(taken[n - 1], merged[n].rec) ELSE taken[n - 1]
    IN  taken[Len(merged)]

\* Those yielded so far.
YieldedBy(p) == RecordsIn(out, p)

ClockSorted(stream) ==
    \A i, j \in 1 .. Len(stream) : i < j => stream[i].ts <= stream[j].ts

\* Any participant count but two: acks order nothing, and where no clock runs
\* backwards the output is sorted by (timestamp, pid) throughout.
ClockMergeSorted ==
    ~ Pairwise /\ (\A p \in Pids : ClockSorted(streams[p])) =>
        \A i, j \in 1 .. Len(out) :
            i < j => \/ out[i].rec.ts < out[j].rec.ts
                     \/ out[i].rec.ts = out[j].rec.ts /\ out[i].pid <= out[j].pid

-------------------------------------------------------------------------------
(* When a merge that looks one record ahead is causal.  Each condition is one *)
(* that order.py takes for granted; the runs show what happens without it.    *)

BareSyn(rec) == rec.flag = "syn" /\ rec.len = 0

\* A loaded record's stream knows its origin.
OriginsKnown ==
    \A p \in Pids : frontier[p].head # None => frontier[p].placer.origin # None

\* "Ends being monotone within a stream" (order.py _pair_ready).
EndsRise ==
    \A p \in Pids : frontier[p].end # None => frontier[p].end >= frontier[p].reached

\* "A SYN only at the origin, before any data" (order.py _pair_ready).
SynsLead ==
    \A p \in Pids : \A i, j \in 1 .. Len(streams[p]) :
        i < j /\ BareSyn(streams[p][j]) => BareSyn(streams[p][i])

WellFormed == OriginsKnown /\ EndsRise /\ SynsLead

\* A frontier's head is the record loaded last, placed by the walk.
HeadPlaced(p) ==
    LET f == frontier[p]
    IN  /\ f.loaded <= Len(streams[p])
        /\ f.head # None => /\ f.loaded > 0
                            /\ f.head = streams[p][f.loaded]
                            /\ f.end = SequenceEnd(f.head, f.offset)
        /\ f.head = None => f.end = None
        /\ f.offset # None => f.placer.position = f.offset
        /\ f.ack # None => f.acks.first # None

\* The position, in participant q's stream, acknowledged by the i-th record out.
Acked(i, q) == AckPosition(frontier[out[i].pid].acks, out[i].ack, frontier[q].placer.origin)

\* Every end the stream of q still has, its head's included, is past position a.
EndsPast(q, a) ==
    LET f == frontier[q]
    IN  \/ a < f.reached
        \/ f.end # None /\ a < f.end
        \/ /\ a <= f.placer.position
           /\ \E k \in 1 .. f.loaded : ~ BareSyn(streams[q][k])

\* The inductive invariant behind NoRecordAfterItsAck: what was yielded with an
\* ack is already behind everything its peer has yet to yield.
CausalInv ==
    /\ status = "priming" => out = << >>
    /\ \A p \in Pids : HeadPlaced(p)
    /\ \A i \in 1 .. Len(out) :
          /\ out[i].ack # None => frontier[out[i].pid].acks.first # None
          /\ out[i].end # None => frontier[out[i].pid].placer.origin # None
          /\ \A q \in Pids \ {out[i].pid} :
                out[i].ack # None /\ frontier[q].head # None => EndsPast(q, Acked(i, q))
    /\ NoRecordAfterItsAck

===============================================================================
