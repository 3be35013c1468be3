----------------------------- MODULE StoredOrder -----------------------------
(***************************************************************************)
(* _StoredOrder: the incremental check of a SEQUENCED session's order.     *)
(* It is driven from both sides, by SessionWriter one record at a time and *)
(* by verify_sequenced over a stored session, so it is a value here, with  *)
(* one operator for the state that observing a record leaves behind and    *)
(* one for whether the observation raises.                                 *)
(***************************************************************************)
EXTENDS StreamWalk, FiniteSets

CONSTANT Pids                   \* the participant ids of the session

ASSUME PidsAssumption == Pids \subseteq Nat /\ IsFiniteSet(Pids)

OrderType ==
    [senders : SUBSET Pids, ackChecks : BOOLEAN,
     lastSeq : [Pids -> SeqNum \cup {None}],
     placers : [Pids -> PlacerType], acks : [Pids -> AckWalkType]]

\* count is the participant count if known: a writer never knows it (None).
NewOrder(count, isns) ==
    [senders   |-> {},
     ackChecks |-> count = None \/ count = 2,
     lastSeq   |-> [p \in Pids |-> None],
     placers   |-> [p \in Pids |-> NewPlacer(isns[p])],
     acks      |-> [p \in Pids |-> NewAckWalk]]

\* The record precedes its participant's previous seq_start.
PrecedesLastSeq(order, pid, rec) ==
    /\ rec.seq # None
    /\ order.lastSeq[pid] # None
    /\ ~ SeqLeq(order.lastSeq[pid], rec.seq)

\* Ack cross-checks, dropped for good at a third sender when no count is known.
AckChecksAfter(order, count, pid) ==
    /\ order.ackChecks
    /\ count = None => Cardinality(order.senders \cup {pid}) <= 2

\* A peer's stored ack already covers a record ending at end.
AlreadyAcked(order, pid, end, origin) ==
    \E other \in Pids \ {pid} :
        /\ order.acks[other].first # None
        /\ end <= AckPosition(order.acks[other], order.acks[other].highest, origin)

\* Observing the record raises.
OrderRefuses(order, count, pid, rec) ==
    \/ PrecedesLastSeq(order, pid, rec)
    \/ /\ AckChecksAfter(order, count, pid)
       /\ LET end == SequenceEnd(rec, OffsetOf(order.placers[pid], rec))
          IN  /\ end # None
              /\ AlreadyAcked(order, pid, end,
                              Started(order.placers[pid], rec).origin)

\* What one observation leaves behind.  A raise leaves what was folded in
\* before it: the sender and the check's scope always, then last_seq and the
\* placement unless the seq_start rule raised, and the ack only without a raise.
OrderObserved(order, count, pid, rec) ==
    LET scoped == [order EXCEPT !.senders = @ \cup {pid},
                                !.ackChecks = AckChecksAfter(order, count, pid)]
        placed == [scoped EXCEPT
                     !.lastSeq[pid] = IF rec.seq = None THEN @ ELSE rec.seq,
                     !.placers[pid] = Placed(@, rec)]
        acked  == [placed EXCEPT !.acks[pid] = AckObserved(@, rec.ack)]
    IN  IF PrecedesLastSeq(order, pid, rec) THEN scoped
        ELSE IF \/ OrderRefuses(order, count, pid, rec)
                \/ rec.ack = None
                \/ ~ scoped.ackChecks
             THEN placed
        ELSE acked

===============================================================================
