----------------------------- MODULE CausalOrder -----------------------------
(***************************************************************************)
(* What a causal order of one session is, with the whole of its streams in *)
(* view and the precedence between their records given: a record may be    *)
(* taken once every record that precedes it has been taken, the streams    *)
(* are taken in their stored order, and the order is done when nothing is  *)
(* left.  Nothing is said of how a merge that loads one record at a time   *)
(* finds such an order.                                                    *)
(***************************************************************************)
EXTENDS Naturals, Sequences

CONSTANT Pids

VARIABLES
    streams,                    \* pid -> its records, in stored order
    isns,                       \* pid -> its declared isn, or None
    before,                     \* p -> i -> the places <<q, j>> of the records that precede
                                \* record i of p, which streams and isns determine
    taken,                      \* pid -> its records taken so far, in the order taken
    done                        \* whether the order is complete

Init == taken = [p \in Pids |-> << >>] /\ done = FALSE

Take(p) ==
    LET i == Len(taken[p]) + 1
    IN  /\ ~ done
        /\ i <= Len(streams[p])
        /\ \A place \in before[p][i] : place[2] <= Len(taken[place[1]])
        /\ taken' = [taken EXCEPT ![p] = Append(@, streams[p][i])]
        /\ UNCHANGED done

Complete ==
    /\ ~ done
    /\ \A p \in Pids : Len(taken[p]) = Len(streams[p])
    /\ done' = TRUE
    /\ UNCHANGED taken

Next == /\ Complete \/ \E p \in Pids : Take(p)
        /\ UNCHANGED <<streams, isns>>

Spec == Init /\ [][Next]_<<streams, isns, taken, done>>

\* Some order of all the records meets every edge.  An order exists unless the
\* edges and the stored orders form a cycle, and since each stream is totally
\* ordered a cycle is two records each held back by the other.
Orderable ==
    \A p \in Pids : \A i \in 1 .. Len(streams[p]) : \A place \in before[p][i] :
        LET q == place[1]
        IN  ~ \E j2 \in 1 .. place[2] :
                \E back \in before[q][j2] : back[1] = p /\ i <= back[2]

===============================================================================
