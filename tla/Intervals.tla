------------------------------- MODULE Intervals -------------------------------
(***************************************************************************)
(* _intervals.py: lists of half-open ranges <<start, end>>.  A list is     *)
(* coalesced when its ranges are sorted, disjoint and no two of them       *)
(* touch; Offsets is what a list stands for.                               *)
(***************************************************************************)
EXTENDS Integers, Sequences, SequencesExt

Ranges == { r \in Nat \X Nat : r[1] < r[2] }

Coalesced(list) ==
    \A i \in 1 .. Len(list) :
        /\ list[i][1] < list[i][2]
        /\ \A j \in 1 .. i - 1 : list[j][2] < list[i][1]

Offsets(list) == UNION { list[i][1] .. list[i][2] - 1 : i \in 1 .. Len(list) }

Larger(m, n) == IF m >= n THEN m ELSE n

Smaller(m, n) == IF m <= n THEN m ELSE n

-------------------------------------------------------------------------------
(* add *)

\* bisect_left by end: how many ranges end before start.
BisectLeft(into, start) ==
    CHOOSE n \in 0 .. Len(into) :
        /\ n = Len(into) \/ into[n + 1][2] >= start
        /\ \A i \in 1 .. n : into[i][2] < start

\* bisect_right by start: how many ranges start at or before end.
BisectRight(into, end) ==
    CHOOSE n \in 0 .. Len(into) :
        /\ n = Len(into) \/ into[n + 1][1] > end
        /\ \A i \in 1 .. n : into[i][1] <= end

\* A range that starts within or behind the last one.
Extended(into, start, end) ==
    LET n == Len(into)
    IN  IF start <= into[n][2]
        THEN [into EXCEPT ![n] = <<@[1], Larger(@[2], end)>>]
        ELSE Append(into, <<start, end>>)

\* Any other range: it is fused with every range it touches.
Fused(into, start, end) ==
    LET lo == BisectLeft(into, start)
        hi == BisectRight(into, end)
        fused == IF lo = hi THEN <<start, end>>
                 ELSE <<Smaller(start, into[lo + 1][1]), Larger(end, into[hi][2])>>
    IN  SubSeq(into, 1, lo) \o <<fused>> \o SubSeq(into, hi + 1, Len(into))

\* Slip: an empty range is added like any other.
Add_Empty(into, start, end) ==
    CASE into = << >> -> <<<<start, end>>>>
      [] into # << >> /\ start >= into[Len(into)][1] -> Extended(into, start, end)
      [] into # << >> /\ start < into[Len(into)][1] -> Fused(into, start, end)

Add(into, start, end) ==
    CASE start >= end -> into
      [] start < end /\ into = << >> -> <<<<start, end>>>>
      [] start < end /\ into # << >> ->
            IF start >= into[Len(into)][1]
            THEN Extended(into, start, end)
            ELSE Fused(into, start, end)

-------------------------------------------------------------------------------

\* The order of pairs.
Sorts(r, s) == r[1] < s[1] \/ (r[1] = s[1] /\ r[2] <= s[2])

\* The range among those already sorted: behind each that sorts before it.
SetIn(list, r) ==
    InsertAt(list, Cardinality({ i \in DOMAIN list : Sorts(list[i], r) }) + 1, r)

Sorted(intervals) == FoldLeft(SetIn, << >>, intervals)

Added(merged, r) == Add(merged, r[1], r[2])

\* coalesce
Coalesce(intervals) == FoldLeft(Added, << >>, Sorted(intervals))

\* The loop of complement over one range, which breaks at the extent.
Passed(state, r, extent) ==
    [gaps |-> IF r[1] > state.position /\ state.position < extent
              THEN Append(state.gaps, <<state.position, Smaller(r[1], extent)>>)
              ELSE state.gaps,
     position |-> Larger(state.position, r[2])]

\* complement: what a sorted list leaves of [0, extent).  No range of it is empty.
Complement(intervals, extent) ==
    LET last == FoldLeft(LAMBDA state, r : Passed(state, r, extent),
                         [gaps |-> << >>, position |-> 0], intervals)
    IN  IF last.position < extent
        THEN Append(last.gaps, <<last.position, extent>>)
        ELSE last.gaps

\* A turn of the loop of intersections: the ranges at i and j are compared, and the
\* one that ends first is passed.
Swept(state, first, second) ==
    LET r      == first[state.i]
        s      == second[state.j]
        shared == <<Larger(r[1], s[1]), Smaller(r[2], s[2])>>
    IN  IF state.i > Len(first) \/ state.j > Len(second) THEN state
        ELSE [i     |-> IF r[2] <= s[2] THEN state.i + 1 ELSE state.i,
              j     |-> IF r[2] <= s[2] THEN state.j ELSE state.j + 1,
              found |-> IF shared[1] < shared[2] THEN Append(state.found, shared) ELSE state.found]

\* intersections: each turn passes a range of one list, so there are no more of them.
Intersections(first, second) ==
    FoldLeft(LAMBDA state, passed : Swept(state, first, second),
             [i |-> 1, j |-> 1, found |-> << >>], first \o second).found

===============================================================================
