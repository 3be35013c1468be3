---------------------------- MODULE SerialNumbers ----------------------------
(***************************************************************************)
(* RFC 1982 serial arithmetic on TCP sequence numbers, as order.py defines *)
(* it.  The code's SEQ_SPACE is 2^32; the modules take it as a constant so *)
(* that TLC can wrap a small space many times over.                        *)
(***************************************************************************)
EXTENDS Integers

CONSTANT SeqSpace               \* order.py SEQ_SPACE

ASSUME SeqSpaceAssumption ==
    /\ SeqSpace \in Nat
    /\ SeqSpace > 0
    /\ SeqSpace % 2 = 0

SeqNum == 0 .. SeqSpace - 1

SeqHighBit == SeqSpace \div 2

\* a precedes b in the wrapped space.
SeqLt(a, b) == a # b /\ (a - b) % SeqSpace >= SeqHighBit

\* The signed step from b to a, in [-SeqHighBit, SeqHighBit).
SerialDelta(a, b) ==
    LET delta == (a - b) % SeqSpace
    IN  IF delta >= SeqHighBit THEN delta - SeqSpace ELSE delta

SeqLeq(a, b) == a = b \/ SeqLt(a, b)

===============================================================================
