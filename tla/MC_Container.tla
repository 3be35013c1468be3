------------------------------ MODULE MC_Container ------------------------------
(***************************************************************************)
(* A small instance of Container: the blocks a file may hold.  Words are   *)
(* counted as the format has them; a line is two pieces and its newline.   *)
(***************************************************************************)
EXTENDS Container

Block(kind, form, size) == [kind |-> kind, form |-> form, size |-> size, wide |-> FALSE]

BinaryBlocks ==
    { Block("header", "ok", 6), Block("record", "ok", 4), Block("end", "ok", 3),
      Block("record", "invalid", 4), Block("end", "invalid", 3),
      Block("record", "malformed", 4), Block("record", "misframed", 3) }

Line(kind, form) == Block(kind, form, 3)

JsonlBlocks ==
    { Line("header", "ok"), Line("record", "ok"), [Line("record", "ok") EXCEPT !.wide = TRUE],
      Line("end", "ok"), Line("record", "invalid"), Line("record", "malformed"),
      Line("record", "garbled"), Block("blank", "ok", 1) }

Faces == [binary |-> BinaryBlocks, jsonl |-> JsonlBlocks]

===============================================================================
