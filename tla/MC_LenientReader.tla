--------------------------- MODULE MC_LenientReader ---------------------------
(***************************************************************************)
(* Small instances of LenientReader.  A scenario gives the blocks its files *)
(* are of, the openings they begin with, read and indexed already, how many *)
(* blocks a file has and whether the reader is strict.                     *)
(***************************************************************************)
EXTENDS LenientReader

CONSTANT Names                  \* the scenarios of the run

VARIABLE scenario               \* the one this file is of

-------------------------------------------------------------------------------

Header(derived) == [kind |-> "header", derived |-> derived, digest |-> FALSE]

SourceBlock(id, kind) == [kind |-> "source", id |-> id, source |-> kind]

DecoderBlock(id, layer) == [kind |-> "decoder", id |-> id, layer |-> layer]

SessionBlock(s) == [kind |-> "session", sid |-> s]

ParticipantBlock(s, p, isn, adjacency) ==
    [kind |-> "participant", sid |-> s, pid |-> p, isn |-> isn, adjacency |-> adjacency]

\* A record of session 0 from source 0, with no option set.
Plain(p) ==
    [kind |-> "record", sid |-> 0, pid |-> p, source |-> 0, decoder |-> None, seq |-> None,
     flag |-> "none", copy |-> FALSE, payload |-> 1, label |-> FALSE, badLabel |-> FALSE,
     spans |-> {}]

Cite(source, from, to) == [source |-> source, input |-> 0, start |-> from, end |-> to]

\* A decoded record that cites [from, to) of the input.
Unit(p, from, to) ==
    [Plain(p) EXCEPT !.source = 1, !.decoder = 0, !.spans = {Cite(1, from, to)}]

Mark(source, from, to, reason) ==
    [kind |-> "undecoded", source |-> source, input |-> 0, start |-> from, end |-> to,
     decoder |-> None, reason |-> reason, class |-> None]

BreakBlock(p) == [kind |-> "discontinuity", sid |-> 0, pid |-> p]

EndBlock(s, lengths) ==
    [kind |-> "sessionEnd", sid |-> s,
     extents |-> [i \in 1 .. Len(lengths) |-> [source |-> 1, input |-> 0, extent |-> lengths[i]]]]

-------------------------------------------------------------------------------
(* Lifetimes: descriptors in any order, repeated, refused or left out *)

LifetimeBlocks ==
    { SourceBlock(0, "capture"), SourceBlock(1, "zpf"), DecoderBlock(0, "decoded"),
      SessionBlock(0), ParticipantBlock(0, 0, None, "contiguous"),
      ParticipantBlock(0, 0, None, "undefined"), Plain(0), Unit(0, 0, 1),
      Mark(1, 1, 2, "skipped"), EndBlock(0, << >>), [kind |-> "end"] }

LifetimePreambles == { <<Header(TRUE)>> }

\* Placement: one transport stream, with and without an isn

PlacementBlocks ==
    { [Plain(0) EXCEPT !.seq = seq] : seq \in {None, 0, 2, 5, 7} } \cup
    { [Plain(0) EXCEPT !.flag = "syn", !.seq = 0] }

\* A record that a rule checked late refuses.
StrayBlocks == { [Plain(0) EXCEPT !.seq = seq, !.source = source] : seq \in {0, 2, 3}, source \in {0, 1} }

PlacementPreambles ==
    { <<Header(FALSE), SourceBlock(0, "capture"), DecoderBlock(0, "decoded"), SessionBlock(0),
        ParticipantBlock(0, 0, isn, "contiguous")>> : isn \in {None, 1, 7} }

\* Seams: decoded streams over one input, their breaks, holes and lengths

SeamBlocks ==
    { Unit(0, 0, 1), Unit(0, 1, 2), Unit(0, 2, 3), Unit(1, 0, 1), Unit(1, 2, 3),
      BreakBlock(0), Mark(1, 1, 2, "gap"), Mark(1, 1, 2, "skipped"), Mark(1, 1, 2, "dropped"),
      EndBlock(0, <<3>>), EndBlock(0, << >>) }

SeamPreambles ==
    { <<Header(TRUE), SourceBlock(1, "zpf"), DecoderBlock(0, "decoded"), SessionBlock(0),
        ParticipantBlock(0, 0, None, "contiguous"), ParticipantBlock(0, 1, None, "units")>> }

\* Layers: what makes a stream bad once its records are in

LayerBlocks ==
    { Plain(0), [Plain(0) EXCEPT !.seq = 0], [Plain(0) EXCEPT !.copy = TRUE],
      [Plain(0) EXCEPT !.copy = TRUE, !.payload = 2], [Plain(0) EXCEPT !.decoder = 0],
      [Plain(0) EXCEPT !.decoder = 1], [Plain(0) EXCEPT !.label = TRUE], Plain(1), BreakBlock(0),
      EndBlock(0, << >>), Mark(0, 0, 1, "gap"), Mark(0, 0, 1, "skipped"),
      [kind |-> "name", sid |-> 0, pid |-> 1], [kind |-> "end"] }

LayerPreambles ==
    { <<Header(FALSE), SourceBlock(0, "capture"), DecoderBlock(0, "decoded"),
        DecoderBlock(1, "undefined"), SessionBlock(0),
        ParticipantBlock(0, 0, None, "contiguous"), ParticipantBlock(0, 1, None, "units")>> }

\* A capture-sourced decoder that cites a .zpf input, in a file that does not
\* say what produced it.

StrayHoleBlocks ==
    { [Unit(0, 2, 3) EXCEPT !.source = 0], [Unit(0, 0, 1) EXCEPT !.source = 0],
      [Unit(0, 1, 2) EXCEPT !.source = 0], Mark(1, 1, 2, "gap") }

StrayHolePreambles ==
    { <<Header(FALSE), SourceBlock(0, "capture"), SourceBlock(1, "zpf"),
        DecoderBlock(0, "decoded"), SessionBlock(0), ParticipantBlock(0, 0, None, "contiguous")>> }

-------------------------------------------------------------------------------

Scene(openings, blocks, max, isStrict) ==
    [openings |-> openings, blocks |-> blocks, max |-> max, strict |-> isStrict]

Scenario ==
    [lifetimes   |-> Scene(LifetimePreambles, LifetimeBlocks, 5, FALSE),
     placement   |-> Scene(PlacementPreambles, PlacementBlocks, 9, FALSE),
     seams       |-> Scene(SeamPreambles, SeamBlocks, 10, FALSE),
     layers      |-> Scene(LayerPreambles, LayerBlocks, 11, FALSE),
     strict      |-> Scene(LayerPreambles, LayerBlocks, 10, TRUE),
     strayRecord |-> Scene(PlacementPreambles, StrayBlocks, 9, FALSE),
     strayHole   |-> Scene(StrayHolePreambles, StrayHoleBlocks, 10, FALSE)]

AllBlocks == UNION { Scenario[name].blocks : name \in DOMAIN Scenario }

AllNames == {"lifetimes", "placement", "seams", "layers", "strict"}

\* No block of an opening is refused: this is where reading them leads.
MCInit ==
    /\ scenario \in Names
    /\ strict = Scenario[scenario].strict
    /\ \E opening \in Scenario[scenario].openings :
        /\ checker = FoldLeft(Absorbed, NewChecker, opening)
        /\ index = [i \in 1 .. Len(opening) - 1 |-> [block |-> opening[i + 1], noted |-> FALSE]]
    /\ isolated = << >>
    /\ status = "indexing"
    /\ fault = FALSE

MCNext ==
    /\ \/ /\ Len(index) + Len(isolated) < Scenario[scenario].max
          /\ \E b \in Scenario[scenario].blocks : Read(b)
       \/ FinishChecks
    /\ UNCHANGED scenario

MCSpec == MCInit /\ [][MCNext]_<<vars, scenario>>

===============================================================================
