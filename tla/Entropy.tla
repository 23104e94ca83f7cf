------------------------------- MODULE Entropy -------------------------------
(***************************************************************************)
(* entropy_blocks and write_entropy_png (lib/src/entropy.cpp): the data is *)
(* cut into blocks, each is given an entropy, and a graph of them is drawn *)
(* line by line, pixel by pixel.  The entropy of a block is any level; the *)
(* compression and the PNG's chunks are left out.                          *)
(***************************************************************************)
EXTENDS Integers, Sequences

CONSTANTS
  Target,          \* target_block_count
  Levels,          \* the entropies a block may have, of 0 .. 8
  Width, Height    \* of the image

VARIABLES
  size,      \* data.size()
  start,     \* of the block counted next
  blocks,    \* the blocks so far
  lines,     \* the lines still to draw: [x0, y0, x1, y1]
  pen,       \* the line being drawn and where its pixel is, or << >>
  plotting   \* "blocks", "lines", "drawn"

entropyVars == <<start, blocks, lines, pen, plotting>>

EntropyInit == start = 0 /\ blocks = << >> /\ lines = << >> /\ pen = << >> /\ plotting = "blocks"

Lesser(a, b) == IF a < b THEN a ELSE b
Distance(a, b) == IF a < b THEN b - a ELSE a - b

-----------------------------------------------------------------------------
(* entropy_blocks                                                          *)

BlockSize == IF size < Target THEN size ELSE size \div Target

\* One turn of the loop: the bytes are counted in four tallies that are then
\* added up, which counts each of the block's bytes once.
NextBlock ==
  /\ plotting = "blocks" /\ start < size
  /\ \E level \in Levels :
       blocks' = Append(blocks, [start |-> start, level |-> level,
                                 end |-> start + Lesser(BlockSize, size - start)])
  /\ start' = start + BlockSize
  /\ UNCHANGED <<lines, pen, plotting>>

BlocksDone == plotting = "blocks" /\ start >= size

-----------------------------------------------------------------------------
(* write_entropy_png                                                       *)

MinimumDimension == 128
MaximumDimension == 16384
LeftMargin == 64
TopMargin == 32
PlotWidth == Width - LeftMargin - 32
PlotHeight == Height - TopMargin - 48

CanPlot ==
  /\ blocks # << >> /\ {Width, Height} \subseteq MinimumDimension .. MaximumDimension
  /\ blocks[Len(blocks)].end # 0

\* std::lround of a fraction that is not negative.
Round(a, b) == (2 * a + b) \div (2 * b)
MapX(offset) == LeftMargin + Round(offset * PlotWidth, blocks[Len(blocks)].end)
MapY(level) == TopMargin + Round((8 - level) * PlotHeight, 8)

Line(x0, y0, x1, y1) == [x0 |-> x0, y0 |-> y0, x1 |-> x1, y1 |-> y1]

Axes == << Line(LeftMargin, TopMargin, LeftMargin, TopMargin + PlotHeight),
           Line(LeftMargin, TopMargin + PlotHeight, LeftMargin + PlotWidth, TopMargin + PlotHeight) >>

\* A block's two lines: from where the one before ended, and along the block.
LinesOf(k) ==
  LET before == IF k = 1 THEN << MapX(blocks[1].start), MapY(blocks[1].level) >>
                ELSE << MapX(blocks[k - 1].end), MapY(blocks[k - 1].level) >>
      y == MapY(blocks[k].level)
  IN << Line(before[1], before[2], MapX(blocks[k].start), y),
        Line(MapX(blocks[k].start), y, MapX(blocks[k].end), y) >>

BeginPlot ==
  /\ BlocksDone /\ CanPlot
  /\ lines' = Axes \o [n \in 1 .. 2 * Len(blocks) |-> LinesOf((n + 1) \div 2)[2 - (n % 2)]]
  /\ plotting' = "lines"
  /\ UNCHANGED <<start, blocks, pen>>

\* Fault: the distance down is not negated.
BeginLineUnsigned ==
  /\ plotting = "lines" /\ pen = << >> /\ lines # << >>
  /\ LET l == Head(lines)
     IN pen' = << [x |-> l.x0, y |-> l.y0, dx |-> Distance(l.x0, l.x1), dy |-> Distance(l.y0, l.y1),
                   error |-> Distance(l.x0, l.x1) + Distance(l.y0, l.y1)] >>
  /\ UNCHANGED <<start, blocks, lines, plotting>>

\* rgb_image::line begins at the line's first end.
BeginLine ==
  /\ plotting = "lines" /\ pen = << >> /\ lines # << >>
  /\ LET l == Head(lines)
     IN pen' = << [x |-> l.x0, y |-> l.y0, dx |-> Distance(l.x0, l.x1), dy |-> - Distance(l.y0, l.y1),
                   error |-> Distance(l.x0, l.x1) - Distance(l.y0, l.y1)] >>
  /\ UNCHANGED <<start, blocks, lines, plotting>>

AtEnd == pen # << >> /\ pen[1].x = Head(lines).x1 /\ pen[1].y = Head(lines).y1

\* One turn of its loop: a step across, a step up or down, or both.
MovePen ==
  /\ plotting = "lines" /\ pen # << >> /\ ~AtEnd
  /\ LET p == pen[1]
         l == Head(lines)
         across == 2 * p.error >= p.dy
         along == 2 * p.error <= p.dx
     IN pen' = << [p EXCEPT !.error = @ + (IF across THEN p.dy ELSE 0) + (IF along THEN p.dx ELSE 0),
                            !.x = @ + (IF ~across THEN 0 ELSE IF l.x0 < l.x1 THEN 1 ELSE -1),
                            !.y = @ + (IF ~along THEN 0 ELSE IF l.y0 < l.y1 THEN 1 ELSE -1)] >>
  /\ UNCHANGED <<start, blocks, lines, plotting>>

EndLine ==
  /\ plotting = "lines" /\ AtEnd
  /\ pen' = << >> /\ lines' = Tail(lines)
  /\ UNCHANGED <<start, blocks, plotting>>

EndPlot ==
  /\ plotting = "lines" /\ pen = << >> /\ lines = << >>
  /\ plotting' = "drawn"
  /\ UNCHANGED <<start, blocks, lines, pen>>

PlotStep == NextBlock \/ BeginPlot \/ BeginLine \/ MovePen \/ EndLine \/ EndPlot

-----------------------------------------------------------------------------
(* Properties.                                                             *)

Between(n, a, b) == Lesser(a, b) <= n /\ n <= a + b - Lesser(a, b)

\* The loop of line ends only when both coordinates meet the line's end in the
\* same turn: the pen never passes either, and never leaves the image.
PenStaysOnLine ==
  pen # << >> =>
    LET l == Head(lines)
    IN /\ Between(pen[1].x, l.x0, l.x1) /\ Between(pen[1].y, l.y0, l.y1)
       /\ pen[1].x \in 0 .. Width - 1 /\ pen[1].y \in 0 .. Height - 1
=============================================================================
