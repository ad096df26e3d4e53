---------------------------- MODULE MCFrameReader ----------------------------
(* FrameReader for TLC: all small track areas. *)
EXTENDS FrameReader

CONSTANTS
    MCInputs,   \* the kinds of input
    MCTotal,    \* DST frames of an area
    MCSpan      \* bound on the sectors of a frame

MCStart == 3

\* How a frame lies: the sectors it spans, and its distance from the frame
\* before: in the same sector, in the next one, or after a padding sector.
Shapes == [span : 1..MCSpan, dist : 0..2]

\* The sector of each frame's first packet.
FirstSector(shapes) ==
    LET f[k \in 0..(MCTotal - 1)] ==
            IF k = 0 THEN MCStart + shapes[0].dist
            ELSE f[k - 1] + shapes[k - 1].span - 1 + shapes[k].dist
    IN  f

PacketOf(n, start, kind) == [frame |-> n, start |-> start, kind |-> kind]

\* Even frames carry supplementary data in their first sector.
PacketsIn(n, first, l) ==
    IF l = first
    THEN <<PacketOf(n, TRUE, "audio")>>
         \o (IF n % 2 = 0 THEN <<PacketOf(n, FALSE, "supp")>> ELSE <<>>)
    ELSE <<PacketOf(n, FALSE, "audio")>>

SectorOf(shapes, l) ==
    LET first == FirstSector(shapes)
        f[k \in 0..MCTotal] ==
            IF k = MCTotal THEN <<>>
            ELSE (IF l \in first[k]..(first[k] + shapes[k].span - 1)
                  THEN PacketsIn(k, first[k], l) ELSE <<>>) \o f[k + 1]
    IN  IF f[0] = <<>> THEN <<PacketOf(-1, FALSE, "padding")>> ELSE f[0]

\* Access lists: none, exact, or one sector late without and with a margin.
Entries(first, late, end) ==
    <<Min({first[0] + late, end}), Min({first[2] + late, end})>>
Lists(first, end) ==
    {[step |-> 2, entries |-> <<>>, margin |-> 0]}
    \cup {[step |-> 2, entries |-> Entries(first, e[1], end), margin |-> e[2]] :
            e \in {<<0, 0>>, <<1, 0>>, <<1, 1>>}}

\* The last sector of the track area; one more follows.
LastOf(shapes) == FirstSector(shapes)[MCTotal - 1] + shapes[MCTotal - 1].span - 1

DstDisc(shapes, list, input) ==
    LET first == FirstSector(shapes)
        end   == LastOf(shapes)
    IN  [format |-> "dst", input |-> input, start |-> MCStart, end |-> end,
         last |-> end + 1, total |-> MCTotal, list |-> list,
         span |-> [k \in 0..(MCTotal - 1) |-> shapes[k].span],
         sectors |-> [l \in MCStart..end |-> SectorOf(shapes, l)]]

FixedDisc(format) ==
    LET size == IF format = "dsd14" THEN 28 ELSE 32 IN
    [format |-> format, input |-> "file", start |-> MCStart,
     end |-> MCStart + size - 1, last |-> MCStart + size - 1, total |-> 6,
     list |-> [step |-> 1, entries |-> <<>>, margin |-> 0], span |-> <<>>,
     sectors |-> [l \in MCStart..(MCStart + size - 1) |-> <<>>]]

\* An image file with every access list; other inputs with an exact one.
MCDiscs ==
    UNION {UNION {{DstDisc(shapes, list, input) : list \in
                      IF input = "file" THEN Lists(FirstSector(shapes), LastOf(shapes))
                      ELSE {[step |-> 2, margin |-> 0,
                             entries |-> Entries(FirstSector(shapes), 0, LastOf(shapes))]}} : input \in MCInputs} :
           shapes \in {s \in [0..(MCTotal - 1) -> Shapes] : s[0].dist < 2}}
    \cup {FixedDisc("dsd14"), FixedDisc("dsd16")}
==============================================================================
