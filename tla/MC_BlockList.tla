---------------------------- MODULE MC_BlockList ----------------------------
EXTENDS BlockListRefinement

\* Two ranges that start off a boundary, with a hole between them; one that
\* overlaps the second from below, one too small for a block, and one at
\* address zero, as the first entry of a memory map is.
MCRanges == {[data |-> 1, size |-> 9], [data |-> 11, size |-> 7],
             [data |-> 10, size |-> 4], [data |-> 15, size |-> 3],
             [data |-> 0, size |-> 6]}

MCRequests == {0, 3}
=============================================================================
