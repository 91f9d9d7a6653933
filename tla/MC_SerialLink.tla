--------------------------- MODULE MC_SerialLink ----------------------------
EXTENDS SerialLink

\* Frames that end with a full group, with a zero right behind a full group, and
\* with a short group; one has the size that is sent as zero, one is split into two
\* of that size, and one is too large and leaves a rest.  The bytes of one
\* are a group of a packet's header and data: the frame of <<1>>, whose checksum
\* is 50, is what recv has when it gives up after this one's first group.
MCData == {<<1>>, <<0>>, <<1, 0>>, <<1, 1, 1>>, <<2, 1, 50, 1>>, <<1, 1, 0, 0, 1>>,
           <<1, 0, 0, 1, 1, 1, 1, 1, 0, 0>>, <<1, 1, 1, 1, 1, 1>>}
=============================================================================
