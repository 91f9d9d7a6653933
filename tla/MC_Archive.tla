----------------------------- MODULE MC_Archive -----------------------------
EXTENDS Archive

\* One name's header takes a unit of alignment more than the other's.
MCHeaderSize == [n \in {"a", "b"} |-> IF n = "a" THEN 2 ELSE 4]
=============================================================================
