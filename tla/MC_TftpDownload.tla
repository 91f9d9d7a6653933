-------------------------- MODULE MC_TftpDownload ---------------------------
EXTENDS TftpDownload

\* Version v of file n with k bytes, all of them different.
Version(n, v, k) == [i \in 1..k |-> [tag |-> "byte", of |-> n, version |-> v, at |-> i]]

\* A file that grows and then shrinks, one whose size is a multiple of the
\* packet size, an empty one, one with more packets than there are numbers,
\* and one that the server does not have.
MCFiles ==
  [n \in {"changing", "exact", "empty", "long", "missing"} |->
     CASE n = "changing" -> <<Version(n, 1, 3), Version(n, 2, 5), Version(n, 3, 2)>>
       [] n = "exact"    -> <<Version(n, 1, 4), Version(n, 2, 4)>>
       [] n = "empty"    -> <<Version(n, 1, 0)>>
       [] n = "long"     -> <<Version(n, 1, 7), Version(n, 2, 9)>>
       [] n = "missing"  -> <<>>]
=============================================================================
