------------------------------ MODULE HeapFile ------------------------------
(***************************************************************************)
(* What vfsio::heapfile does with its bytes: the file is a sequence, and a *)
(* byte that resizing has added and nobody has written is Junk.  Growing   *)
(* is assumed to succeed: the users of this module bound it.               *)
(***************************************************************************)
EXTENDS Integers, Sequences

Junk == [tag |-> "junk"]

Resized(bytes, n) ==
  [i \in 1..n |-> IF i <= Len(bytes) THEN bytes[i] ELSE Junk]

AtLeast(bytes, n) == IF n > Len(bytes) THEN Resized(bytes, n) ELSE bytes

\* Cuts off what lies after the bytes written.
WriteAt_Slip(bytes, at, src) ==
  [i \in 1..(at + Len(src)) |->
     IF i > at THEN src[i - at] ELSE AtLeast(bytes, at)[i]]

WriteAt(bytes, at, src) ==
  LET room == AtLeast(bytes, at + Len(src)) IN
  [i \in 1..Len(room) |->
     IF i > at /\ i <= at + Len(src) THEN src[i - at] ELSE room[i]]
=============================================================================
