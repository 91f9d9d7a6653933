------------------------- MODULE BlockListRefinement ------------------------
(***************************************************************************)
(* BlockList implements HeapSpec: a client's extent is the block it holds, *)
(* header included, and the pool is the bytes inserted.  The steps of a    *)
(* call before the one that changes what clients hold are stuttering       *)
(* steps; a block keeps its old extent while it is being reallocated.      *)
(***************************************************************************)
EXTENDS BlockList

Owned == [b \in live |-> Bytes(b, span[b])]

Heap == INSTANCE HeapSpec WITH pool <- pool, owned <- Owned

\* Every behaviour of the block list is a behaviour of the abstract heap: an
\* extent is taken from bytes nobody holds, and changes only by a grant, a
\* release, a resize or a move of its own.
ImplementsHeap == Heap!HeapBehaviour

\* No two clients ever hold the same byte.
ClientsNeverShare == Heap!Disjoint
=============================================================================
