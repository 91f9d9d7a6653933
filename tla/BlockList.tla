------------------------------ MODULE BlockList -----------------------------
(***************************************************************************)
(* memory::block_list, the allocator under both heaps of netboot32: an     *)
(* address-ordered doubly linked list of blocks whose headers live in the  *)
(* memory they describe.  Blocks are split by allocate and reallocate and  *)
(* merged by deallocate and insert_range.                                  *)
(*                                                                         *)
(* One public call runs at a time; its loops are modelled one iteration a  *)
(* step, with pc naming the loop and curr the cursor.  Header memory is    *)
(* four functions over addresses, so a header that has been merged away    *)
(* keeps what was last written in it, as in the program.                   *)
(*                                                                         *)
(* A definition ending in _Slip is the one after it with one plausible     *)
(* mistake in it; no specification uses it.  It shows which property would *)
(* notice that mistake (README, "What each property is sensitive to").     *)
(***************************************************************************)
EXTENDS Integers

CONSTANTS
  Q,         (* sizeof(block_type): the header and the unit of size        *)
  WordSize,  (* sizes are computed modulo WordSize (2^32 in the program)   *)
  Top,       (* the last address                                           *)
  Ranges,    (* the ranges a client may insert: [data, size] records       *)
  Requests   (* the sizes a client may ask for                             *)

Null == 0
Addr == 1..Top

Available == "available"
Allocated == "allocated"
Invalid   == "invalid"

Threshold == 2 * Q

\* Ranges end on a block boundary, as base memory (a number of kilobytes)
\* does; requests leave room for rounding up below the word size.
ASSUME BlockListAssumption ==
  /\ Q \in Nat \ {0}
  /\ Top \in Nat
  /\ WordSize \in Nat /\ WordSize > Top + Threshold
  /\ Ranges \subseteq [data : Nat, size : Nat]
  /\ \A r \in Ranges : r.data + r.size <= Top + 1 /\ (r.data + r.size) % Q = 0
  /\ Requests \subseteq Nat
  /\ \A n \in Requests : n + Threshold <= WordSize

VARIABLES
  head, tail,              (* m_head and m_tail                            *)
  size, meta, next, prev,  (* the headers                                  *)
  pc,                      (* "idle", or the loop of the call in progress  *)
  call,                    (* the call: what it is, its block and sizes    *)
  curr,                    (* the cursor of that loop                      *)
  ahead,                   (* probe_available's sum                        *)
  listed,                  (* auxiliary: the blocks reachable from head    *)
  pool,                    (* auxiliary: the bytes inserted so far         *)
  live,                    (* auxiliary: the blocks clients hold           *)
  span, asked              (* auxiliary: their sizes, held and asked for   *)

headers == <<size, meta, next, prev>>
list    == <<head, tail, listed, pool>>
clients == <<live, span, asked>>
control == <<pc, call, curr, ahead>>
vars    == <<headers, list, clients, control>>

NoCall == [op |-> "none", block |-> Null, need |-> 0, asked |-> 0]

Bytes(b, n) == b..(b + n - 1)

-----------------------------------------------------------------------------
(* Arithmetic on sizes and ranges.                                         *)

\* A whole number of blocks.
Whole(n) == n % Q = 0

\* Forgets the header.
RoundUp_Slip(n) == (((n + Q - 1) % WordSize) \div Q) * Q

\* A request rounded up to whole blocks, plus one for the header.
RoundUp(n) == ((((n + Q - 1) % WordSize) \div Q) * Q + Q) % WordSize

\* Moves the start and keeps the size.
AlignRange_Slip(r) == [r EXCEPT !.data = @ + ((Q - (@ % Q)) % Q)]

AlignRange(r) ==
  LET offset == (Q - (r.data % Q)) % Q
  IN  IF offset >= r.size THEN [data |-> r.data, size |-> 0]
      ELSE [data |-> r.data + offset, size |-> r.size - offset]

RangesOverlap(a, b) ==
  \/ a.data <= b.data /\ b.data - a.data < a.size
  \/ b.data <  a.data /\ a.data - b.data < b.size

BlockRange(b) == [data |-> b, size |-> size[b]]

-----------------------------------------------------------------------------
(* Splitting and merging.                                                  *)

\* The remainder is not linked into the list.
TrySplitBlock_Slip(b, n, m) ==
  /\ meta' = m
  /\ size' = IF size[b] - n < Threshold THEN size ELSE [size EXCEPT ![b] = n]
  /\ UNCHANGED <<next, prev, tail, listed>>

\* try_split_block(b, n), after the caller has set the status words to m.
TrySplitBlock(b, n, m) ==
  LET rest == b + n IN
  \/ /\ size[b] - n < Threshold
     /\ meta' = m
     /\ UNCHANGED <<size, next, prev, tail, listed>>
  \/ /\ size[b] - n >= Threshold
     /\ size' = [size EXCEPT ![rest] = size[b] - n, ![b] = n]
     /\ next' = [next EXCEPT ![rest] = next[b], ![b] = rest]
     /\ prev' = [a \in Addr |-> IF a = rest THEN b
                                ELSE IF a = next[b] THEN rest ELSE prev[a]]
     /\ meta' = [m EXCEPT ![rest] = Available]
     /\ tail' = IF tail = b THEN rest ELSE tail
     /\ listed' = IF b \in listed THEN listed \cup {rest} ELSE listed

Adjacent(lower, upper) == lower + size[lower] >= upper

\* Looks at the status of one of the two blocks only.
Mergeable_Slip(lower, upper) ==
  /\ lower # Null /\ upper # Null /\ lower # upper
  /\ Adjacent(lower, upper)
  /\ meta[lower] = Available

\* The test of try_mege_blocks; neighbours in the list are in address order.
Mergeable(lower, upper) ==
  /\ lower # Null /\ upper # Null /\ lower # upper
  /\ Adjacent(lower, upper)
  /\ meta[lower] = Available
  /\ meta[upper] = Available

\* The block after the pair still points back at the block that is gone.
MergeBlocks_Slip(lower, upper) ==
  /\ size' = [size EXCEPT ![lower] = @ + size[upper]]
  /\ next' = [next EXCEPT ![lower] = next[upper]]
  /\ tail' = IF tail = upper THEN lower ELSE tail
  /\ listed' = listed \ {upper}
  /\ UNCHANGED <<prev, meta, head, pool>>

MergeBlocks(lower, upper) ==
  /\ size' = [size EXCEPT ![lower] = @ + size[upper]]
  /\ next' = [next EXCEPT ![lower] = next[upper]]
  /\ prev' = [a \in Addr |-> IF a = next[upper] THEN lower ELSE prev[a]]
  /\ tail' = IF tail = upper THEN lower ELSE tail
  /\ listed' = listed \ {upper}
  /\ UNCHANGED <<meta, head, pool>>

-----------------------------------------------------------------------------
(* How a call starts, moves between its loops and returns.                 *)

Enter(loop, op, b, need, n, cursor) ==
  /\ pc' = loop
  /\ call' = [op |-> op, block |-> b, need |-> need, asked |-> n]
  /\ curr' = cursor
  /\ ahead' = 0

Goto(loop, cursor) ==
  pc' = loop /\ curr' = cursor /\ UNCHANGED <<call, ahead>>

Return == pc' = "idle" /\ call' = NoCall /\ curr' = Null /\ ahead' = 0

Hold(b, n, bytes) ==
  /\ live' = live \cup {b}
  /\ span' = [span EXCEPT ![b] = bytes]
  /\ asked' = [asked EXCEPT ![b] = n]

Drop(b) ==
  /\ live' = live \ {b}
  /\ span' = [span EXCEPT ![b] = 0]
  /\ asked' = [asked EXCEPT ![b] = 0]

-----------------------------------------------------------------------------
(* insert_range.  The caller's part: a range large enough for a block does  *)
(* not start inside memory the list already has (initialize_block writes   *)
(* the new header before anything is compared), nor at address zero with   *)
(* the whole list behind it (its block is the null pointer, and becomes    *)
(* the head).                                                              *)

RangeIsNew(r) ==
  LET a == AlignRange(r) IN
  a.size >= Threshold =>
    /\ a.data = Null => head = Null \/ head < a.size
    /\ \A b \in listed : a.data \notin Bytes(b, size[b])

InitializeBlock(a) ==
  /\ size' = [size EXCEPT ![a.data] = a.size]
  /\ meta' = [meta EXCEPT ![a.data] = Available]
  /\ next' = [next EXCEPT ![a.data] = Null]
  /\ prev' = [prev EXCEPT ![a.data] = Null]

\* Too small; at address zero, which is the null pointer: no block; or there and
\* overlapping the first block.  The header written at zero is outside of Addr.
InsertNothing(r) ==
  LET a == AlignRange(r) IN
  /\ pc = "idle"
  /\ a.size < Threshold \/ (a.data = Null /\ (head = Null \/ head < a.size))
  /\ UNCHANGED vars

InsertFirst(r) ==
  LET a == AlignRange(r) IN
  /\ pc = "idle"
  /\ head = Null /\ a.data # Null /\ a.size >= Threshold
  /\ InitializeBlock(a)
  /\ head' = a.data /\ tail' = a.data
  /\ listed' = {a.data}
  /\ pool' = pool \cup Bytes(a.data, a.size)
  /\ UNCHANGED <<clients, control>>

InsertBegin(r) ==
  LET a == AlignRange(r) IN
  /\ pc = "idle"
  /\ head # Null /\ a.data # Null /\ a.size >= Threshold
  /\ InitializeBlock(a)
  /\ Enter("insert_scan", "insert", a.data, a.size, 0, head)
  /\ UNCHANGED <<list, clients>>

InsertScan ==
  /\ pc = "insert_scan"
  /\ call.block > curr /\ next[curr] # Null
  /\ Goto("insert_scan", next[curr])
  /\ UNCHANGED <<headers, list, clients>>

InsertOverlap ==
  /\ pc = "insert_scan"
  /\ ~(call.block > curr /\ next[curr] # Null)
  /\ RangesOverlap(BlockRange(curr), BlockRange(call.block))
  /\ Return
  /\ UNCHANGED <<headers, list, clients>>

LinkBefore(node, here) ==
  /\ next' = [a \in Addr |-> IF a = node THEN here
                             ELSE IF a = prev[here] THEN node ELSE next[a]]
  /\ prev' = [prev EXCEPT ![node] = prev[here], ![here] = node]
  /\ head' = IF prev[here] = Null /\ head = here THEN node ELSE head
  /\ UNCHANGED tail

LinkAfter(node, here) ==
  /\ prev' = [a \in Addr |-> IF a = node THEN here
                             ELSE IF a = next[here] THEN node ELSE prev[a]]
  /\ next' = [next EXCEPT ![node] = next[here], ![here] = node]
  /\ tail' = IF next[here] = Null /\ tail = here THEN node ELSE tail
  /\ UNCHANGED head

InsertLink ==
  /\ pc = "insert_scan"
  /\ ~(call.block > curr /\ next[curr] # Null)
  /\ ~RangesOverlap(BlockRange(curr), BlockRange(call.block))
  /\ \/ call.block < curr /\ LinkBefore(call.block, curr)
     \/ call.block >= curr /\ LinkAfter(call.block, curr)
  /\ listed' = listed \cup {call.block}
  /\ pool' = pool \cup Bytes(call.block, size[call.block])
  /\ Goto("merge_ahead", call.block)
  /\ UNCHANGED <<size, meta, clients>>

-----------------------------------------------------------------------------
(* defragmentate, on behalf of insert_range, deallocate and reallocate.    *)

\* Merges only one block ahead (an if for the while).
MergeAhead_Slip ==
  /\ pc = "merge_ahead"
  /\ Mergeable(curr, next[curr])
  /\ MergeBlocks(curr, next[curr])
  /\ Goto("merge_behind", prev[curr])
  /\ UNCHANGED clients

MergeAhead ==
  /\ pc = "merge_ahead"
  /\ Mergeable(curr, next[curr])
  /\ MergeBlocks(curr, next[curr])
  /\ UNCHANGED <<clients, control>>

MergeAheadDone ==
  /\ pc = "merge_ahead"
  /\ ~Mergeable(curr, next[curr])
  /\ Goto("merge_behind", prev[curr])
  /\ UNCHANGED <<headers, list, clients>>

MergeBehind ==
  /\ pc = "merge_behind"
  /\ Mergeable(curr, next[curr])
  /\ MergeBlocks(curr, next[curr])
  /\ Goto("merge_behind", prev[curr])
  /\ UNCHANGED clients

MergeBehindDone ==
  /\ pc = "merge_behind"
  /\ ~Mergeable(curr, next[curr])
  /\ \/ call.op = "reallocate" /\ Goto("recheck", Null)
     \/ call.op # "reallocate" /\ Return
  /\ UNCHANGED <<headers, list, clients>>

-----------------------------------------------------------------------------
(* allocate, and the scan reallocate falls back on.                        *)

Allocate(n) ==
  /\ pc = "idle"
  /\ Enter("alloc_scan", "allocate", Null, RoundUp(n), n, head)
  /\ UNCHANGED <<headers, list, clients>>

\* Compares the payload with the rounded size, header included.
Fits_Slip(b) == meta[b] # Allocated /\ size[b] + Q >= call.need

Fits(b) == meta[b] # Allocated /\ size[b] >= call.need

\* Skips a block that is too small, stops at one that is taken.
AllocNext_Slip ==
  /\ pc = "alloc_scan"
  /\ curr # Null /\ meta[curr] # Allocated /\ size[curr] < call.need
  /\ Goto("alloc_scan", next[curr])
  /\ UNCHANGED <<headers, list, clients>>

AllocNext ==
  /\ pc = "alloc_scan"
  /\ curr # Null /\ ~Fits(curr)
  /\ Goto("alloc_scan", next[curr])
  /\ UNCHANGED <<headers, list, clients>>

AllocTake ==
  /\ pc = "alloc_scan"
  /\ curr # Null /\ Fits(curr)
  /\ TrySplitBlock(curr, call.need, [meta EXCEPT ![curr] = Allocated])
  /\ \/ /\ call.op = "allocate"
        /\ Hold(curr, call.asked, size'[curr])
        /\ Return
     \/ /\ call.op = "reallocate"
        /\ Goto("copy", curr)
        /\ UNCHANGED clients
  /\ UNCHANGED <<head, pool>>

\* No block is large enough.  A reallocate that has already deallocated its
\* block returns the null pointer too, and that block is gone.
AllocFail ==
  /\ pc = "alloc_scan"
  /\ curr = Null
  /\ Return
  /\ IF call.op = "reallocate" /\ meta[call.block] # Allocated
     THEN Drop(call.block) ELSE UNCHANGED clients
  /\ UNCHANGED <<headers, list>>

-----------------------------------------------------------------------------
(* deallocate and reallocate.                                              *)

Deallocate(b) ==
  /\ pc = "idle"
  /\ meta[b] = Allocated
  /\ meta' = [meta EXCEPT ![b] = Available]
  /\ Drop(b)
  /\ Enter("merge_ahead", "deallocate", b, 0, 0, b)
  /\ UNCHANGED <<size, next, prev, list>>

\* A header that is not of an allocated block: deallocate returns false and
\* reallocate the null pointer.
StalePointer(b) ==
  /\ pc = "idle"
  /\ meta[b] # Allocated
  /\ UNCHANGED vars

ReallocateSame(b, n) ==
  /\ pc = "idle"
  /\ meta[b] = Allocated /\ RoundUp(n) = size[b]
  /\ Hold(b, n, size[b])
  /\ UNCHANGED <<headers, list, control>>

ReallocateShrink(b, n) ==
  /\ pc = "idle"
  /\ meta[b] = Allocated /\ RoundUp(n) < size[b]
  /\ TrySplitBlock(b, RoundUp(n), meta)
  /\ Hold(b, n, size'[b])
  /\ UNCHANGED <<head, pool, control>>

ReallocateGrow(b, n) ==
  /\ pc = "idle"
  /\ meta[b] = Allocated /\ RoundUp(n) > size[b]
  /\ Enter("probe", "reallocate", b, RoundUp(n), n, next[b])
  /\ UNCHANGED <<headers, list, clients>>

Probe ==
  /\ pc = "probe"
  /\ curr # Null /\ meta[curr] = Available
  /\ ahead' = ahead + size[curr]
  /\ curr' = next[curr]
  /\ UNCHANGED <<headers, list, clients, pc, call>>

ProbeDone ==
  /\ pc = "probe"
  /\ ~(curr # Null /\ meta[curr] = Available)
  /\ \/ /\ size[call.block] + ahead >= call.need
        /\ meta' = [meta EXCEPT ![call.block] = Available]
        /\ Goto("merge_ahead", call.block)
     \/ /\ size[call.block] + ahead < call.need
        /\ Goto("alloc_scan", head)
        /\ UNCHANGED meta
  /\ UNCHANGED <<size, next, prev, list, clients>>

Recheck ==
  /\ pc = "recheck"
  /\ \/ /\ call.need <= size[call.block]
        /\ TrySplitBlock(call.block, call.need, [meta EXCEPT ![call.block] = Allocated])
        /\ Hold(call.block, call.asked, size'[call.block])
        /\ Return
     \/ /\ call.need > size[call.block]
        /\ Goto("alloc_scan", head)
        /\ UNCHANGED <<headers, tail, listed, clients>>
  /\ UNCHANGED <<head, pool>>

\* The old block is never deallocated.
Copy_Slip ==
  /\ pc = "copy"
  /\ live' = (live \ {call.block}) \cup {curr}
  /\ span' = [span EXCEPT ![call.block] = 0, ![curr] = size[curr]]
  /\ asked' = [asked EXCEPT ![call.block] = 0, ![curr] = call.asked]
  /\ Return
  /\ UNCHANGED <<headers, list>>

\* The data is copied, the client owns the new block, and the old one is
\* deallocated unless the headroom check has done that already.
Copy ==
  /\ pc = "copy"
  /\ live' = (live \ {call.block}) \cup {curr}
  /\ span' = [span EXCEPT ![call.block] = 0, ![curr] = size[curr]]
  /\ asked' = [asked EXCEPT ![call.block] = 0, ![curr] = call.asked]
  /\ \/ /\ meta[call.block] = Allocated
        /\ meta' = [meta EXCEPT ![call.block] = Available]
        /\ Enter("merge_ahead", "deallocate", call.block, 0, 0, call.block)
     \/ /\ meta[call.block] # Allocated
        /\ Return
        /\ UNCHANGED meta
  /\ UNCHANGED <<size, next, prev, list>>

-----------------------------------------------------------------------------
Init ==
  /\ head = Null /\ tail = Null
  /\ size = [a \in Addr |-> 0]
  /\ meta = [a \in Addr |-> Invalid]
  /\ next = [a \in Addr |-> Null]
  /\ prev = [a \in Addr |-> Null]
  /\ pc = "idle" /\ call = NoCall /\ curr = Null /\ ahead = 0
  /\ listed = {} /\ pool = {} /\ live = {}
  /\ span = [a \in Addr |-> 0]
  /\ asked = [a \in Addr |-> 0]

\* A client calls reallocate to grow a block only while the block before it
\* is not a free neighbour (see GrownBlockKeepsItsHeader).
GrowsAlone(b) == ~(prev[b] # Null /\ meta[prev[b]] = Available /\ Adjacent(prev[b], b))

Insert(r) ==
  RangeIsNew(r) /\ (InsertNothing(r) \/ InsertFirst(r) \/ InsertBegin(r))

CallInProgress ==
  \/ InsertScan \/ InsertOverlap \/ InsertLink
  \/ MergeAhead \/ MergeAheadDone \/ MergeBehind \/ MergeBehindDone
  \/ AllocNext \/ AllocTake \/ AllocFail
  \/ Probe \/ ProbeDone \/ Recheck \/ Copy

Next ==
  \/ \E r \in Ranges : Insert(r)
  \/ \E n \in Requests : Allocate(n)
  \/ \E b \in Addr : meta[b] # Invalid /\ (Deallocate(b) \/ StalePointer(b))
  \/ \E b \in Addr, n \in Requests :
       \/ ReallocateSame(b, n)
       \/ ReallocateShrink(b, n)
       \/ GrowsAlone(b) /\ ReallocateGrow(b, n)
  \/ CallInProgress

\* Every call the interface allows, the ones Next leaves out included.
NextAnyClient ==
  Next \/ \E b \in Addr, n \in Requests : ReallocateGrow(b, n)

Spec == Init /\ [][Next]_vars

\* A call, once made, is executed by its caller until it returns.
FairSpec == Spec /\ WF_vars(CallInProgress)

SpecAnyClient == Init /\ [][NextAnyClient]_vars

-----------------------------------------------------------------------------
(* What must hold.                                                         *)

Loops == {"idle", "insert_scan", "merge_ahead", "merge_behind", "alloc_scan",
          "probe", "recheck", "copy"}
Ops   == {"none", "insert", "allocate", "deallocate", "reallocate"}
Link  == Addr \cup {Null}

\* Links point into memory and sizes are numbers, in every header ever written.
TypeOK ==
  /\ head \in Link /\ tail \in Link
  /\ size \in [Addr -> Nat]
  /\ meta \in [Addr -> {Available, Allocated, Invalid}]
  /\ next \in [Addr -> Link] /\ prev \in [Addr -> Link]
  /\ pc \in Loops
  /\ call \in [op : Ops, block : Link, need : Nat, asked : Nat]
  /\ curr \in Link /\ ahead \in Nat
  /\ listed \subseteq Addr /\ live \subseteq Addr /\ pool \subseteq Addr
  /\ span \in [Addr -> Nat] /\ asked \in [Addr -> Nat]

\* The blocks from head to tail are in address order, linked both ways, large
\* enough for their headers, inside memory, and no two of them share a byte.
Extents ==
  \A b \in listed :
    /\ size[b] >= Q /\ b + size[b] <= Top + 1
    /\ meta[b] \in {Available, Allocated}
    /\ \A c \in listed : b < c => b + size[b] <= c

\* Headers, and so the payloads behind them, stay aligned to the header size:
\* the pmr resources promise their users that alignment.
WholeBlocks == \A b \in listed : Whole(b) /\ Whole(size[b])

\* The block after b, and the one before it, of a set of blocks.
IsNext(blocks, b, after) ==
  IF after = Null THEN \A c \in blocks : c <= b
  ELSE after \in blocks /\ b < after /\ \A c \in blocks : c <= b \/ after <= c

IsPrev(blocks, b, before) ==
  IF before = Null THEN \A c \in blocks : b <= c
  ELSE before \in blocks /\ before < b /\ \A c \in blocks : b <= c \/ c <= before

NextIsSuccessor   == \A b \in listed : IsNext(listed, b, next[b])
PrevIsPredecessor == \A b \in listed : IsPrev(listed, b, prev[b])

Ends ==
  IF listed = {} THEN head = Null /\ tail = Null
  ELSE /\ head \in listed /\ \A c \in listed : head <= c
       /\ tail \in listed /\ \A c \in listed : c <= tail

\* Every loop of the allocator, at every iteration, leaves a well formed list
\* (the loops of insert_range and defragmentate relink it while they run).
ListIntegrity == Extents /\ WholeBlocks /\ NextIsSuccessor /\ PrevIsPredecessor /\ Ends

\* Between the headroom check that deallocates the block and the decision
\* what to do about it, the block reallocate works on is marked free.
Reallocating(b) == call.op = "reallocate" /\ call.block = b

\* A block a client holds is a block of the list, large enough for what was
\* asked, marked allocated and of the size it was given; or it is being
\* reallocated, marked free, and no smaller.  With ListIntegrity: no two
\* clients share a byte.
LiveBlocksKept ==
  \A b \in live :
    /\ b \in listed
    /\ span[b] >= asked[b] + Q
    /\ \/ meta[b] = Allocated /\ size[b] = span[b]
       \/ Reallocating(b) /\ meta[b] = Available /\ size[b] >= span[b]

\* Only what a client holds (or is about to be given) carries the allocated
\* mark, wherever in memory old headers are left: freeing a block twice, or
\* through a pointer to a block merged away since, is refused.
OnlyLiveIsAllocated ==
  \A a \in Addr : meta[a] = Allocated => a \in live \/ (pc = "copy" /\ a = curr)

\* reallocate copies the old block's whole size: it stays in the new block.
CopyFits == pc = "copy" => size[call.block] + Q <= size[curr]

\* What each loop relies on, and with it the inductive invariant.  A range
\* being inserted is not in the list, does not start inside it, and lies
\* behind every block the scan has passed.
InsertInv ==
  pc = "insert_scan" =>
    /\ call.op = "insert" /\ call.block \in Addr \ listed
    /\ Whole(call.block) /\ Whole(size[call.block])
    /\ size[call.block] >= Q /\ call.block + size[call.block] <= Top + 1
    /\ meta[call.block] = Available
    /\ \A b \in listed : call.block \notin Bytes(b, size[b])
    /\ curr \in listed /\ \A c \in listed : c < curr => c < call.block

MergeInv ==
  /\ pc = "merge_ahead" => curr \in listed /\ curr = call.block
  /\ pc = "merge_behind" => curr \in listed \cup {Null}
  /\ pc \in {"merge_ahead", "merge_behind"} =>
       call.op \in {"insert", "deallocate", "reallocate"}

ScanInv ==
  /\ pc = "alloc_scan" => call.op \in {"allocate", "reallocate"} /\ curr \in listed \cup {Null}
  /\ call.op \in {"allocate", "reallocate"} =>
       /\ pc \notin {"idle", "insert_scan"}
       /\ call.need >= call.asked + Q /\ Whole(call.need)

\* A block being reallocated is marked free from the headroom check to the
\* recheck, and it is the block before the run of free blocks it is merged
\* with: nothing is merged into a block in front of it.
GrowInv ==
  /\ pc \in {"probe", "recheck", "copy"} => call.op = "reallocate"
  /\ call.op = "reallocate" =>
       /\ call.block \in live
       /\ pc \in {"probe", "merge_ahead", "merge_behind"} => GrowsAlone(call.block)
       /\ pc = "probe" => meta[call.block] = Allocated /\ curr \in listed \cup {Null}
       /\ pc \in {"merge_ahead", "merge_behind", "recheck"} => meta[call.block] = Available
       /\ pc = "merge_behind" => curr = prev[call.block]
       /\ pc \in {"probe", "alloc_scan", "copy"} => size[call.block] < call.need
       /\ pc = "copy" => /\ curr \in listed \ live /\ meta[curr] = Allocated
                         /\ size[curr] >= call.need

CallInv == InsertInv /\ MergeInv /\ ScanInv /\ GrowInv

IInv == TypeOK /\ ListIntegrity /\ LiveBlocksKept /\ OnlyLiveIsAllocated /\ CallInv

\* No byte of the inserted ranges is lost: the blocks always tile the pool.
PoolTiled == UNION {Bytes(b, size[b]) : b \in listed} = pool

\* No header is written inside the data of a block a client keeps.
HeaderWritten(a) ==
  \/ size'[a] # size[a] \/ meta'[a] # meta[a]
  \/ next'[a] # next[a] \/ prev'[a] # prev[a]

NoStomp ==
  [][\A a \in Addr, b \in live \cap live' :
       HeaderWritten(a) => ~(b < a /\ a < b + span[b] /\ a < b + span'[b])]_vars

\* When a deallocate or an insert_range returns, the free block it leaves
\* behind has no free neighbour.
MergedBlock == IF curr = Null THEN head ELSE next[curr]

MergedOnReturn ==
  [][(pc = "merge_behind" /\ pc' = "idle") =>
       ~Mergeable(MergedBlock, next[MergedBlock]) /\ ~Mergeable(curr, MergedBlock)]_vars

\* Every call returns: no loop of the allocator runs for ever.
CallReturns == pc # "idle" ~> pc = "idle"

\* block_list.cpp, in reallocate: "Try deallocate the node, and that should
\* merge nodes ahead while not stomping on this node".
GrownBlockKeepsItsHeader == pc = "recheck" => call.block \in listed

\* A block survives everything but its own deallocate and a move: a
\* reallocate that returns the null pointer leaves it to the client.
FailedGrowthKeepsBlock ==
  [][(pc = "alloc_scan" /\ pc' = "idle") => live \subseteq live']_vars
=============================================================================
