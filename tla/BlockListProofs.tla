-------------------------- MODULE BlockListProofs ---------------------------
(***************************************************************************)
(* The block list keeps its list well formed inside every loop and never   *)
(* touches what a client holds, loses no byte it was given, merges what it *)
(* frees, and implements the abstract heap of HeapSpec, for every memory,  *)
(* header size and set of ranges and requests that BlockListAssumption     *)
(* admits.                                                                 *)
(*                                                                         *)
(* The inductive invariant is IInv of BlockList: what is claimed, and what *)
(* each loop relies on.  One lemma per group of actions shows that it is   *)
(* preserved; before them come arithmetic on whole numbers of blocks, the  *)
(* order of a doubly linked list, and that splitting, merging and linking  *)
(* blocks keep the list well formed.                                       *)
(***************************************************************************)
EXTENDS BlockListRefinement, TLAPS

Status == {Available, Allocated, Invalid}

-----------------------------------------------------------------------------
(* Arithmetic.                                                             *)

LEMMA QPositive == Q \in Nat \ {0}
BY BlockListAssumption

LEMMA QFacts == Q \in Nat /\ Q > 0 /\ Threshold = 2 * Q /\ Threshold \in Nat
BY BlockListAssumption DEF Threshold

\* The header size divides every multiple of itself.
LEMMA MultipleIsWhole == ASSUME NEW k \in Int PROVE Whole(k * Q)
BY QFacts DEF Whole

LEMMA QuotientOfWhole == ASSUME NEW a \in Int, Whole(a) PROVE a \div Q \in Int /\ a = (a \div Q) * Q
BY QFacts DEF Whole

\* Sums and differences of whole numbers of blocks are whole.
LEMMA WholeSum ==
  ASSUME NEW a \in Int, NEW b \in Int, Whole(a), Whole(b)
  PROVE  Whole(a + b) /\ Whole(a - b)
<1> DEFINE i == a \div Q  j == b \div Q
<1>1. i \in Int /\ j \in Int /\ a = i * Q /\ b = j * Q
  BY QuotientOfWhole
<1> HIDE DEF i, j
<1>2. a + b = (i + j) * Q /\ a - b = (i - j) * Q /\ i + j \in Int /\ i - j \in Int
  BY <1>1, QFacts
<1>3. QED
  BY <1>2, MultipleIsWhole

\* Two whole numbers of blocks that differ, differ by a block.
LEMMA WholeGap ==
  ASSUME NEW a \in Int, NEW b \in Int, Whole(a), Whole(b), a > b
  PROVE  a >= b + Q
BY QPositive DEF Whole

\* What rounding up a request gives: whole blocks, a header more than asked.
LEMMA RoundUpFacts ==
  ASSUME NEW n \in Requests
  PROVE  /\ n \in Nat /\ RoundUp(n) \in Nat
         /\ RoundUp(n) >= n + Q /\ Whole(RoundUp(n))
<1> DEFINE a == n + Q - 1
           d == (a \div Q) * Q
<1>1. a \in Nat /\ a < WordSize /\ n \in Nat /\ WordSize \in Nat /\ n + 2 * Q <= WordSize
  BY BlockListAssumption, QFacts
<1>2. a % WordSize = a
  BY <1>1
<1>3. d \in Int /\ d > a - Q /\ d <= a /\ a \div Q \in Int
  BY <1>1, QFacts
<1>4. Whole(d)
  BY <1>3, MultipleIsWhole
<1> HIDE DEF d
<1>5. d + Q \in Nat /\ d + Q < WordSize
  BY <1>1, <1>3, QFacts
<1>6. (d + Q) % WordSize = d + Q
  BY <1>1, <1>5
<1>7. RoundUp(n) = d + Q
  BY <1>2, <1>6 DEF RoundUp, d
<1>8. Whole(d + Q)
  <2>1. Whole(Q)
    BY QFacts DEF Whole
  <2>2. QED
    BY <1>3, <1>4, <2>1, WholeSum, QFacts
<1>9. QED
  BY <1>1, <1>3, <1>5, <1>7, <1>8, QFacts

\* The next block boundary.
LEMMA NextBoundary ==
  ASSUME NEW a \in Nat
  PROVE  /\ (Q - (a % Q)) % Q \in 0..(Q-1)
         /\ Whole(a + ((Q - (a % Q)) % Q))
<1>1. a % Q \in 0..(Q-1)
  BY QPositive
<1>2. (Q - (a % Q)) % Q \in 0..(Q-1)
  BY <1>1, QPositive
<1>3. Whole(a + ((Q - (a % Q)) % Q))
  BY QPositive DEF Whole
<1>4. QED
  BY <1>2, <1>3

\* An aligned range starts and ends on a block boundary, inside memory.
LEMMA AlignRangeFacts ==
  ASSUME NEW r \in Ranges, AlignRange(r).size >= Threshold
  PROVE  LET a == AlignRange(r) IN
         /\ a.data \in Nat /\ a.size \in Nat
         /\ Whole(a.data) /\ Whole(a.size)
         /\ a.data + a.size <= Top + 1
<1> DEFINE offset == (Q - (r.data % Q)) % Q
<1>1. r.data \in Nat /\ r.size \in Nat /\ r.data + r.size <= Top + 1 /\ Whole(r.data + r.size)
  BY BlockListAssumption DEF Whole
<1>3. offset \in 0..(Q-1) /\ Whole(r.data + offset)
  BY <1>1, NextBoundary
<1> HIDE DEF offset
<1>4. AlignRange(r) = IF offset >= r.size THEN [data |-> r.data, size |-> 0]
                      ELSE [data |-> r.data + offset, size |-> r.size - offset]
  BY DEF AlignRange, offset
<1>5. ~(offset >= r.size)
  BY <1>4, QFacts
<1>6. r.size - offset = (r.data + r.size) - (r.data + offset)
  BY <1>1, <1>3, QFacts
<1>7. Whole((r.data + r.size) - (r.data + offset))
  <2> DEFINE x == r.data + r.size  y == r.data + offset
  <2>1. x \in Int /\ y \in Int /\ Whole(x) /\ Whole(y)
    BY <1>1, <1>3, QFacts
  <2> HIDE DEF x, y
  <2>2. Whole(x - y)
    BY <2>1, WholeSum
  <2>3. QED
    BY <2>2 DEF x, y
<1>8. QED
  BY <1>1, <1>3, <1>4, <1>5, <1>6, <1>7, QFacts

-----------------------------------------------------------------------------
(* What the links of an ordered list are worth when a block is put in      *)
(* behind b (b is Null: in front of all), or the one behind b taken out.   *)

LEMMA OrderAfterInsert ==
  ASSUME NEW S \in SUBSET (Nat \ {Null}), NEW r \in Nat, NEW T, T = S \cup {r},
         NEW b \in Nat, b \in S \/ b = Null,
         b < r, \A c \in S : c <= b \/ r < c,
         NEW after \in Nat, IsNext(S, b, after)
  PROVE  /\ IsNext(T, r, after)
         /\ b \in S => IsNext(T, b, r)
         /\ IsPrev(T, r, b)
         /\ after # Null => IsPrev(T, after, r)
<1>1. IsNext(T, r, after)
  BY DEF IsNext, Null
<1>2. b \in S => IsNext(T, b, r)
  BY DEF IsNext, Null
<1>3. IsPrev(T, r, b)
  BY DEF IsPrev, Null
<1>4. after # Null => IsPrev(T, after, r)
  BY DEF IsNext, IsPrev, Null
<1>5. QED
  BY <1>1, <1>2, <1>3, <1>4

LEMMA NextAfterInsert ==
  ASSUME NEW S \in SUBSET (Nat \ {Null}), NEW r \in Nat, NEW T, T = S \cup {r},
         NEW b \in Nat, b \in S \/ b = Null,
         b < r, \A c \in S : c <= b \/ r < c,
         NEW c \in Nat, c \in S, c # b, NEW after \in Nat, IsNext(S, c, after)
  PROVE  IsNext(T, c, after)
<1>1. CASE after = Null
  BY <1>1 DEF IsNext, Null
<1>2. CASE after # Null
  <2>1. after \in S /\ c < after /\ \A d \in S : d <= c \/ after <= d
    BY <1>2 DEF IsNext
  <2>2. r <= c \/ after <= r
    BY <2>1 DEF Null
  <2>3. QED
    BY <1>2, <2>1, <2>2 DEF IsNext
<1>3. QED
  BY <1>1, <1>2

LEMMA PrevAfterInsert ==
  ASSUME NEW S \in SUBSET (Nat \ {Null}), NEW r \in Nat, NEW T, T = S \cup {r},
         NEW b \in Nat, b \in S \/ b = Null,
         b < r, \A c \in S : c <= b \/ r < c,
         NEW after \in Nat, IsNext(S, b, after),
         NEW c \in Nat, c \in S, c # after, NEW before \in Nat, IsPrev(S, c, before)
  PROVE  IsPrev(T, c, before)
<1>1. c <= b \/ (after # Null /\ after \in S /\ after < c /\ b < after)
  BY DEF IsNext
<1>2. CASE before = Null
  BY <1>1, <1>2 DEF IsPrev, Null
<1>3. CASE before # Null
  <2>1. before \in S /\ before < c /\ \A d \in S : c <= d \/ d <= before
    BY <1>3 DEF IsPrev
  <2>2. c <= r \/ r <= before
    BY <1>1, <2>1
  <2>3. QED
    BY <1>3, <2>1, <2>2 DEF IsPrev
<1>4. QED
  BY <1>2, <1>3

LEMMA OrderAfterRemove ==
  ASSUME NEW S \in SUBSET (Nat \ {Null}), NEW u \in Nat, NEW T, T = S \ {u},
         NEW b \in Nat, b \in S, u \in S, IsNext(S, b, u),
         NEW after \in Nat, IsNext(S, u, after),
         NEW c \in Nat, c \in S, c # u, NEW nc \in Nat, NEW before \in Nat
  PROVE  /\ IsNext(T, b, after)
         /\ after # Null => IsPrev(T, after, b)
         /\ IsNext(S, c, nc) /\ c # b => IsNext(T, c, nc)
         /\ IsPrev(S, c, before) /\ c # after => IsPrev(T, c, before)
<1>0. u # Null /\ b < u /\ \A d \in S : d <= b \/ u <= d
  BY DEF IsNext
<1>1. IsNext(T, b, after)
  BY <1>0 DEF IsNext
<1>2. after # Null => IsPrev(T, after, b)
  BY <1>0 DEF IsNext, IsPrev, Null
<1>3. ASSUME IsNext(S, c, nc), c # b PROVE IsNext(T, c, nc)
  BY <1>0, <1>3 DEF IsNext
<1>4. ASSUME IsPrev(S, c, before), c # after PROVE IsPrev(T, c, before)
  BY <1>0, <1>4 DEF IsNext, IsPrev
<1>5. QED
  BY <1>1, <1>2, <1>3, <1>4

-----------------------------------------------------------------------------
(* Splitting, merging and linking keep the list well formed.               *)

\* The blocks of the list as numbers: where they are, how large, in what order.
LEMMA ListFacts ==
  ASSUME TypeOK, ListIntegrity
  PROVE  /\ Top \in Nat
         /\ listed \in SUBSET Addr /\ listed \in SUBSET (Nat \ {Null})
         /\ \A c \in listed :
              /\ size[c] \in Nat /\ next[c] \in Nat /\ prev[c] \in Nat
              /\ size[c] >= Q /\ c + size[c] <= Top + 1
              /\ Whole(c) /\ Whole(size[c]) /\ meta[c] \in {Available, Allocated}
              /\ IsNext(listed, c, next[c]) /\ IsPrev(listed, c, prev[c])
         /\ \A c, d \in listed : c < d => c + size[c] <= d
<1>1. /\ listed \subseteq Addr /\ size \in [Addr -> Nat] /\ Top \in Nat
      /\ next \in [Addr -> Link] /\ prev \in [Addr -> Link]
  BY BlockListAssumption DEF TypeOK
<1>2. Addr \subseteq Nat \ {Null} /\ Link \subseteq Nat
  BY <1>1 DEF Addr, Link, Null
<1>3. \A c \in listed : size[c] \in Nat /\ next[c] \in Nat /\ prev[c] \in Nat
  BY <1>1, <1>2
<1>4. QED
  BY <1>1, <1>2, <1>3
     DEF ListIntegrity, Extents, WholeBlocks, NextIsSuccessor, PrevIsPredecessor

\* Splitting a block of the list at a whole number of blocks, or leaving it
\* whole, changes nothing about the other blocks.
LEMMA SplitKeepsList ==
  ASSUME TypeOK, ListIntegrity,
         NEW b \in listed, NEW n \in Nat, n >= Q, Whole(n), n <= size[b],
         NEW m \in [Addr -> Status],
         \A c \in listed : m[c] \in {Available, Allocated},
         TrySplitBlock(b, n, m), head' = head
  PROVE  /\ ListIntegrity'
         /\ tail' \in Link /\ size' \in [Addr -> Nat] /\ meta' \in [Addr -> Status]
         /\ next' \in [Addr -> Link] /\ prev' \in [Addr -> Link]
         /\ listed' \subseteq Addr /\ listed \subseteq listed'
         /\ \A c \in listed : meta'[c] = m[c] /\ (c # b => size'[c] = size[c])
         /\ size'[b] >= n /\ size'[b] <= size[b]
         /\ \A a \in Addr : meta'[a] \in {m[a], Available}
<1> DEFINE rest == b + n  left == size[b] - n  after == next[b]
<1>1. CASE size[b] - n < Threshold
  <2>1. UNCHANGED <<size, next, prev, tail, listed>> /\ meta' = m
    BY <1>1, QFacts, ListFacts DEF TrySplitBlock
  <2>2. Extents'
    BY <2>1 DEF ListIntegrity, Extents
  <2>3. WholeBlocks' /\ NextIsSuccessor' /\ PrevIsPredecessor' /\ Ends'
    BY <2>1 DEF ListIntegrity, WholeBlocks, NextIsSuccessor, PrevIsPredecessor, Ends
  <2>4. /\ tail' \in Link /\ size' \in [Addr -> Nat] /\ meta' \in [Addr -> Status]
        /\ next' \in [Addr -> Link] /\ prev' \in [Addr -> Link] /\ listed' \subseteq Addr
    BY <2>1 DEF TypeOK
  <2>5. QED
    BY <2>1, <2>2, <2>3, <2>4, ListFacts DEF ListIntegrity
<1>2. CASE size[b] - n >= Threshold
  <2>0. /\ b \in Nat /\ b # Null /\ size[b] \in Nat /\ b + size[b] <= Top + 1
        /\ listed \in SUBSET (Nat \ {Null}) /\ after \in Nat /\ IsNext(listed, b, after)
        /\ Top \in Nat /\ Q \in Nat /\ Q > 0 /\ Threshold = 2 * Q
    BY QFacts, ListFacts
  <2>1. /\ size' = [size EXCEPT ![rest] = left, ![b] = n]
        /\ next' = [next EXCEPT ![rest] = after, ![b] = rest]
        /\ prev' = [a \in Addr |-> IF a = rest THEN b
                                   ELSE IF a = after THEN rest ELSE prev[a]]
        /\ meta' = [m EXCEPT ![rest] = Available]
        /\ tail' = IF tail = b THEN rest ELSE tail
        /\ listed' = listed \cup {rest}
    BY <1>2, <2>0 DEF TrySplitBlock
  <2>2. /\ rest \in Addr /\ rest \in Nat /\ left \in Nat /\ rest # Null /\ b < rest
        /\ b + n <= rest /\ rest + left = b + size[b] /\ left >= Q
        /\ rest + left <= Top + 1
    BY <1>2, <2>0 DEF Addr, Null
  <2>3. Whole(rest) /\ Whole(left)
    <3> DEFINE sb == size[b]
    <3>1. sb \in Int /\ b \in Int /\ n \in Int /\ Whole(sb) /\ Whole(b)
      BY <2>0, ListFacts
    <3> HIDE DEF sb
    <3>2. Whole(b + n) /\ Whole(sb - n)
      BY <3>1, WholeSum
    <3>3. QED
      BY <3>2 DEF sb
  <2> HIDE DEF rest, left, after
  <2>4. /\ \A c \in listed : b < c => rest + left <= c
        /\ \A c \in listed : c <= b \/ rest < c
        /\ rest \notin listed
    <3>1. \A c \in listed : b < c => rest + left <= c
      BY <2>2, ListFacts
    <3>2. \A c \in listed : c <= b \/ rest < c
      BY <3>1, <2>0, <2>2
    <3>3. QED
      BY <3>1, <3>2, <2>0, <2>2
  <2>5. /\ size' \in [Addr -> Nat] /\ meta' \in [Addr -> Status]
        /\ next' \in [Addr -> Link] /\ prev' \in [Addr -> Link] /\ tail' \in Link
        /\ listed' \subseteq Addr
    <3>1. b \in Addr /\ after \in Link
      BY ListFacts DEF TypeOK, after
    <3>2. QED
      BY <2>1, <2>2, <3>1 DEF TypeOK, Status, Link
  <2>6. /\ size'[rest] = left /\ size'[b] = n
        /\ \A c \in listed : c # b => size'[c] = size[c]
        /\ meta'[rest] = Available /\ \A c \in listed : meta'[c] = m[c]
        /\ next'[rest] = after /\ next'[b] = rest
        /\ \A c \in listed : c # b => next'[c] = next[c]
        /\ prev'[rest] = b
        /\ \A c \in listed : c = after => prev'[c] = rest
        /\ \A c \in listed : c # after => prev'[c] = prev[c]
        /\ listed' = listed \cup {rest} /\ b \in listed'
    BY <2>1, <2>2, <2>4 DEF TypeOK
  <2>6a. listed' = listed \cup {rest}
    BY <2>6
  <2>7. Extents'
    <3> SUFFICES ASSUME NEW c \in listed'
                 PROVE  /\ size'[c] >= Q /\ c + size'[c] <= Top + 1
                        /\ meta'[c] \in {Available, Allocated}
                        /\ \A d \in listed' : c < d => c + size'[c] <= d
      BY DEF Extents
    <3>0. \A d \in listed :
            /\ rest < d => rest + left <= d
            /\ b < d => b + n <= d
      BY <2>0, <2>2, <2>4
    <3>1. CASE c = rest
      <4>1. \A d \in listed' : rest < d => rest + left <= d
        BY <3>0, <2>2, <2>6a
      <4>2. QED
        BY <3>1, <4>1, <2>2, <2>6
    <3>2. CASE c = b
      <4>1. b + n <= Top + 1
        BY <2>0, <2>2
      <4>2. \A d \in listed' : b < d => b + n <= d
        BY <3>0, <2>2, <2>6a
      <4>3. QED
        BY <3>2, <4>1, <4>2, <2>6
    <3>3. CASE c \in listed /\ c # b
      <4> DEFINE s == size[c]
      <4>1. /\ c \in Nat /\ s \in Nat /\ size'[c] = s /\ s >= Q /\ c + s <= Top + 1
            /\ meta'[c] \in {Available, Allocated}
            /\ \A d \in listed : c < d => c + s <= d
        BY <3>3, <2>6, ListFacts
      <4> HIDE DEF s
      <4>2. c < rest => c + s <= rest
        BY <4>1, <3>3, <2>0, <2>2, <2>4
      <4>3. QED
        BY <4>1, <4>2, <2>6
    <3>4. QED
      BY <3>1, <3>2, <3>3, <2>6
  <2>8. WholeBlocks'
    BY <2>3, <2>6, ListFacts DEF WholeBlocks
  <2>9. /\ IsNext(listed', rest, after) /\ IsNext(listed', b, rest)
        /\ IsPrev(listed', rest, b)
        /\ after # Null => IsPrev(listed', after, rest)
    BY <2>0, <2>2, <2>4, <2>6a, OrderAfterInsert
  <2>10. \A c \in listed :
           /\ c # b => IsNext(listed', c, next[c])
           /\ c # after => IsPrev(listed', c, prev[c])
    <3> SUFFICES ASSUME NEW c \in listed
                 PROVE  /\ c # b => IsNext(listed', c, next[c])
                        /\ c # after => IsPrev(listed', c, prev[c])
      OBVIOUS
    <3> DEFINE nc == next[c]  before == prev[c]
    <3>1. /\ c \in Nat /\ nc \in Nat /\ before \in Nat
          /\ IsNext(listed, c, nc) /\ IsPrev(listed, c, before)
      BY ListFacts
    <3> HIDE DEF nc, before
    <3>2. c # b => IsNext(listed', c, nc)
      BY <3>1, <2>0, <2>2, <2>4, <2>6a, NextAfterInsert
    <3>3. c # after => IsPrev(listed', c, before)
      BY <3>1, <2>0, <2>2, <2>4, <2>6a, PrevAfterInsert
    <3>4. QED
      BY <3>2, <3>3 DEF nc, before
  <2>11. NextIsSuccessor'
    BY <2>6, <2>9, <2>10 DEF NextIsSuccessor
  <2>12. PrevIsPredecessor'
    <3> SUFFICES ASSUME NEW c \in listed' PROVE IsPrev(listed', c, prev'[c])
      BY DEF PrevIsPredecessor
    <3>1. CASE c = rest
      BY <3>1, <2>6, <2>9
    <3>2. CASE c \in listed /\ c = after
      BY <3>2, <2>0, <2>6, <2>9
    <3>3. CASE c \in listed /\ c # after
      BY <3>3, <2>6, <2>10
    <3>4. QED
      BY <3>1, <3>2, <3>3, <2>6a
  <2>13. Ends'
    <3>1. head \in listed /\ tail \in listed /\ \A c \in listed : head <= c /\ c <= tail
      BY DEF ListIntegrity, Ends
    <3>2. head \in Nat /\ tail \in Nat /\ head <= rest
      BY <3>1, <2>0, <2>2
    <3>3. head' \in listed' /\ \A c \in listed' : head' <= c
      BY <3>1, <3>2, <2>6
    <3>4. CASE tail = b
      <4>1. tail' = rest /\ \A c \in listed : c <= rest
        BY <3>1, <3>4, <2>0, <2>1, <2>2
      <4>2. QED
        BY <3>3, <4>1, <2>2, <2>6 DEF Ends
    <3>5. CASE tail # b
      <4>1. tail' = tail /\ rest <= tail
        BY <3>1, <3>2, <3>5, <2>0, <2>1, <2>2, <2>4
      <4>2. QED
        BY <3>1, <3>3, <4>1, <2>6 DEF Ends
    <3>6. QED
      BY <3>4, <3>5
  <2>14. /\ listed \subseteq listed' /\ \A c \in listed : meta'[c] = m[c] /\ (c # b => size'[c] = size[c])
         /\ size'[b] >= n /\ size'[b] <= size[b]
    BY <2>0, <2>6
  <2>15. \A a \in Addr : meta'[a] \in {m[a], Available}
    BY <2>1
  <2>16. QED
    BY <2>5, <2>7, <2>8, <2>11, <2>12, <2>13, <2>14, <2>15 DEF ListIntegrity
<1>3. QED
  BY <1>1, <1>2, QFacts, ListFacts

\* Merging a block with the one behind it.
LEMMA MergeKeepsList ==
  ASSUME TypeOK, ListIntegrity,
         NEW b \in listed, next[b] # Null, MergeBlocks(b, next[b])
  PROVE  /\ ListIntegrity'
         /\ tail' \in Link /\ size' \in [Addr -> Nat] /\ prev' \in [Addr -> Link]
         /\ next' \in [Addr -> Link]
         /\ next[b] \in listed /\ next[b] # b /\ listed' = listed \ {next[b]}
         /\ size'[b] >= size[b] /\ \A c \in listed : c # b => size'[c] = size[c]
<1> DEFINE u == next[b]  sb == size[b]  su == size[u]  after == next[u]
<1>1. /\ u \in listed /\ u \in Nat /\ b \in Nat /\ u # Null /\ b < u /\ u # b
      /\ listed \in SUBSET (Nat \ {Null}) /\ IsNext(listed, b, u)
  <2>1. b \in Nat /\ u \in Nat /\ listed \in SUBSET (Nat \ {Null}) /\ IsNext(listed, b, u)
    BY ListFacts
  <2>2. QED
    BY <2>1 DEF IsNext
<1>2. /\ sb \in Nat /\ su \in Nat /\ after \in Nat /\ Top \in Nat /\ Q \in Nat
      /\ sb >= Q /\ su >= Q /\ u + su <= Top + 1 /\ b + sb <= u
      /\ Whole(sb) /\ Whole(su) /\ IsNext(listed, u, after)
  BY <1>1, ListFacts, QFacts
<1>3. /\ size' = [size EXCEPT ![b] = sb + su]
      /\ next' = [next EXCEPT ![b] = after]
      /\ prev' = [a \in Addr |-> IF a = after THEN b ELSE prev[a]]
      /\ tail' = IF tail = u THEN b ELSE tail
      /\ listed' = listed \ {u}
      /\ meta' = meta /\ head' = head
  BY ListFacts DEF MergeBlocks, TypeOK
<1>4. b \in Addr /\ after \in Link
  BY <1>1, ListFacts DEF TypeOK
<1> HIDE DEF u, sb, su, after
<1>5. /\ tail' \in Link /\ size' \in [Addr -> Nat] /\ prev' \in [Addr -> Link]
      /\ next' \in [Addr -> Link]
  <2>1. sb + su \in Nat
    BY <1>2
  <2>2. QED
    BY <2>1, <1>3, <1>4 DEF TypeOK, Link
<1>6. /\ size'[b] = sb + su /\ \A c \in listed : c # b => size'[c] = size[c]
      /\ next'[b] = after /\ \A c \in listed : c # b => next'[c] = next[c]
      /\ \A c \in listed : c = after => prev'[c] = b
      /\ \A c \in listed : c # after => prev'[c] = prev[c]
  BY <1>3, ListFacts DEF TypeOK
<1>7. listed' = listed \ {u} /\ b \in listed'
  BY <1>1, <1>3
<1>8. Extents'
  <2> SUFFICES ASSUME NEW c \in listed'
               PROVE  /\ size'[c] >= Q /\ c + size'[c] <= Top + 1
                      /\ meta'[c] \in {Available, Allocated}
                      /\ \A d \in listed' : c < d => c + size'[c] <= d
    BY DEF Extents
  <2>1. CASE c = b
    <3>1. sb + su >= Q /\ b + (sb + su) <= Top + 1
      BY <1>1, <1>2
    <3>2. \A d \in listed : u < d => u + su <= d
      BY <1>1, ListFacts DEF su
    <3>3. \A d \in listed : d <= b \/ u <= d
      BY <1>1 DEF IsNext
    <3>4. \A d \in listed : b < d /\ d # u => b + (sb + su) <= d
      BY <1>1, <1>2, <3>2, <3>3
    <3>5. meta'[b] \in {Available, Allocated}
      BY <1>3, ListFacts
    <3>6. QED
      BY <2>1, <1>6, <1>7, <3>1, <3>4, <3>5
  <2>2. CASE c # b
    <3>1. c \in listed /\ size'[c] = size[c] /\ meta'[c] = meta[c]
      BY <2>2, <1>3, <1>6, <1>7
    <3>2. \A d \in listed' : d \in listed
      BY <1>7
    <3>3. QED
      BY <3>1, <3>2, ListFacts
  <2>3. QED
    BY <2>1, <2>2
<1>9. WholeBlocks'
  <2>1. Whole(sb + su)
    BY <1>2, WholeSum
  <2>2. QED
    BY <2>1, <1>6, <1>7, ListFacts DEF WholeBlocks
<1>10. \A c \in listed' :
         /\ c = b => IsNext(listed', c, after)
         /\ c = after => IsPrev(listed', c, b)
         /\ c # b => IsNext(listed', c, next[c])
         /\ c # after => IsPrev(listed', c, prev[c])
  <2> SUFFICES ASSUME NEW c \in listed'
               PROVE  /\ c = b => IsNext(listed', c, after)
                      /\ c = after => IsPrev(listed', c, b)
                      /\ c # b => IsNext(listed', c, next[c])
                      /\ c # after => IsPrev(listed', c, prev[c])
    OBVIOUS
  <2> DEFINE nc == next[c]  before == prev[c]
  <2>1. /\ c \in listed /\ c # u /\ c \in Nat /\ c # Null /\ nc \in Nat /\ before \in Nat
        /\ IsNext(listed, c, nc) /\ IsPrev(listed, c, before)
    BY <1>7, ListFacts
  <2> HIDE DEF nc, before
  <2>2. /\ IsNext(listed', b, after)
        /\ after # Null => IsPrev(listed', after, b)
        /\ IsNext(listed, c, nc) /\ c # b => IsNext(listed', c, nc)
        /\ IsPrev(listed, c, before) /\ c # after => IsPrev(listed', c, before)
    BY <1>1, <1>2, <1>7, <2>1, OrderAfterRemove
  <2>3. QED
    BY <2>1, <2>2 DEF nc, before
<1>11. NextIsSuccessor' /\ PrevIsPredecessor'
  <2>1. NextIsSuccessor'
    <3> SUFFICES ASSUME NEW c \in listed' PROVE IsNext(listed', c, next'[c])
      BY DEF NextIsSuccessor
    <3>1. c \in listed
      BY <1>7
    <3>2. CASE c = b
      <4>1. next'[c] = after
        BY <3>1, <3>2, <1>6
      <4>2. IsNext(listed', c, after)
        BY <3>2, <1>10
      <4>3. QED
        BY <4>1, <4>2
    <3>3. CASE c # b
      <4>1. next'[c] = next[c]
        BY <3>1, <3>3, <1>6
      <4>2. IsNext(listed', c, next[c])
        BY <3>3, <1>10
      <4>3. QED
        BY <4>1, <4>2
    <3>4. QED
      BY <3>2, <3>3
  <2>2. PrevIsPredecessor'
    <3> SUFFICES ASSUME NEW c \in listed' PROVE IsPrev(listed', c, prev'[c])
      BY DEF PrevIsPredecessor
    <3>1. c \in listed
      BY <1>7
    <3>2. CASE c = after
      <4>1. prev'[c] = b
        BY <3>1, <3>2, <1>6
      <4>2. IsPrev(listed', c, b)
        BY <3>2, <1>10
      <4>3. QED
        BY <4>1, <4>2
    <3>3. CASE c # after
      <4>1. prev'[c] = prev[c]
        BY <3>1, <3>3, <1>6
      <4>2. IsPrev(listed', c, prev[c])
        BY <3>3, <1>10
      <4>3. QED
        BY <4>1, <4>2
    <3>4. QED
      BY <3>2, <3>3
  <2>3. QED
    BY <2>1, <2>2
<1>12. Ends'
  <2>1. head \in listed /\ tail \in listed /\ \A c \in listed : head <= c /\ c <= tail
    BY DEF ListIntegrity, Ends
  <2>2. head' \in listed' /\ \A c \in listed' : head' <= c
    <3>1. head # u
      BY <2>1, <1>1
    <3>2. QED
      BY <2>1, <3>1, <1>3, <1>7
  <2>3. tail' \in listed' /\ \A c \in listed' : c <= tail'
    <3>1. CASE tail = u
      <4>1. \A c \in listed' : c <= b
        BY <2>1, <3>1, <1>1, <1>7 DEF IsNext
      <4>2. QED
        BY <3>1, <4>1, <1>3, <1>7
    <3>2. CASE tail # u
      BY <3>2, <2>1, <1>3, <1>7
    <3>3. QED
      BY <3>1, <3>2
  <2>4. QED
    BY <2>2, <2>3 DEF Ends
<1>13. size'[b] >= size[b]
  BY <1>2, <1>6 DEF sb
<1>14. QED
  BY <1>1, <1>5, <1>6, <1>7, <1>8, <1>9, <1>11, <1>12, <1>13 DEF ListIntegrity, u

\* Linking a new block r in between b and after (Null: in front of all, behind
\* all), given that it fits there.
LEMMA LinkKeepsList ==
  ASSUME TypeOK, ListIntegrity,
         NEW r \in Addr, r \notin listed, size[r] >= Q, r + size[r] <= Top + 1,
         Whole(r), Whole(size[r]), meta[r] = Available,
         NEW b \in listed \cup {Null}, NEW after \in listed \cup {Null},
         IsNext(listed, b, after), b < r,
         \A c \in listed : c <= b \/ r + size[r] <= c,
         \A c \in listed : c <= b => c + size[c] <= r,
         size' = size, meta' = meta,
         next' = [a \in Addr |-> IF a = r THEN after ELSE IF a = b THEN r ELSE next[a]],
         prev' = [a \in Addr |-> IF a = r THEN b ELSE IF a = after THEN r ELSE prev[a]],
         head' = IF b = Null THEN r ELSE head,
         tail' = IF after = Null THEN r ELSE tail,
         listed' = listed \cup {r}, listed # {}
  PROVE  ListIntegrity' /\ next' \in [Addr -> Link] /\ prev' \in [Addr -> Link]
         /\ head' \in Link /\ tail' \in Link /\ listed' \subseteq Addr
<1> DEFINE sr == size[r]
<1>1. /\ listed \in SUBSET (Nat \ {Null}) /\ r \in Nat /\ r # Null /\ sr \in Nat
      /\ b \in Nat /\ after \in Nat /\ Top \in Nat /\ Q \in Nat /\ Q > 0
  <2>1. listed \in SUBSET (Nat \ {Null}) /\ Top \in Nat
    BY ListFacts
  <2>2. r \in Nat /\ r # Null
    BY <2>1 DEF Addr, Null
  <2>3. QED
    BY <2>1, <2>2, QFacts DEF TypeOK, Null
<1>2. /\ sr >= Q /\ r + sr <= Top + 1 /\ Whole(r) /\ Whole(sr)
      /\ \A c \in listed : c <= b \/ r + sr <= c
  OBVIOUS
<1>3. /\ next' \in [Addr -> Link] /\ prev' \in [Addr -> Link]
      /\ head' \in Link /\ tail' \in Link /\ listed' \subseteq Addr
  BY ListFacts DEF TypeOK, Link
<1>4. /\ next'[r] = after /\ prev'[r] = b
      /\ b \in listed => next'[b] = r
      /\ \A c \in listed : c # b => next'[c] = next[c]
      /\ \A c \in listed : c = after => prev'[c] = r
      /\ \A c \in listed : c # after => prev'[c] = prev[c]
  BY ListFacts
<1> HIDE DEF sr
<1>5. \A c \in listed : c <= b \/ r < c
  BY <1>1, <1>2
<1>6. Extents'
  <2> SUFFICES ASSUME NEW c \in listed'
               PROVE  /\ size[c] >= Q /\ c + size[c] <= Top + 1
                      /\ meta[c] \in {Available, Allocated}
                      /\ \A d \in listed' : c < d => c + size[c] <= d
    BY DEF Extents
  <2>1. CASE c = r
    <3>1. \A d \in listed : r < d => r + sr <= d
      BY <1>1, <1>2
    <3>2. \A d \in listed' : r < d => r + sr <= d
      BY <3>1, <1>1
    <3>3. QED
      BY <2>1, <1>2, <3>2 DEF sr
  <2>2. CASE c \in listed
    <3>1. c < r => c + size[c] <= r
      BY <2>2, <1>1, <1>5
    <3>2. QED
      BY <2>2, <3>1, ListFacts
  <2>3. QED
    BY <2>1, <2>2
<1>7. WholeBlocks'
  BY ListFacts DEF WholeBlocks
<1>8. /\ IsNext(listed', r, after)
      /\ b \in listed => IsNext(listed', b, r)
      /\ IsPrev(listed', r, b)
      /\ after # Null => IsPrev(listed', after, r)
  <2>1. b \in listed \/ b = Null
    OBVIOUS
  <2>2. QED
    BY <2>1, <1>1, <1>5, OrderAfterInsert
<1>9. \A c \in listed :
        /\ c # b => IsNext(listed', c, next[c])
        /\ c # after => IsPrev(listed', c, prev[c])
  <2> SUFFICES ASSUME NEW c \in listed
               PROVE  /\ c # b => IsNext(listed', c, next[c])
                      /\ c # after => IsPrev(listed', c, prev[c])
    OBVIOUS
  <2> DEFINE nc == next[c]  before == prev[c]
  <2>1. /\ c \in Nat /\ nc \in Nat /\ before \in Nat
        /\ IsNext(listed, c, nc) /\ IsPrev(listed, c, before)
    BY ListFacts
  <2> HIDE DEF nc, before
  <2>2. c # b => IsNext(listed', c, nc)
    BY <2>1, <1>1, <1>5, NextAfterInsert
  <2>3. c # after => IsPrev(listed', c, before)
    BY <2>1, <1>1, <1>5, PrevAfterInsert
  <2>4. QED
    BY <2>2, <2>3 DEF nc, before
<1>10. NextIsSuccessor'
  <2> SUFFICES ASSUME NEW c \in listed' PROVE IsNext(listed', c, next'[c])
    BY DEF NextIsSuccessor
  <2>1. CASE c = r
    BY <2>1, <1>4, <1>8
  <2>2. CASE c \in listed /\ c = b
    BY <2>2, <1>4, <1>8
  <2>3. CASE c \in listed /\ c # b
    BY <2>3, <1>4, <1>9
  <2>4. QED
    BY <2>1, <2>2, <2>3
<1>11. PrevIsPredecessor'
  <2> SUFFICES ASSUME NEW c \in listed' PROVE IsPrev(listed', c, prev'[c])
    BY DEF PrevIsPredecessor
  <2>1. CASE c = r
    BY <2>1, <1>4, <1>8
  <2>2. CASE c \in listed /\ c = after
    BY <2>2, <1>1, <1>4, <1>8
  <2>3. CASE c \in listed /\ c # after
    BY <2>3, <1>4, <1>9
  <2>4. QED
    BY <2>1, <2>2, <2>3
<1>12. Ends'
  <2>1. head \in listed /\ tail \in listed /\ \A c \in listed : head <= c /\ c <= tail
    BY DEF ListIntegrity, Ends
  <2>2. head' \in listed' /\ \A c \in listed' : head' <= c
    <3>1. CASE b = Null
      <4>1. \A c \in listed : r <= c
        BY <3>1, <1>1, <1>5 DEF Null
      <4>2. QED
        BY <3>1, <4>1, <1>1
    <3>2. CASE b # Null
      <4>1. head <= r
        BY <3>2, <2>1, <1>1
      <4>2. QED
        BY <3>2, <4>1, <2>1
    <3>3. QED
      BY <3>1, <3>2
  <2>3. tail' \in listed' /\ \A c \in listed' : c <= tail'
    <3>1. CASE after = Null
      <4>1. \A c \in listed : c <= r
        BY <3>1, <1>1 DEF IsNext
      <4>2. QED
        BY <3>1, <4>1, <1>1
    <3>2. CASE after # Null
      <4>1. after \in listed /\ b < after
        BY <3>2, <1>1 DEF IsNext
      <4>2. r <= tail
        BY <4>1, <2>1, <1>1, <1>5
      <4>3. QED
        BY <3>2, <4>2, <2>1
    <3>3. QED
      BY <3>1, <3>2
  <2>4. QED
    BY <2>2, <2>3 DEF Ends
<1>13. QED
  BY <1>3, <1>6, <1>7, <1>10, <1>11, <1>12 DEF ListIntegrity

-----------------------------------------------------------------------------
(* Facts used in several steps.                                            *)

LEMMA InvFacts ==
  ASSUME IInv
  PROVE  /\ TypeOK /\ ListIntegrity /\ LiveBlocksKept /\ OnlyLiveIsAllocated
         /\ InsertInv /\ MergeInv /\ ScanInv /\ GrowInv
         /\ listed \subseteq Addr /\ live \subseteq listed
         /\ Null \notin Addr /\ Link = Addr \cup {Null}
         /\ head \in listed \cup {Null} /\ (head = Null <=> listed = {})
         /\ \A b \in listed : next[b] \in listed \cup {Null} /\ prev[b] \in listed \cup {Null}
<1>1. /\ TypeOK /\ ListIntegrity /\ LiveBlocksKept /\ OnlyLiveIsAllocated
      /\ InsertInv /\ MergeInv /\ ScanInv /\ GrowInv
  BY DEF IInv, CallInv
<1>2. listed \subseteq Addr /\ Null \notin listed
  BY <1>1, ListFacts
<1>3. live \subseteq listed
  BY <1>1 DEF LiveBlocksKept
<1>4. Null \notin Addr /\ Link = Addr \cup {Null}
  BY BlockListAssumption DEF Addr, Link, Null
<1>5. head \in listed \cup {Null} /\ (head = Null <=> listed = {})
  BY <1>1, <1>2 DEF ListIntegrity, Ends
<1>6. \A b \in listed : next[b] \in listed \cup {Null} /\ prev[b] \in listed \cup {Null}
  BY <1>1 DEF ListIntegrity, NextIsSuccessor, PrevIsPredecessor, IsNext, IsPrev
<1>7. QED
  BY <1>1, <1>2, <1>3, <1>4, <1>5, <1>6

\* Between calls nothing is being reallocated, and what is allocated is live.
LEMMA IdleFacts ==
  ASSUME IInv, pc = "idle"
  PROVE  /\ call.op # "allocate" /\ call.op # "reallocate"
         /\ \A b \in live : b \in listed /\ meta[b] = Allocated /\ size[b] = span[b]
         /\ \A a \in Addr : meta[a] = Allocated => a \in live
<1>1. call.op # "allocate" /\ call.op # "reallocate"
  BY InvFacts DEF ScanInv
<1>2. QED
  BY <1>1, InvFacts DEF LiveBlocksKept, OnlyLiveIsAllocated, Reallocating

\* A block of the list that is not marked allocated is available.
LEMMA SameList ==
  ASSUME TypeOK, ListIntegrity,
         UNCHANGED <<head, tail, listed>>,
         \A c \in listed : /\ size'[c] = size[c] /\ next'[c] = next[c] /\ prev'[c] = prev[c]
                           /\ meta'[c] \in {Available, Allocated}
  PROVE  ListIntegrity'
<1>1. Extents'
  BY DEF ListIntegrity, Extents
<1>2. WholeBlocks' /\ NextIsSuccessor' /\ PrevIsPredecessor' /\ Ends'
  BY DEF ListIntegrity, WholeBlocks, NextIsSuccessor, PrevIsPredecessor, Ends
<1>3. QED
  BY <1>1, <1>2 DEF ListIntegrity

\* What holds before the first call.
LEMMA InitInv == Init => IInv
<1> SUFFICES ASSUME Init PROVE IInv
  OBVIOUS
<1>1. TypeOK
  BY DEF Init, TypeOK, Link, Loops, Ops, NoCall
<1>2. ListIntegrity
  BY DEF Init, ListIntegrity, Extents, WholeBlocks, NextIsSuccessor, PrevIsPredecessor, Ends
<1>3. LiveBlocksKept /\ OnlyLiveIsAllocated
  BY DEF Init, LiveBlocksKept, OnlyLiveIsAllocated, Invalid, Allocated
<1>4. CallInv
  BY DEF Init, NoCall, CallInv, InsertInv, MergeInv, ScanInv, GrowInv
<1>5. QED
  BY <1>1, <1>2, <1>3, <1>4 DEF IInv

-----------------------------------------------------------------------------
(* insert_range.                                                           *)

LEMMA InsertFirstInv ==
  ASSUME IInv, NEW r \in Ranges, InsertFirst(r)
  PROVE  IInv'
<1> DEFINE d == AlignRange(r).data  s == AlignRange(r).size
<1>1. /\ pc = "idle" /\ head = Null /\ d # Null /\ s >= Threshold
      /\ size' = [size EXCEPT ![d] = s] /\ meta' = [meta EXCEPT ![d] = Available]
      /\ next' = [next EXCEPT ![d] = Null] /\ prev' = [prev EXCEPT ![d] = Null]
      /\ head' = d /\ tail' = d /\ listed' = {d} /\ pool' = pool \cup Bytes(d, s)
      /\ UNCHANGED <<clients, control>>
  BY DEF InsertFirst, InitializeBlock
<1>2. /\ d \in Nat /\ s \in Nat /\ Whole(d) /\ Whole(s) /\ d + s <= Top + 1
  BY <1>1, AlignRangeFacts
<1> HIDE DEF d, s
<1>3. d \in Addr /\ s >= Q /\ Bytes(d, s) \subseteq Addr
  BY <1>1, <1>2, QFacts, BlockListAssumption DEF Addr, Null, Bytes
<1>4. TypeOK'
  BY <1>1, <1>2, <1>3, InvFacts DEF TypeOK, clients, control, Link
<1>5. ListIntegrity'
  <2>1. size'[d] = s /\ meta'[d] = Available /\ next'[d] = Null /\ prev'[d] = Null
    BY <1>1, <1>3, InvFacts DEF TypeOK
  <2>2. Extents'
    BY <2>1, <1>1, <1>2, <1>3 DEF Extents
  <2>3. WholeBlocks'
    BY <2>1, <1>1, <1>2 DEF WholeBlocks
  <2>4. NextIsSuccessor' /\ PrevIsPredecessor' /\ Ends'
    BY <2>1, <1>1, <1>2 DEF NextIsSuccessor, PrevIsPredecessor, Ends, IsNext, IsPrev
  <2>5. QED
    BY <2>2, <2>3, <2>4 DEF ListIntegrity
<1>6. live = {} /\ \A a \in Addr : meta[a] # Allocated
  BY <1>1, InvFacts, IdleFacts
<1>7. LiveBlocksKept' /\ OnlyLiveIsAllocated'
  BY <1>1, <1>6, InvFacts DEF LiveBlocksKept, OnlyLiveIsAllocated, clients, Available, Allocated, TypeOK
<1>8. CallInv'
  BY <1>1, IdleFacts DEF CallInv, InsertInv, MergeInv, ScanInv, GrowInv, control
<1>9. QED
  BY <1>4, <1>5, <1>7, <1>8 DEF IInv

LEMMA InsertBeginInv ==
  ASSUME IInv, NEW r \in Ranges, RangeIsNew(r), InsertBegin(r)
  PROVE  IInv'
<1> DEFINE d == AlignRange(r).data  s == AlignRange(r).size
<1>1. /\ pc = "idle" /\ head # Null /\ d # Null /\ s >= Threshold
      /\ size' = [size EXCEPT ![d] = s] /\ meta' = [meta EXCEPT ![d] = Available]
      /\ next' = [next EXCEPT ![d] = Null] /\ prev' = [prev EXCEPT ![d] = Null]
      /\ pc' = "insert_scan" /\ curr' = head /\ ahead' = 0
      /\ call' = [op |-> "insert", block |-> d, need |-> s, asked |-> 0]
      /\ UNCHANGED <<list, clients>>
  BY DEF InsertBegin, InitializeBlock, Enter
<1>2. /\ d \in Nat /\ s \in Nat /\ Whole(d) /\ Whole(s) /\ d + s <= Top + 1
  BY <1>1, AlignRangeFacts
<1>3. d # Null /\ \A b \in listed : d \notin Bytes(b, size[b])
  BY <1>1 DEF RangeIsNew
<1> HIDE DEF d, s
<1>4. s >= Q /\ d \in Addr
  BY <1>1, <1>2, <1>3, QFacts, BlockListAssumption DEF Addr, Null
<1>5. d \notin listed
  <2> SUFFICES ASSUME d \in listed PROVE FALSE
    OBVIOUS
  <2> DEFINE sd == size[d]
  <2>1. sd \in Nat /\ sd >= Q /\ d \notin Bytes(d, sd)
    BY <1>3, InvFacts, ListFacts
  <2> HIDE DEF sd
  <2>2. d \in Bytes(d, sd)
    BY <2>1, <1>2, QFacts DEF Bytes
  <2>3. QED
    BY <2>1, <2>2
<1>6. /\ size'[d] = s /\ meta'[d] = Available
      /\ \A c \in listed : /\ size'[c] = size[c] /\ next'[c] = next[c]
                           /\ prev'[c] = prev[c] /\ meta'[c] = meta[c]
  BY <1>1, <1>4, <1>5, InvFacts DEF TypeOK
<1>7. TypeOK'
  BY <1>1, <1>2, <1>4, InvFacts DEF TypeOK, clients, list, Link, Ops, Loops
<1>8. ListIntegrity'
  <2>1. UNCHANGED <<head, tail, listed>>
    BY <1>1 DEF list
  <2>2. \A c \in listed : meta[c] \in {Available, Allocated}
    BY InvFacts, ListFacts
  <2>3. QED
    BY <1>6, <2>1, <2>2, InvFacts, SameList
<1>9. LiveBlocksKept'
  <2>1. UNCHANGED <<live, span, asked, listed>>
    BY <1>1 DEF clients, list
  <2>2. \A b \in live : /\ b \in listed /\ span[b] >= asked[b] + Q
                        /\ meta[b] = Allocated /\ size[b] = span[b]
    BY <1>1, InvFacts, IdleFacts DEF LiveBlocksKept
  <2>3. QED
    BY <1>6, <2>1, <2>2 DEF LiveBlocksKept
<1>10. OnlyLiveIsAllocated'
  <2>1. \A a \in Addr : meta[a] = Allocated => a \in live
    BY <1>1, IdleFacts
  <2>2. \A a \in Addr : meta'[a] = Allocated => meta[a] = Allocated
    BY <1>1, InvFacts DEF Available, Allocated, TypeOK
  <2>3. QED
    BY <1>1, <2>1, <2>2 DEF OnlyLiveIsAllocated, clients
<1>11. InsertInv'
  <2>1. listed' = listed /\ call'.op = "insert" /\ call'.block = d
    BY <1>1 DEF list
  <2>2. head \in listed /\ \A c \in listed : ~(c < head)
    <3>1. head \in listed /\ \A c \in listed : head <= c
      BY <1>1, InvFacts DEF ListIntegrity, Ends
    <3>2. \A c \in listed : c \in Nat
      BY InvFacts, ListFacts
    <3>3. QED
      BY <3>1, <3>2
  <2>3. \A b \in listed : d \notin Bytes(b, size'[b])
    BY <1>3, <1>6
  <2>4. QED
    BY <1>1, <1>2, <1>4, <1>5, <1>6, <2>1, <2>2, <2>3 DEF InsertInv
<1>12. CallInv'
  BY <1>1, <1>11 DEF CallInv, MergeInv, ScanInv, GrowInv
<1>13. QED
  BY <1>7, <1>8, <1>9, <1>10, <1>12 DEF IInv

\* The call's own state moves on; headers, list and clients stay.
LEMMA ReadOnlyStep ==
  ASSUME IInv, UNCHANGED <<headers, list, clients>>, pc # "copy",
         \A b \in live : meta[b] = Available /\ Reallocating(b) => Reallocating(b)',
         pc' \in Loops, call' \in [op : Ops, block : Link, need : Nat, asked : Nat],
         curr' \in Link, ahead' \in Nat, CallInv'
  PROVE  IInv'
<1>1. /\ UNCHANGED <<size, meta, next, prev>> /\ UNCHANGED <<head, tail, listed, pool>>
      /\ UNCHANGED <<live, span, asked>>
  BY DEF headers, list, clients
<1>2. TypeOK'
  BY <1>1, InvFacts DEF TypeOK
<1>3. ListIntegrity'
  <2>1. \A c \in listed : meta[c] \in {Available, Allocated}
    BY InvFacts, ListFacts
  <2>2. QED
    BY <1>1, <2>1, InvFacts, SameList
<1>4. LiveBlocksKept' /\ OnlyLiveIsAllocated'
  BY <1>1, InvFacts DEF LiveBlocksKept, OnlyLiveIsAllocated
<1>5. QED
  BY <1>2, <1>3, <1>4 DEF IInv

LEMMA ReturnFacts ==
  ASSUME Return
  PROVE  /\ pc' = "idle" /\ curr' = Null /\ ahead' = 0 /\ call' = NoCall
         /\ pc' \in Loops /\ call' \in [op : Ops, block : Link, need : Nat, asked : Nat]
         /\ curr' \in Link /\ ahead' \in Nat /\ CallInv'
BY DEF Return, NoCall, Loops, Ops, Link, CallInv, InsertInv, MergeInv, ScanInv, GrowInv

LEMMA InsertScanInv ==
  ASSUME IInv, InsertScan
  PROVE  IInv'
<1>1. /\ pc = "insert_scan" /\ call.block > curr /\ next[curr] # Null
      /\ pc' = "insert_scan" /\ curr' = next[curr] /\ UNCHANGED <<call, ahead>>
      /\ UNCHANGED <<headers, list, clients>>
  BY DEF InsertScan, Goto
<1>2. InsertInv /\ call.op = "insert" /\ curr \in listed
  BY <1>1, InvFacts DEF InsertInv
<1>3. next[curr] \in listed /\ \A c \in listed : c < next[curr] => c < call.block
  <2> DEFINE nc == next[curr]
  <2>1. /\ nc \in Nat /\ nc # Null /\ IsNext(listed, curr, nc) /\ curr \in Nat
        /\ listed \in SUBSET (Nat \ {Null})
    BY <1>1, <1>2, InvFacts, ListFacts
  <2>2. call.block \in Nat /\ call.block > curr
    BY <1>1, <1>2, BlockListAssumption DEF InsertInv, Addr
  <2> HIDE DEF nc
  <2>3. nc \in listed /\ \A c \in listed : c <= curr \/ nc <= c
    BY <2>1 DEF IsNext
  <2>4. \A c \in listed : c < nc => c < call.block
    BY <2>1, <2>2, <2>3
  <2>5. QED
    BY <2>3, <2>4 DEF nc
<1>4. CallInv'
  BY <1>1, <1>2, <1>3 DEF CallInv, InsertInv, MergeInv, ScanInv, GrowInv, headers, list
<1>5. QED
  BY <1>1, <1>2, <1>3, <1>4, InvFacts, ReadOnlyStep DEF Reallocating, TypeOK, Loops

LEMMA InsertOverlapInv ==
  ASSUME IInv, InsertOverlap
  PROVE  IInv'
<1>1. pc = "insert_scan" /\ Return /\ UNCHANGED <<headers, list, clients>>
  BY DEF InsertOverlap
<1>2. call.op = "insert"
  BY <1>1, InvFacts DEF InsertInv
<1>3. \A b \in live : ~Reallocating(b)
  BY <1>2 DEF Reallocating
<1>4. QED
  BY <1>1, <1>3, ReturnFacts, ReadOnlyStep

\* Where the scan of insert_range stops is where the range belongs.
LEMMA InsertPlace ==
  ASSUME IInv, InsertLink
  PROVE  \E b, after \in listed \cup {Null} :
           /\ IsNext(listed, b, after) /\ b < call.block
           /\ \A c \in listed : c <= b \/ call.block + size[call.block] <= c
           /\ \A c \in listed : c <= b => c + size[c] <= call.block
           /\ next' = [a \in Addr |-> IF a = call.block THEN after ELSE IF a = b THEN call.block ELSE next[a]]
           /\ prev' = [a \in Addr |-> IF a = call.block THEN b ELSE IF a = after THEN call.block ELSE prev[a]]
           /\ head' = IF b = Null THEN call.block ELSE head
           /\ tail' = IF after = Null THEN call.block ELSE tail
<1> DEFINE r == call.block  sr == size[r]  h == curr
<1>1. /\ pc = "insert_scan" /\ ~(r > h /\ next[h] # Null)
      /\ ~RangesOverlap(BlockRange(h), BlockRange(r))
      /\ (r < h /\ LinkBefore(r, h)) \/ (r >= h /\ LinkAfter(r, h))
  BY DEF InsertLink
<1>2. /\ r \in Addr /\ r \notin listed /\ sr >= Q /\ h \in listed
      /\ \A b \in listed : r \notin Bytes(b, size[b])
      /\ \A c \in listed : c < h => c < r
  BY <1>1, InvFacts DEF InsertInv
<1>3. /\ r \in Nat /\ r # Null /\ sr \in Nat /\ h \in Nat /\ h # Null
      /\ listed \in SUBSET (Nat \ {Null}) /\ Q \in Nat /\ Q > 0
      /\ IsNext(listed, h, next[h]) /\ IsPrev(listed, h, prev[h])
  <2>1. listed \in SUBSET (Nat \ {Null}) /\ IsNext(listed, h, next[h]) /\ IsPrev(listed, h, prev[h])
    BY <1>2, InvFacts, ListFacts
  <2>2. r \in Nat /\ r # Null
    BY <1>2, BlockListAssumption DEF Addr, Null
  <2>3. sr \in Nat
    BY <1>2, InvFacts DEF TypeOK
  <2>4. QED
    BY <2>1, <2>2, <2>3, <1>2, QFacts
<1>4. \A c \in listed : c < r => c + size[c] <= r
  <2> SUFFICES ASSUME NEW c \in listed, c < r PROVE c + size[c] <= r
    OBVIOUS
  <2> DEFINE sc == size[c]
  <2>1. c \in Nat /\ sc \in Nat /\ r \notin Bytes(c, sc)
    BY <1>2, InvFacts, ListFacts
  <2> HIDE DEF sc, r
  <2>2. c + sc <= r
    BY <2>1, <1>3 DEF Bytes
  <2>3. QED
    BY <2>2 DEF sc
<1>5. CASE r < h
  <2> DEFINE p == prev[h]  sh == size[h]
  <2>1. LinkBefore(r, h)
    BY <1>1, <1>3, <1>5
  <2>2. p \in listed \cup {Null} /\ p \in Nat /\ sh \in Nat
    BY <1>2, InvFacts, ListFacts
  <2>3. /\ next' = [a \in Addr |-> IF a = r THEN h ELSE IF a = p THEN r ELSE next[a]]
        /\ prev' = [prev EXCEPT ![r] = p, ![h] = r]
        /\ head' = IF p = Null /\ head = h THEN r ELSE head
        /\ tail' = tail
    BY <2>1 DEF LinkBefore
  <2>4. r + sr <= h
    <3>1. ~(h - r < sr)
      BY <1>1, <1>5, <1>3 DEF RangesOverlap, BlockRange
    <3>2. QED
      BY <3>1, <1>3, <1>5
  <2>5. p = Null => head = h
    <3> SUFFICES ASSUME p = Null PROVE head = h
      OBVIOUS
    <3>1. \A c \in listed : h <= c
      BY <1>3 DEF IsPrev
    <3>2. head \in listed /\ \A c \in listed : head <= c
      BY <1>2, InvFacts DEF ListIntegrity, Ends
    <3>3. QED
      BY <3>1, <3>2, <1>2, <1>3
  <2>6. prev' = [a \in Addr |-> IF a = r THEN p ELSE IF a = h THEN r ELSE prev[a]]
    BY <2>3, <1>2, <1>5, <1>3, InvFacts DEF TypeOK
  <2> HIDE DEF p, sh, sr, r, h
  <2>7. p < h /\ \A c \in listed : h <= c \/ c <= p
    BY <1>3, <2>2 DEF IsPrev, Null, p, h
  <2>8. p < r
    BY <1>2, <1>3, <2>2, <2>7 DEF Null
  <2>9. IsNext(listed, p, h)
    BY <1>2, <1>3, <2>2, <2>7 DEF IsNext
  <2>10. \A c \in listed : c <= p \/ r + sr <= c
    BY <1>3, <2>2, <2>4, <2>7
  <2>11. \A c \in listed : c <= p => c + size[c] <= r
    BY <1>3, <1>4, <2>2, <2>8
  <2>12. QED
    BY <1>2, <1>3, <2>2, <2>3, <2>5, <2>6, <2>8, <2>9, <2>10, <2>11 DEF r, sr
<1>6. CASE r >= h
  <2>1. LinkAfter(r, h) /\ h < r
    BY <1>1, <1>2, <1>3, <1>6
  <2>2. next[h] = Null
    BY <1>1, <1>3, <2>1
  <2>3. \A c \in listed : c <= h
    BY <1>3, <2>2 DEF IsNext
  <2>4. tail = h
    <3>1. tail \in listed /\ \A c \in listed : c <= tail
      BY <1>2, InvFacts DEF ListIntegrity, Ends
    <3>2. QED
      BY <3>1, <2>3, <1>2, <1>3
  <2>5. /\ prev' = [a \in Addr |-> IF a = r THEN h ELSE IF a = Null THEN r ELSE prev[a]]
        /\ next' = [next EXCEPT ![r] = Null, ![h] = r]
        /\ tail' = r /\ head' = head
    BY <2>1, <2>2, <2>4 DEF LinkAfter
  <2>6. next' = [a \in Addr |-> IF a = r THEN Null ELSE IF a = h THEN r ELSE next[a]]
    BY <2>5, <1>2, <2>1, <1>3, InvFacts DEF TypeOK
  <2>7. IsNext(listed, h, Null)
    BY <2>3 DEF IsNext
  <2>8. \A c \in listed : c <= h /\ c + size[c] <= r
    BY <1>3, <1>4, <2>1, <2>3
  <2>9. QED
    BY <1>2, <1>3, <2>1, <2>5, <2>6, <2>7, <2>8
<1>7. QED
  BY <1>3, <1>5, <1>6

LEMMA InsertLinkInv ==
  ASSUME IInv, InsertLink
  PROVE  IInv'
<1> DEFINE r == call.block
<1>1. /\ pc = "insert_scan" /\ listed' = listed \cup {r}
      /\ pool' = pool \cup Bytes(r, size[r])
      /\ pc' = "merge_ahead" /\ curr' = r /\ UNCHANGED <<call, ahead>>
      /\ UNCHANGED <<size, meta>> /\ UNCHANGED clients
  BY DEF InsertLink, Goto
<1>2. /\ call.op = "insert" /\ r \in Addr /\ r \notin listed
      /\ Whole(r) /\ Whole(size[r]) /\ size[r] >= Q /\ r + size[r] <= Top + 1
      /\ meta[r] = Available /\ curr \in listed
  BY <1>1, InvFacts DEF InsertInv
<1>3. PICK b, after \in listed \cup {Null} :
        /\ IsNext(listed, b, after) /\ b < r
        /\ \A c \in listed : c <= b \/ r + size[r] <= c
        /\ \A c \in listed : c <= b => c + size[c] <= r
        /\ next' = [a \in Addr |-> IF a = r THEN after ELSE IF a = b THEN r ELSE next[a]]
        /\ prev' = [a \in Addr |-> IF a = r THEN b ELSE IF a = after THEN r ELSE prev[a]]
        /\ head' = IF b = Null THEN r ELSE head
        /\ tail' = IF after = Null THEN r ELSE tail
  BY InsertPlace
<1> HIDE DEF r
<1>4. /\ ListIntegrity' /\ next' \in [Addr -> Link] /\ prev' \in [Addr -> Link]
      /\ head' \in Link /\ tail' \in Link /\ listed' \subseteq Addr
  <2>1. listed # {} /\ TypeOK /\ ListIntegrity
    BY <1>2, InvFacts
  <2>2. QED
    BY <1>1, <1>2, <1>3, <2>1, LinkKeepsList
<1>5. Bytes(r, size[r]) \subseteq Addr
  <2> DEFINE sr == size[r]
  <2>1. r \in Nat /\ r > 0 /\ sr \in Nat /\ r + sr <= Top + 1 /\ Top \in Nat
    BY <1>2, InvFacts, BlockListAssumption DEF TypeOK, Addr
  <2> HIDE DEF sr
  <2>2. Bytes(r, sr) \subseteq Addr
    BY <2>1 DEF Bytes, Addr
  <2>3. QED
    BY <2>2 DEF sr
<1>6. TypeOK'
  BY <1>1, <1>2, <1>4, <1>5, InvFacts DEF TypeOK, clients, Link, Loops
<1>7. LiveBlocksKept' /\ OnlyLiveIsAllocated'
  BY <1>1, <1>2, InvFacts DEF LiveBlocksKept, OnlyLiveIsAllocated, clients, Reallocating
<1>8. CallInv'
  BY <1>1, <1>2 DEF CallInv, InsertInv, MergeInv, ScanInv, GrowInv, r
<1>9. QED
  BY <1>4, <1>6, <1>7, <1>8 DEF IInv

-----------------------------------------------------------------------------
(* defragmentate.                                                          *)

\* Two blocks that can be merged are free ones of the list, the second the
\* one behind the first.
LEMMA MergeableFacts ==
  ASSUME IInv, curr \in listed \cup {Null}, Mergeable(curr, next[curr]),
         MergeBlocks(curr, next[curr]), UNCHANGED clients
  PROVE  /\ curr \in listed /\ next[curr] \in listed /\ next[curr] # curr
         /\ meta[curr] = Available /\ meta[next[curr]] = Available
         /\ ListIntegrity' /\ listed' = listed \ {next[curr]} /\ curr \in listed'
         /\ UNCHANGED <<meta, head, pool, live, span, asked>>
         /\ size' \in [Addr -> Nat] /\ next' \in [Addr -> Link]
         /\ prev' \in [Addr -> Link] /\ tail' \in Link
         /\ prev' = [a \in Addr |-> IF a = next[next[curr]] THEN curr ELSE prev[a]]
         /\ size'[curr] >= size[curr] /\ \A c \in listed : c # curr => size'[c] = size[c]
<1>1. /\ curr # Null /\ next[curr] # Null /\ meta[curr] = Available
      /\ meta[next[curr]] = Available
  BY DEF Mergeable
<1>2. curr \in listed
  BY <1>1
<1>3. /\ ListIntegrity' /\ listed' = listed \ {next[curr]}
      /\ next[curr] \in listed /\ next[curr] # curr
      /\ size' \in [Addr -> Nat] /\ next' \in [Addr -> Link]
      /\ prev' \in [Addr -> Link] /\ tail' \in Link
      /\ size'[curr] >= size[curr] /\ \A c \in listed : c # curr => size'[c] = size[c]
  BY <1>1, <1>2, InvFacts, MergeKeepsList
<1>4. /\ UNCHANGED <<meta, head, pool>>
      /\ prev' = [a \in Addr |-> IF a = next[next[curr]] THEN curr ELSE prev[a]]
  BY DEF MergeBlocks
<1>5. QED
  BY <1>1, <1>2, <1>3, <1>4 DEF clients

\* Merging free blocks touches nothing a client holds.
LEMMA MergedClients ==
  ASSUME IInv, pc # "copy", curr \in listed, next[curr] \in listed,
         meta[next[curr]] = Available, meta[curr] = Available,
         listed' = listed \ {next[curr]}, next[curr] # curr,
         UNCHANGED <<meta, live, span, asked, call>>,
         ~(call.op = "reallocate" /\ call.block = next[curr]),
         size'[curr] >= size[curr], \A c \in listed : c # curr => size'[c] = size[c],
         size' \in [Addr -> Nat]
  PROVE  LiveBlocksKept' /\ OnlyLiveIsAllocated'
<1>1. LiveBlocksKept'
  <2> SUFFICES ASSUME NEW b \in live
               PROVE  /\ b \in listed'
                      /\ span[b] >= asked[b] + Q
                      /\ \/ meta[b] = Allocated /\ size'[b] = span[b]
                         \/ Reallocating(b)' /\ meta[b] = Available /\ size'[b] >= span[b]
    BY DEF LiveBlocksKept
  <2>1. /\ b \in listed /\ span[b] >= asked[b] + Q
        /\ \/ meta[b] = Allocated /\ size[b] = span[b]
           \/ Reallocating(b) /\ meta[b] = Available /\ size[b] >= span[b]
    BY InvFacts DEF LiveBlocksKept
  <2>2. b # next[curr]
    BY <2>1 DEF Reallocating, Available, Allocated
  <2>3. Reallocating(b)' <=> Reallocating(b)
    BY DEF Reallocating
  <2>4. CASE b = curr
    <3> DEFINE new == size'[b]  old == size[b]  sp == span[b]
    <3>1. new \in Nat /\ old \in Nat /\ sp \in Nat /\ new >= old
      BY <2>1, <2>4, InvFacts, ListFacts DEF TypeOK
    <3>2. old >= sp /\ Reallocating(b) /\ meta[b] = Available
      BY <2>1, <2>4 DEF Available, Allocated
    <3> HIDE DEF new, old, sp
    <3>3. new >= sp
      BY <3>1, <3>2
    <3>4. QED
      BY <2>1, <2>2, <2>3, <3>2, <3>3 DEF new, sp
  <2>5. CASE b # curr
    BY <2>1, <2>2, <2>3, <2>5
  <2>6. QED
    BY <2>4, <2>5
<1>2. OnlyLiveIsAllocated'
  BY InvFacts DEF OnlyLiveIsAllocated
<1>3. QED
  BY <1>1, <1>2

LEMMA MergeAheadInv ==
  ASSUME IInv, MergeAhead
  PROVE  IInv'
<1>1. /\ pc = "merge_ahead" /\ Mergeable(curr, next[curr]) /\ MergeBlocks(curr, next[curr])
      /\ UNCHANGED clients /\ UNCHANGED <<pc, call, curr, ahead>>
  BY DEF MergeAhead, control
<1>2. /\ curr \in listed /\ curr = call.block
      /\ call.op \in {"insert", "deallocate", "reallocate"}
  BY <1>1, InvFacts DEF MergeInv
<1>3. /\ next[curr] \in listed /\ next[curr] # curr
      /\ meta[curr] = Available /\ meta[next[curr]] = Available
      /\ ListIntegrity' /\ listed' = listed \ {next[curr]} /\ curr \in listed'
      /\ UNCHANGED <<meta, head, pool, live, span, asked>>
      /\ size' \in [Addr -> Nat] /\ next' \in [Addr -> Link]
      /\ prev' \in [Addr -> Link] /\ tail' \in Link
      /\ prev' = [a \in Addr |-> IF a = next[next[curr]] THEN curr ELSE prev[a]]
      /\ size'[curr] >= size[curr] /\ \A c \in listed : c # curr => size'[c] = size[c]
  BY <1>1, <1>2, MergeableFacts
<1>4. TypeOK'
  BY <1>1, <1>3, InvFacts DEF TypeOK
<1>5. LiveBlocksKept' /\ OnlyLiveIsAllocated'
  BY <1>1, <1>2, <1>3, MergedClients
<1>6. GrowInv'
  <2> SUFFICES ASSUME call.op = "reallocate" PROVE GrowInv'
    BY <1>1 DEF GrowInv
  <2>1. GrowsAlone(curr) /\ call.block \in live
    BY <1>1, <1>2, InvFacts DEF GrowInv
  <2> DEFINE p == prev[curr]  u == next[curr]  w == next[next[curr]]
  <2>2. /\ curr \in Nat /\ u \in Nat /\ w \in Nat /\ p \in Nat /\ curr # Null /\ u # Null
        /\ IsNext(listed, curr, u) /\ IsNext(listed, u, w) /\ IsPrev(listed, curr, p)
        /\ listed \in SUBSET (Nat \ {Null})
    BY <1>2, <1>3, InvFacts, ListFacts
  <2>3. prev'[curr] = IF curr = w THEN curr ELSE prev[curr]
    BY <1>2, <1>3, InvFacts
  <2> HIDE DEF p, u, w
  <2>4. curr # w
    BY <2>2 DEF IsNext, Null
  <2>5. prev'[curr] = p /\ p \in listed \cup {Null} /\ p # curr
    <3>1. prev'[curr] = p
      BY <2>3, <2>4 DEF p
    <3>2. p = Null \/ (p \in listed /\ p < curr)
      BY <2>2 DEF IsPrev
    <3>3. QED
      BY <2>2, <3>1, <3>2
  <2>6. p # Null => size'[p] = size[p]
    BY <1>3, <2>5
  <2>7. GrowsAlone(call.block)'
    BY <1>1, <1>2, <1>3, <2>1, <2>5, <2>6 DEF GrowsAlone, Adjacent, p
  <2>8. meta'[call.block] = Available /\ call.block \in live'
    BY <1>2, <1>3, <2>1
  <2>9. QED
    BY <1>1, <2>7, <2>8 DEF GrowInv
<1>7. CallInv'
  BY <1>1, <1>2, <1>3, <1>6, InvFacts DEF CallInv, InsertInv, MergeInv, ScanInv
<1>8. QED
  BY <1>3, <1>4, <1>5, <1>7 DEF IInv

LEMMA MergeBehindInv ==
  ASSUME IInv, MergeBehind
  PROVE  IInv'
<1>1. /\ pc = "merge_behind" /\ Mergeable(curr, next[curr]) /\ MergeBlocks(curr, next[curr])
      /\ pc' = "merge_behind" /\ curr' = prev[curr] /\ UNCHANGED <<call, ahead>>
      /\ UNCHANGED clients
  BY DEF MergeBehind, Goto
<1>2. curr \in listed \cup {Null} /\ call.op \in {"insert", "deallocate", "reallocate"}
  BY <1>1, InvFacts DEF MergeInv
<1>3. /\ curr \in listed /\ next[curr] \in listed /\ next[curr] # curr
      /\ meta[curr] = Available /\ meta[next[curr]] = Available
      /\ ListIntegrity' /\ listed' = listed \ {next[curr]} /\ curr \in listed'
      /\ UNCHANGED <<meta, head, pool, live, span, asked>>
      /\ size' \in [Addr -> Nat] /\ next' \in [Addr -> Link]
      /\ prev' \in [Addr -> Link] /\ tail' \in Link
      /\ size'[curr] >= size[curr] /\ \A c \in listed : c # curr => size'[c] = size[c]
  BY <1>1, <1>2, MergeableFacts
<1>4. call.op # "reallocate"
  <2> SUFFICES ASSUME call.op = "reallocate" PROVE FALSE
    OBVIOUS
  <2> DEFINE b == call.block  u == next[curr]
  <2>1. GrowsAlone(b) /\ b \in live /\ curr = prev[b]
    BY <1>1, InvFacts DEF GrowInv
  <2>2. /\ b \in listed /\ b \in Nat /\ curr \in Nat /\ u \in Nat /\ curr # Null
        /\ IsPrev(listed, b, curr) /\ IsNext(listed, curr, u) /\ u \in listed
        /\ listed \in SUBSET (Nat \ {Null})
    BY <1>3, <2>1, InvFacts, ListFacts
  <2> HIDE DEF b, u
  <2>3. u = b
    <3>1. curr < b /\ \A c \in listed : b <= c \/ c <= curr
      BY <2>2 DEF IsPrev
    <3>2. curr < u /\ \A c \in listed : c <= curr \/ u <= c
      BY <2>2 DEF IsNext, Null
    <3>3. b <= u /\ u <= b
      BY <2>2, <3>1, <3>2
    <3>4. QED
      BY <2>2, <3>3
  <2>4. Adjacent(prev[b], b) /\ meta[prev[b]] = Available /\ prev[b] # Null
    BY <1>1, <2>1, <2>2, <2>3 DEF Mergeable, u
  <2>5. QED
    BY <2>1, <2>4 DEF GrowsAlone
<1>5. prev[curr] \in listed' \cup {Null}
  <2> DEFINE p == prev[curr]  u == next[curr]
  <2>1. /\ p \in listed \cup {Null} /\ p \in Nat /\ u \in Nat /\ curr \in Nat /\ u # Null
        /\ IsPrev(listed, curr, p) /\ IsNext(listed, curr, u)
    BY <1>3, InvFacts, ListFacts
  <2> HIDE DEF p, u
  <2>2. p # u
    BY <2>1 DEF IsNext, IsPrev
  <2>3. QED
    BY <1>3, <2>1, <2>2 DEF p, u
<1>6. TypeOK'
  <2>1. prev[curr] \in Link
    BY <1>3, InvFacts
  <2>2. QED
    BY <1>1, <1>3, <2>1, InvFacts DEF TypeOK
<1>7. LiveBlocksKept' /\ OnlyLiveIsAllocated'
  BY <1>1, <1>3, <1>4, MergedClients
<1>8. CallInv'
  BY <1>1, <1>2, <1>4, <1>5 DEF CallInv, InsertInv, MergeInv, ScanInv, GrowInv
<1>9. QED
  BY <1>3, <1>6, <1>7, <1>8 DEF IInv

LEMMA MergeAheadDoneInv ==
  ASSUME IInv, MergeAheadDone
  PROVE  IInv'
<1>1. /\ pc = "merge_ahead" /\ pc' = "merge_behind" /\ curr' = prev[curr]
      /\ UNCHANGED <<call, ahead>> /\ UNCHANGED <<headers, list, clients>>
  BY DEF MergeAheadDone, Goto
<1>2. /\ curr \in listed /\ curr = call.block
      /\ call.op \in {"insert", "deallocate", "reallocate"}
  BY <1>1, InvFacts DEF MergeInv
<1>3. prev[curr] \in listed \cup {Null}
  BY <1>2, InvFacts
<1>4. CallInv'
  BY <1>1, <1>2, <1>3, InvFacts
     DEF CallInv, InsertInv, MergeInv, ScanInv, GrowInv, headers, list, clients, GrowsAlone, Adjacent
<1>5. QED
  BY <1>1, <1>3, <1>4, InvFacts, ReadOnlyStep DEF Reallocating, TypeOK, Loops

LEMMA MergeBehindDoneInv ==
  ASSUME IInv, MergeBehindDone
  PROVE  IInv'
<1>1. pc = "merge_behind" /\ UNCHANGED <<headers, list, clients>>
  BY DEF MergeBehindDone
<1>2. CASE call.op = "reallocate"
  <2>1. pc' = "recheck" /\ curr' = Null /\ UNCHANGED <<call, ahead>>
    BY <1>2 DEF MergeBehindDone, Goto
  <2>2. CallInv'
    BY <1>1, <1>2, <2>1, InvFacts
       DEF CallInv, InsertInv, MergeInv, ScanInv, GrowInv, headers, list, clients
  <2>3. QED
    BY <1>1, <2>1, <2>2, InvFacts, ReadOnlyStep DEF Reallocating, TypeOK, Loops
<1>3. CASE call.op # "reallocate"
  <2>1. Return
    BY <1>3 DEF MergeBehindDone
  <2>2. \A b \in live : ~Reallocating(b)
    BY <1>3 DEF Reallocating
  <2>3. QED
    BY <1>1, <2>1, <2>2, ReturnFacts, ReadOnlyStep
<1>4. QED
  BY <1>2, <1>3

-----------------------------------------------------------------------------
(* allocate.                                                               *)

LEMMA AllocateInv ==
  ASSUME IInv, NEW n \in Requests, Allocate(n)
  PROVE  IInv'
<1>1. /\ pc = "idle" /\ pc' = "alloc_scan" /\ curr' = head /\ ahead' = 0
      /\ call' = [op |-> "allocate", block |-> Null, need |-> RoundUp(n), asked |-> n]
      /\ UNCHANGED <<headers, list, clients>>
  BY DEF Allocate, Enter
<1>2. n \in Nat /\ RoundUp(n) \in Nat /\ RoundUp(n) >= n + Q /\ Whole(RoundUp(n))
  BY RoundUpFacts
<1>3. head \in listed \cup {Null} /\ listed' = listed /\ call.op # "reallocate"
  BY <1>1, InvFacts, IdleFacts DEF list
<1>4. CallInv'
  BY <1>1, <1>2, <1>3 DEF CallInv, InsertInv, MergeInv, ScanInv, GrowInv
<1>5. /\ call' \in [op : Ops, block : Link, need : Nat, asked : Nat] /\ curr' \in Link
      /\ pc' \in Loops /\ ahead' \in Nat
  BY <1>1, <1>2, <1>3, InvFacts DEF Ops, Link, Loops
<1>6. QED
  BY <1>1, <1>3, <1>4, <1>5, ReadOnlyStep DEF Reallocating

LEMMA AllocNextInv ==
  ASSUME IInv, AllocNext
  PROVE  IInv'
<1>1. /\ pc = "alloc_scan" /\ curr # Null /\ pc' = "alloc_scan" /\ curr' = next[curr]
      /\ UNCHANGED <<call, ahead>> /\ UNCHANGED <<headers, list, clients>>
  BY DEF AllocNext, Goto
<1>2. next[curr] \in listed \cup {Null}
  BY <1>1, InvFacts DEF ScanInv
<1>3. CallInv'
  BY <1>1, <1>2, InvFacts
     DEF CallInv, InsertInv, MergeInv, ScanInv, GrowInv, headers, list, clients
<1>4. QED
  BY <1>1, <1>2, <1>3, InvFacts, ReadOnlyStep DEF Reallocating, TypeOK, Loops

\* What taking a block does to the list and to the marks, whoever asked.
LEMMA TakeFacts ==
  ASSUME IInv, NEW b \in listed, NEW n \in Nat, n >= Q, Whole(n), n <= size[b],
         TrySplitBlock(b, n, [meta EXCEPT ![b] = Allocated]), UNCHANGED head
  PROVE  /\ ListIntegrity' /\ listed \subseteq listed' /\ listed' \subseteq Addr
         /\ tail' \in Link /\ size' \in [Addr -> Nat] /\ meta' \in [Addr -> Status]
         /\ next' \in [Addr -> Link] /\ prev' \in [Addr -> Link]
         /\ meta'[b] = Allocated /\ size'[b] >= n
         /\ \A c \in listed : c # b => meta'[c] = meta[c] /\ size'[c] = size[c]
         /\ \A a \in Addr : meta'[a] = Allocated => a = b \/ meta[a] = Allocated
<1> DEFINE m == [meta EXCEPT ![b] = Allocated]
<1>1. /\ m \in [Addr -> Status] /\ m[b] = Allocated
      /\ \A c \in listed : c # b => m[c] = meta[c]
      /\ \A a \in Addr : m[a] = Allocated => a = b \/ meta[a] = Allocated
  BY InvFacts DEF TypeOK, Status
<1>2. \A c \in listed : m[c] \in {Available, Allocated}
  BY <1>1, InvFacts, ListFacts
<1> HIDE DEF m
<1>3. TrySplitBlock(b, n, m) /\ head' = head
  BY DEF m
<1>4. /\ ListIntegrity'
      /\ tail' \in Link /\ size' \in [Addr -> Nat] /\ meta' \in [Addr -> Status]
      /\ next' \in [Addr -> Link] /\ prev' \in [Addr -> Link]
      /\ listed' \subseteq Addr /\ listed \subseteq listed'
      /\ \A c \in listed : meta'[c] = m[c] /\ (c # b => size'[c] = size[c])
      /\ size'[b] >= n
      /\ \A a \in Addr : meta'[a] \in {m[a], Available}
  BY <1>1, <1>2, <1>3, InvFacts, SplitKeepsList
<1>5. QED
  BY <1>1, <1>4 DEF Available, Allocated

LEMMA AllocTakeInv ==
  ASSUME IInv, AllocTake
  PROVE  IInv'
<1> DEFINE n == call.need
<1>1. /\ pc = "alloc_scan" /\ curr # Null /\ meta[curr] # Allocated /\ size[curr] >= n
      /\ TrySplitBlock(curr, n, [meta EXCEPT ![curr] = Allocated])
      /\ UNCHANGED <<head, pool>>
  BY DEF AllocTake, Fits
<1>2. /\ curr \in listed /\ curr \in Addr /\ n \in Nat /\ call.asked \in Nat
      /\ n >= call.asked + Q /\ Whole(n)
      /\ call.op \in {"allocate", "reallocate"}
  BY <1>1, InvFacts DEF ScanInv, TypeOK
<1>3. n >= Q /\ n <= size[curr]
  BY <1>1, <1>2, InvFacts, ListFacts, QFacts
<1>4. /\ ListIntegrity' /\ listed \subseteq listed' /\ listed' \subseteq Addr
      /\ tail' \in Link /\ size' \in [Addr -> Nat] /\ meta' \in [Addr -> Status]
      /\ next' \in [Addr -> Link] /\ prev' \in [Addr -> Link]
      /\ meta'[curr] = Allocated /\ size'[curr] >= n
      /\ \A c \in listed : c # curr => meta'[c] = meta[c] /\ size'[c] = size[c]
      /\ \A a \in Addr : meta'[a] = Allocated => a = curr \/ meta[a] = Allocated
  BY <1>1, <1>2, <1>3, TakeFacts
<1>5. size'[curr] >= call.asked + Q /\ size'[curr] \in Nat
  BY <1>2, <1>4, QFacts
<1>6. CASE call.op = "allocate"
  <2>1. Hold(curr, call.asked, size'[curr]) /\ Return
    BY <1>6 DEF AllocTake
  <2>2. /\ live' = live \cup {curr}
        /\ span' = [span EXCEPT ![curr] = size'[curr]]
        /\ asked' = [asked EXCEPT ![curr] = call.asked]
    BY <2>1 DEF Hold
  <2>3. TypeOK'
    BY <1>1, <1>2, <1>4, <1>5, <2>1, <2>2, InvFacts, ReturnFacts DEF TypeOK, Status
  <2>4. /\ span'[curr] = size'[curr] /\ asked'[curr] = call.asked
        /\ \A b \in live : b # curr => span'[b] = span[b] /\ asked'[b] = asked[b]
    BY <1>2, <2>2, InvFacts DEF TypeOK
  <2>5. LiveBlocksKept'
    BY <1>1, <1>2, <1>4, <1>5, <1>6, <2>2, <2>4, InvFacts DEF LiveBlocksKept, Reallocating
  <2>6. OnlyLiveIsAllocated'
    BY <1>1, <1>4, <2>2, InvFacts DEF OnlyLiveIsAllocated
  <2>7. QED
    BY <1>4, <2>1, <2>3, <2>5, <2>6, ReturnFacts DEF IInv
<1>7. CASE call.op = "reallocate"
  <2>1. pc' = "copy" /\ curr' = curr /\ UNCHANGED <<call, ahead>> /\ UNCHANGED <<live, span, asked>>
    BY <1>7 DEF AllocTake, Goto, clients
  <2>2. call.block \in live /\ size[call.block] < n
    BY <1>1, <1>7, InvFacts DEF GrowInv
  <2>3. curr # call.block
    <3> DEFINE sb == size[call.block]  sc == size[curr]
    <3>1. sb \in Nat /\ sc \in Nat
      BY <1>2, <2>2, InvFacts, ListFacts
    <3>2. sb < n /\ sc >= n
      BY <1>1, <2>2
    <3> HIDE DEF sb, sc, n
    <3>3. sb # sc
      BY <1>2, <3>1, <3>2
    <3>4. QED
      BY <3>3 DEF sb, sc
  <2>4. curr \notin live
    BY <1>1, <2>3, InvFacts DEF LiveBlocksKept, Reallocating
  <2>5. TypeOK'
    BY <1>1, <1>2, <1>4, <2>1, InvFacts DEF TypeOK, Status, Loops
  <2>6. LiveBlocksKept'
    BY <1>4, <2>1, <2>4, InvFacts DEF LiveBlocksKept, Reallocating
  <2>7. OnlyLiveIsAllocated'
    BY <1>1, <1>4, <2>1, InvFacts DEF OnlyLiveIsAllocated
  <2>8. size'[call.block] < n
    BY <1>4, <2>2, <2>3, InvFacts
  <2>9. CallInv'
    BY <1>2, <1>4, <1>7, <2>1, <2>2, <2>4, <2>8
       DEF CallInv, InsertInv, MergeInv, ScanInv, GrowInv
  <2>10. QED
    BY <1>4, <2>5, <2>6, <2>7, <2>9 DEF IInv
<1>8. QED
  BY <1>2, <1>6, <1>7

LEMMA AllocFailInv ==
  ASSUME IInv, AllocFail
  PROVE  IInv'
<1>1. /\ pc = "alloc_scan" /\ Return /\ UNCHANGED <<headers, list>>
      /\ call.op \in {"allocate", "reallocate"}
  BY InvFacts DEF AllocFail, ScanInv
<1>2. CASE call.op = "reallocate" /\ meta[call.block] # Allocated
  <2> DEFINE b == call.block
  <2>1. /\ live' = live \ {b} /\ span' = [span EXCEPT ![b] = 0]
        /\ asked' = [asked EXCEPT ![b] = 0]
        /\ UNCHANGED <<size, meta, next, prev>> /\ UNCHANGED <<head, tail, listed, pool>>
    BY <1>1, <1>2 DEF AllocFail, Drop, headers, list
  <2>2. TypeOK'
    BY <1>1, <2>1, InvFacts, ReturnFacts DEF TypeOK
  <2>3. ListIntegrity'
    BY <2>1, InvFacts, ListFacts, SameList
  <2>4. LiveBlocksKept'
    <3>1. \A c \in live : c # b => span'[c] = span[c] /\ asked'[c] = asked[c]
      BY <2>1, InvFacts DEF TypeOK
    <3>2. \A c \in live : c # b => meta[c] = Allocated /\ size[c] = span[c]
      BY InvFacts DEF LiveBlocksKept, Reallocating
    <3>3. QED
      BY <2>1, <3>1, <3>2, InvFacts DEF LiveBlocksKept
  <2>5. OnlyLiveIsAllocated'
    BY <1>1, <1>2, <2>1, InvFacts DEF OnlyLiveIsAllocated
  <2>6. QED
    BY <1>1, <2>2, <2>3, <2>4, <2>5, ReturnFacts DEF IInv
<1>3. CASE ~(call.op = "reallocate" /\ meta[call.block] # Allocated)
  <2>1. UNCHANGED clients
    BY <1>3 DEF AllocFail
  <2>2. \A b \in live : ~(meta[b] = Available /\ Reallocating(b))
    BY <1>3 DEF Reallocating, Available, Allocated
  <2>3. QED
    BY <1>1, <2>1, <2>2, ReturnFacts, ReadOnlyStep
<1>4. QED
  BY <1>2, <1>3

-----------------------------------------------------------------------------
(* deallocate.                                                             *)

LEMMA DeallocateInv ==
  ASSUME IInv, NEW b \in Addr, Deallocate(b)
  PROVE  IInv'
<1>1. /\ pc = "idle" /\ meta[b] = Allocated /\ meta' = [meta EXCEPT ![b] = Available]
      /\ live' = live \ {b} /\ span' = [span EXCEPT ![b] = 0]
      /\ asked' = [asked EXCEPT ![b] = 0]
      /\ pc' = "merge_ahead" /\ curr' = b /\ ahead' = 0
      /\ call' = [op |-> "deallocate", block |-> b, need |-> 0, asked |-> 0]
      /\ UNCHANGED <<size, next, prev>> /\ UNCHANGED <<head, tail, listed, pool>>
  BY DEF Deallocate, Drop, Enter, list
<1>2. b \in listed
  BY <1>1, IdleFacts
<1>3. meta'[b] = Available /\ \A c \in Addr : c # b => meta'[c] = meta[c]
  BY <1>1, InvFacts DEF TypeOK
<1>4. TypeOK'
  BY <1>1, InvFacts DEF TypeOK, Loops, Ops, Link
<1>5. ListIntegrity'
  <2>1. \A c \in listed : meta'[c] \in {Available, Allocated}
    BY <1>3, InvFacts, ListFacts
  <2>2. QED
    BY <1>1, <2>1, InvFacts, SameList
<1>6. LiveBlocksKept'
  <2>1. \A c \in live : c # b => span'[c] = span[c] /\ asked'[c] = asked[c]
    BY <1>1, InvFacts DEF TypeOK
  <2>2. \A c \in live : /\ c \in listed /\ c \in Addr /\ span[c] >= asked[c] + Q
                        /\ meta[c] = Allocated /\ size[c] = span[c]
    BY <1>1, InvFacts, IdleFacts DEF LiveBlocksKept
  <2>3. QED
    BY <1>1, <1>3, <2>1, <2>2 DEF LiveBlocksKept
<1>7. OnlyLiveIsAllocated'
  BY <1>1, <1>3, IdleFacts DEF OnlyLiveIsAllocated, Available, Allocated
<1>8. CallInv'
  BY <1>1, <1>2 DEF CallInv, InsertInv, MergeInv, ScanInv, GrowInv
<1>9. QED
  BY <1>4, <1>5, <1>6, <1>7, <1>8 DEF IInv

-----------------------------------------------------------------------------
(* reallocate.                                                             *)

LEMMA ReallocateSameInv ==
  ASSUME IInv, NEW b \in Addr, NEW n \in Requests, ReallocateSame(b, n)
  PROVE  IInv'
<1>1. /\ pc = "idle" /\ meta[b] = Allocated /\ RoundUp(n) = size[b]
      /\ live' = live \cup {b} /\ span' = [span EXCEPT ![b] = size[b]]
      /\ asked' = [asked EXCEPT ![b] = n]
      /\ UNCHANGED <<size, meta, next, prev>> /\ UNCHANGED <<head, tail, listed, pool>>
      /\ UNCHANGED <<pc, call, curr, ahead>>
  BY DEF ReallocateSame, Hold, headers, list, control
<1>2. n \in Nat /\ size[b] \in Nat /\ size[b] >= n + Q /\ b \in live /\ b \in listed
  BY <1>1, RoundUpFacts, InvFacts, IdleFacts
<1>3. TypeOK'
  BY <1>1, <1>2, InvFacts DEF TypeOK
<1>4. ListIntegrity'
  BY <1>1, InvFacts, ListFacts, SameList
<1>5. LiveBlocksKept'
  <2>1. /\ span'[b] = size[b] /\ asked'[b] = n
        /\ \A c \in live : c # b => span'[c] = span[c] /\ asked'[c] = asked[c]
    BY <1>1, InvFacts DEF TypeOK
  <2>2. \A c \in live : /\ c \in listed /\ span[c] >= asked[c] + Q
                        /\ meta[c] = Allocated /\ size[c] = span[c]
    BY <1>1, InvFacts, IdleFacts DEF LiveBlocksKept
  <2>3. QED
    BY <1>1, <1>2, <2>1, <2>2 DEF LiveBlocksKept
<1>6. OnlyLiveIsAllocated'
  BY <1>1, IdleFacts DEF OnlyLiveIsAllocated
<1>7. CallInv'
  BY <1>1, IdleFacts DEF CallInv, InsertInv, MergeInv, ScanInv, GrowInv
<1>8. QED
  BY <1>3, <1>4, <1>5, <1>6, <1>7 DEF IInv

LEMMA ReallocateShrinkInv ==
  ASSUME IInv, NEW b \in Addr, NEW n \in Requests, ReallocateShrink(b, n)
  PROVE  IInv'
<1> DEFINE k == RoundUp(n)
<1>1. /\ pc = "idle" /\ meta[b] = Allocated /\ k < size[b]
      /\ TrySplitBlock(b, k, meta) /\ UNCHANGED <<head, pool>>
      /\ live' = live \cup {b} /\ span' = [span EXCEPT ![b] = size'[b]]
      /\ asked' = [asked EXCEPT ![b] = n]
      /\ UNCHANGED <<pc, call, curr, ahead>>
  BY DEF ReallocateShrink, Hold, control
<1>2. n \in Nat /\ k \in Nat /\ k >= n + Q /\ Whole(k) /\ b \in live /\ b \in listed
  BY <1>1, RoundUpFacts, InvFacts, IdleFacts
<1> HIDE DEF k
<1>3. k >= Q /\ k <= size[b]
  BY <1>1, <1>2, InvFacts, ListFacts, QFacts
<1>4. meta \in [Addr -> Status] /\ \A c \in listed : meta[c] \in {Available, Allocated}
  BY InvFacts, ListFacts DEF TypeOK, Status
<1>5. /\ ListIntegrity' /\ listed \subseteq listed' /\ listed' \subseteq Addr
      /\ tail' \in Link /\ size' \in [Addr -> Nat] /\ meta' \in [Addr -> Status]
      /\ next' \in [Addr -> Link] /\ prev' \in [Addr -> Link]
      /\ \A c \in listed : meta'[c] = meta[c] /\ (c # b => size'[c] = size[c])
      /\ size'[b] >= k /\ \A a \in Addr : meta'[a] \in {meta[a], Available}
  BY <1>1, <1>2, <1>3, <1>4, InvFacts, SplitKeepsList
<1>6. TypeOK'
  <2>1. span' \in [Addr -> Nat] /\ asked' \in [Addr -> Nat] /\ live' \subseteq Addr
    BY <1>1, <1>2, <1>5, InvFacts DEF TypeOK
  <2>2. QED
    BY <1>1, <1>5, <2>1, InvFacts DEF TypeOK, Status
<1>7. LiveBlocksKept'
  <2>1. /\ span'[b] = size'[b] /\ asked'[b] = n
        /\ \A c \in live : c # b => span'[c] = span[c] /\ asked'[c] = asked[c]
    BY <1>1, InvFacts DEF TypeOK
  <2>2. \A c \in live : /\ c \in listed /\ span[c] >= asked[c] + Q
                        /\ meta[c] = Allocated /\ size[c] = span[c]
    BY <1>1, InvFacts, IdleFacts DEF LiveBlocksKept
  <2>3. size'[b] >= n + Q
    BY <1>2, <1>5, QFacts
  <2>4. QED
    BY <1>1, <1>2, <1>5, <2>1, <2>2, <2>3 DEF LiveBlocksKept
<1>8. OnlyLiveIsAllocated'
  BY <1>1, <1>5, IdleFacts DEF OnlyLiveIsAllocated, Available, Allocated
<1>9. CallInv'
  BY <1>1, IdleFacts DEF CallInv, InsertInv, MergeInv, ScanInv, GrowInv
<1>10. QED
  BY <1>5, <1>6, <1>7, <1>8, <1>9 DEF IInv

LEMMA ReallocateGrowInv ==
  ASSUME IInv, NEW b \in Addr, NEW n \in Requests, GrowsAlone(b), ReallocateGrow(b, n)
  PROVE  IInv'
<1>1. /\ pc = "idle" /\ meta[b] = Allocated /\ RoundUp(n) > size[b]
      /\ pc' = "probe" /\ curr' = next[b] /\ ahead' = 0
      /\ call' = [op |-> "reallocate", block |-> b, need |-> RoundUp(n), asked |-> n]
      /\ UNCHANGED <<headers, list, clients>>
  BY DEF ReallocateGrow, Enter
<1>2. /\ n \in Nat /\ RoundUp(n) \in Nat /\ RoundUp(n) >= n + Q /\ Whole(RoundUp(n))
      /\ b \in live /\ b \in listed /\ next[b] \in listed \cup {Null} /\ size[b] \in Nat
  BY <1>1, RoundUpFacts, InvFacts, IdleFacts, ListFacts
<1>3. UNCHANGED <<size, meta, prev, listed, live>>
  BY <1>1 DEF headers, list, clients
<1>4. size[b] < RoundUp(n)
  <2> DEFINE k == RoundUp(n)  s == size[b]
  <2>1. k \in Nat /\ s \in Nat /\ k > s
    BY <1>1, <1>2
  <2> HIDE DEF k, s
  <2>2. s < k
    BY <2>1
  <2>3. QED
    BY <2>2 DEF k, s
<1>5. CallInv'
  BY <1>1, <1>2, <1>3, <1>4
     DEF CallInv, InsertInv, MergeInv, ScanInv, GrowInv, GrowsAlone, Adjacent
<1>6. /\ call' \in [op : Ops, block : Link, need : Nat, asked : Nat] /\ curr' \in Link
      /\ pc' \in Loops /\ ahead' \in Nat
  BY <1>1, <1>2, InvFacts DEF Ops, Link, Loops
<1>7. \A c \in live : meta[c] # Available
  BY <1>1, IdleFacts DEF Available, Allocated
<1>8. QED
  BY <1>1, <1>5, <1>6, <1>7, ReadOnlyStep

LEMMA ProbeInv ==
  ASSUME IInv, Probe
  PROVE  IInv'
<1>1. /\ pc = "probe" /\ curr # Null /\ ahead' = ahead + size[curr] /\ curr' = next[curr]
      /\ UNCHANGED <<pc, call>> /\ UNCHANGED <<headers, list, clients>>
  BY DEF Probe
<1>2. call.op = "reallocate" /\ curr \in listed
  BY <1>1, InvFacts DEF GrowInv
<1>3. next[curr] \in listed \cup {Null} /\ ahead' \in Nat
  <2>1. size[curr] \in Nat /\ ahead \in Nat
    BY <1>2, InvFacts, ListFacts DEF TypeOK
  <2>2. QED
    BY <1>1, <1>2, <2>1, InvFacts
<1>4. CallInv'
  BY <1>1, <1>2, <1>3, InvFacts
     DEF CallInv, InsertInv, MergeInv, ScanInv, GrowInv, headers, list, clients, GrowsAlone, Adjacent
<1>5. QED
  BY <1>1, <1>3, <1>4, InvFacts, ReadOnlyStep DEF Reallocating, TypeOK

LEMMA ProbeDoneInv ==
  ASSUME IInv, ProbeDone
  PROVE  IInv'
<1> DEFINE b == call.block
<1>1. /\ pc = "probe" /\ UNCHANGED <<size, next, prev>> /\ UNCHANGED <<head, tail, listed, pool>>
      /\ UNCHANGED <<live, span, asked>> /\ UNCHANGED <<call, ahead>>
  BY DEF ProbeDone, list, clients, Goto
<1>2. /\ call.op = "reallocate" /\ b \in live /\ b \in listed /\ b \in Addr
      /\ GrowsAlone(b) /\ meta[b] = Allocated /\ size[b] < call.need
  BY <1>1, InvFacts DEF GrowInv
<1>3. CASE /\ size[b] + ahead >= call.need
           /\ meta' = [meta EXCEPT ![b] = Available]
           /\ Goto("merge_ahead", b)
  <2>1. pc' = "merge_ahead" /\ curr' = b
    BY <1>3 DEF Goto
  <2>2. meta'[b] = Available /\ \A c \in Addr : c # b => meta'[c] = meta[c]
    BY <1>2, <1>3, InvFacts DEF TypeOK
  <2>3. TypeOK'
    BY <1>1, <1>2, <1>3, <2>1, InvFacts DEF TypeOK, Loops
  <2>4. ListIntegrity'
    <3>1. \A c \in listed : meta'[c] \in {Available, Allocated}
      BY <2>2, InvFacts, ListFacts
    <3>2. QED
      BY <1>1, <3>1, InvFacts, SameList
  <2>5. LiveBlocksKept'
    <3>1. size[b] >= span[b]
      <4> DEFINE s == size[b]  t == span[b]
      <4>1. s \in Nat /\ t \in Nat
        BY <1>2, InvFacts DEF TypeOK
      <4>2. s = t
        BY <1>2, InvFacts DEF LiveBlocksKept, Available, Allocated
      <4> HIDE DEF s, t
      <4>3. s >= t
        BY <4>1, <4>2
      <4>4. QED
        BY <4>3 DEF s, t
    <3>2. QED
      BY <1>1, <1>2, <2>2, <3>1, InvFacts DEF LiveBlocksKept, Reallocating
  <2>6. OnlyLiveIsAllocated'
    BY <1>1, <2>1, <2>2, InvFacts DEF OnlyLiveIsAllocated, Available, Allocated
  <2>7. GrowsAlone(call.block)'
    <3>1. prev[b] # b
      <4> DEFINE p == prev[b]
      <4>1. p \in Nat /\ b \in Nat /\ b # Null /\ IsPrev(listed, b, p)
        BY <1>2, InvFacts, ListFacts
      <4> HIDE DEF p, b
      <4>2. p # b
        BY <4>1 DEF IsPrev
      <4>3. QED
        BY <4>2 DEF p
    <3>2. prev[b] = Null \/ prev[b] \in Addr
      BY <1>2, InvFacts
    <3>3. prev[b] # Null => meta'[prev[b]] = meta[prev[b]]
      BY <2>2, <3>1, <3>2
    <3>4. QED
      BY <1>1, <1>2, <3>3 DEF GrowsAlone, Adjacent
  <2>8. CallInv'
    BY <1>1, <1>2, <2>1, <2>2, <2>7, InvFacts DEF CallInv, InsertInv, MergeInv, ScanInv, GrowInv
  <2>9. QED
    BY <2>3, <2>4, <2>5, <2>6, <2>8 DEF IInv
<1>4. CASE UNCHANGED meta /\ Goto("alloc_scan", head)
  <2>1. pc' = "alloc_scan" /\ curr' = head
    BY <1>4 DEF Goto
  <2>2. CallInv'
    BY <1>1, <1>2, <2>1, InvFacts DEF CallInv, InsertInv, MergeInv, ScanInv, GrowInv
  <2>3. UNCHANGED <<headers, list, clients>>
    BY <1>1, <1>4 DEF headers, list, clients
  <2>4. QED
    BY <1>1, <2>1, <2>2, <2>3, InvFacts, ReadOnlyStep DEF Reallocating, TypeOK, Loops
<1>5. QED
  BY <1>3, <1>4 DEF ProbeDone

LEMMA RecheckInv ==
  ASSUME IInv, Recheck
  PROVE  IInv'
<1> DEFINE b == call.block  n == call.need
<1>1. pc = "recheck" /\ UNCHANGED <<head, pool>>
  BY DEF Recheck
<1>2. /\ call.op = "reallocate" /\ b \in live /\ b \in listed /\ b \in Addr
      /\ meta[b] = Available /\ n \in Nat /\ call.asked \in Nat
      /\ n >= call.asked + Q /\ Whole(n)
  BY <1>1, InvFacts DEF GrowInv, ScanInv, TypeOK
<1>3. CASE /\ n <= size[b]
           /\ TrySplitBlock(b, n, [meta EXCEPT ![b] = Allocated])
           /\ Hold(b, call.asked, size'[b]) /\ Return
  <2>1. n >= Q
    BY <1>2, QFacts
  <2>2. /\ ListIntegrity' /\ listed \subseteq listed' /\ listed' \subseteq Addr
        /\ tail' \in Link /\ size' \in [Addr -> Nat] /\ meta' \in [Addr -> Status]
        /\ next' \in [Addr -> Link] /\ prev' \in [Addr -> Link]
        /\ meta'[b] = Allocated /\ size'[b] >= n
        /\ \A c \in listed : c # b => meta'[c] = meta[c] /\ size'[c] = size[c]
        /\ \A a \in Addr : meta'[a] = Allocated => a = b \/ meta[a] = Allocated
    BY <1>1, <1>2, <1>3, <2>1, TakeFacts
  <2>3. size'[b] >= call.asked + Q /\ size'[b] \in Nat
    BY <1>2, <2>2, QFacts
  <2>4. /\ live' = live \cup {b} /\ span' = [span EXCEPT ![b] = size'[b]]
        /\ asked' = [asked EXCEPT ![b] = call.asked]
    BY <1>3 DEF Hold
  <2>5. TypeOK'
    BY <1>1, <1>2, <1>3, <2>2, <2>3, <2>4, InvFacts, ReturnFacts DEF TypeOK, Status
  <2>6. LiveBlocksKept'
    <3>1. /\ span'[b] = size'[b] /\ asked'[b] = call.asked
          /\ \A c \in live : c # b => span'[c] = span[c] /\ asked'[c] = asked[c]
      BY <1>2, <2>4, InvFacts DEF TypeOK
    <3>2. \A c \in live : c # b => meta[c] = Allocated /\ size[c] = span[c]
      BY InvFacts DEF LiveBlocksKept, Reallocating
    <3>3. \A c \in live : c \in listed /\ span[c] >= asked[c] + Q
      BY InvFacts DEF LiveBlocksKept
    <3>4. QED
      BY <1>2, <2>2, <2>3, <2>4, <3>1, <3>2, <3>3 DEF LiveBlocksKept
  <2>7. OnlyLiveIsAllocated'
    BY <1>1, <2>2, <2>4, InvFacts DEF OnlyLiveIsAllocated
  <2>8. QED
    BY <1>3, <2>2, <2>5, <2>6, <2>7, ReturnFacts DEF IInv
<1>4. CASE /\ n > size[b] /\ Goto("alloc_scan", head)
           /\ UNCHANGED <<headers, tail, listed, clients>>
  <2>1. pc' = "alloc_scan" /\ curr' = head /\ UNCHANGED <<call, ahead>>
    BY <1>4 DEF Goto
  <2>2. UNCHANGED <<headers, list, clients>>
    BY <1>1, <1>4 DEF list
  <2>3. size[b] < n
    <3> DEFINE s == size[b]
    <3>1. s \in Nat /\ n > s
      BY <1>2, <1>4, InvFacts, ListFacts
    <3> HIDE DEF s, n
    <3>2. s < n
      BY <3>1, <1>2
    <3>3. QED
      BY <3>2 DEF s
  <2>4. CallInv'
    BY <1>1, <1>2, <2>1, <2>2, <2>3, InvFacts
       DEF CallInv, InsertInv, MergeInv, ScanInv, GrowInv, headers, list, clients
  <2>5. QED
    BY <1>1, <2>1, <2>2, <2>4, InvFacts, ReadOnlyStep DEF Reallocating, TypeOK, Loops
<1>5. QED
  BY <1>3, <1>4 DEF Recheck

LEMMA CopyInv ==
  ASSUME IInv, Copy
  PROVE  IInv'
<1> DEFINE b == call.block  n == call.need
<1>1. /\ pc = "copy" /\ live' = (live \ {b}) \cup {curr}
      /\ span' = [span EXCEPT ![b] = 0, ![curr] = size[curr]]
      /\ asked' = [asked EXCEPT ![b] = 0, ![curr] = call.asked]
      /\ UNCHANGED <<size, next, prev>> /\ UNCHANGED <<head, tail, listed, pool>>
  BY DEF Copy, list
<1>2. /\ call.op = "reallocate" /\ b \in live /\ b \in listed /\ b \in Addr
      /\ curr \in listed /\ curr \in Addr /\ curr \notin live /\ meta[curr] = Allocated
      /\ size[curr] >= n /\ n \in Nat /\ n >= call.asked + Q /\ call.asked \in Nat
      /\ size[curr] \in Nat
  BY <1>1, InvFacts, ListFacts DEF GrowInv, ScanInv, TypeOK
<1>3. size[curr] >= call.asked + Q
  BY <1>2, QFacts
<1>4. /\ span'[curr] = size[curr] /\ asked'[curr] = call.asked
      /\ \A c \in live : c # b => span'[c] = span[c] /\ asked'[c] = asked[c]
  BY <1>1, <1>2, InvFacts DEF TypeOK
<1>5. \A c \in live : /\ c \in listed /\ span[c] >= asked[c] + Q
                      /\ c # b => meta[c] = Allocated /\ size[c] = span[c]
  BY InvFacts DEF LiveBlocksKept, Reallocating
<1>6. live' \subseteq Addr /\ span' \in [Addr -> Nat] /\ asked' \in [Addr -> Nat]
  BY <1>1, <1>2, InvFacts DEF TypeOK
<1>7. CASE /\ meta[b] = Allocated
           /\ meta' = [meta EXCEPT ![b] = Available]
           /\ Enter("merge_ahead", "deallocate", b, 0, 0, b)
  <2>1. /\ pc' = "merge_ahead" /\ curr' = b /\ ahead' = 0
        /\ call' = [op |-> "deallocate", block |-> b, need |-> 0, asked |-> 0]
    BY <1>7 DEF Enter
  <2>2. meta'[b] = Available /\ \A c \in Addr : c # b => meta'[c] = meta[c]
    BY <1>2, <1>7, InvFacts DEF TypeOK
  <2>3. TypeOK'
    BY <1>1, <1>2, <1>6, <1>7, <2>1, InvFacts DEF TypeOK, Loops, Ops, Link
  <2>4. ListIntegrity'
    <3>1. \A c \in listed : meta'[c] \in {Available, Allocated}
      BY <2>2, InvFacts, ListFacts
    <3>2. QED
      BY <1>1, <3>1, InvFacts, SameList
  <2>5. LiveBlocksKept'
    <3>1. curr # b /\ curr \in live' /\ b \notin live' /\ meta'[curr] = Allocated
      BY <1>1, <1>2, <2>2
    <3>2. /\ curr \in listed' /\ span'[curr] >= asked'[curr] + Q
          /\ size'[curr] = span'[curr]
      BY <1>1, <1>2, <1>3, <1>4
    <3>3. ASSUME NEW c \in live', c # curr
          PROVE  /\ c \in listed' /\ span'[c] >= asked'[c] + Q
                 /\ meta'[c] = Allocated /\ size'[c] = span'[c]
      <4>1. c \in live /\ c # b
        BY <1>1, <3>3
      <4>2. c \in Addr
        BY <4>1, InvFacts DEF TypeOK
      <4>3. QED
        BY <1>1, <1>4, <1>5, <2>2, <4>1, <4>2
    <3>4. QED
      BY <3>1, <3>2, <3>3 DEF LiveBlocksKept
  <2>6. OnlyLiveIsAllocated'
    BY <1>1, <2>1, <2>2, InvFacts DEF OnlyLiveIsAllocated, Available, Allocated
  <2>7. CallInv'
    BY <1>1, <1>2, <2>1 DEF CallInv, InsertInv, MergeInv, ScanInv, GrowInv
  <2>8. QED
    BY <2>3, <2>4, <2>5, <2>6, <2>7 DEF IInv
<1>8. CASE meta[b] # Allocated /\ Return /\ UNCHANGED meta
  <2>1. TypeOK'
    BY <1>1, <1>6, <1>8, InvFacts, ReturnFacts DEF TypeOK
  <2>2. ListIntegrity'
    BY <1>1, <1>8, InvFacts, ListFacts, SameList
  <2>3. LiveBlocksKept'
    BY <1>1, <1>2, <1>3, <1>4, <1>5, <1>8 DEF LiveBlocksKept
  <2>4. OnlyLiveIsAllocated'
    BY <1>1, <1>8, InvFacts DEF OnlyLiveIsAllocated
  <2>5. QED
    BY <1>8, <2>1, <2>2, <2>3, <2>4, ReturnFacts DEF IInv
<1>9. QED
  BY <1>7, <1>8 DEF Copy

-----------------------------------------------------------------------------
(* The theorems.                                                           *)

LEMMA StutterInv ==
  ASSUME IInv, UNCHANGED vars
  PROVE  IInv'
<1>1. /\ UNCHANGED <<size, meta, next, prev>> /\ UNCHANGED <<head, tail, listed, pool>>
      /\ UNCHANGED <<live, span, asked>> /\ UNCHANGED <<pc, call, curr, ahead>>
  BY DEF vars, headers, list, clients, control
<1>2. TypeOK' /\ LiveBlocksKept' /\ OnlyLiveIsAllocated'
  BY <1>1, InvFacts DEF TypeOK, LiveBlocksKept, OnlyLiveIsAllocated, Reallocating
<1>3. ListIntegrity'
  BY <1>1, InvFacts, ListFacts, SameList
<1>4. CallInv'
  BY <1>1, InvFacts DEF CallInv, InsertInv, MergeInv, ScanInv, GrowInv, GrowsAlone, Adjacent
<1>5. QED
  BY <1>2, <1>3, <1>4 DEF IInv

\* No call, at any of its steps, breaks the inductive invariant.
THEOREM StepInv ==
  ASSUME IInv, [Next]_vars
  PROVE  IInv'
<1>1. ASSUME NEW r \in Ranges, Insert(r) PROVE IInv'
  <2>1. CASE InsertNothing(r)
    BY <2>1, StutterInv DEF InsertNothing
  <2>2. CASE InsertFirst(r)
    BY <2>2, InsertFirstInv
  <2>3. CASE InsertBegin(r)
    BY <1>1, <2>3, InsertBeginInv DEF Insert
  <2>4. QED
    BY <1>1, <2>1, <2>2, <2>3 DEF Insert
<1>2. ASSUME NEW n \in Requests, Allocate(n) PROVE IInv'
  BY <1>2, AllocateInv
<1>3. ASSUME NEW b \in Addr, Deallocate(b) \/ StalePointer(b) PROVE IInv'
  BY <1>3, DeallocateInv, StutterInv DEF StalePointer
<1>4. ASSUME NEW b \in Addr, NEW n \in Requests,
             \/ ReallocateSame(b, n)
             \/ ReallocateShrink(b, n)
             \/ GrowsAlone(b) /\ ReallocateGrow(b, n)
      PROVE  IInv'
  BY <1>4, ReallocateSameInv, ReallocateShrinkInv, ReallocateGrowInv
<1>5. CASE CallInProgress
  BY <1>5, InsertScanInv, InsertOverlapInv, InsertLinkInv, MergeAheadInv, MergeAheadDoneInv,
     MergeBehindInv, MergeBehindDoneInv, AllocNextInv, AllocTakeInv, AllocFailInv,
     ProbeInv, ProbeDoneInv, RecheckInv, CopyInv DEF CallInProgress
<1>6. CASE UNCHANGED vars
  BY <1>6, StutterInv
<1>7. QED
  BY <1>1, <1>2, <1>3, <1>4, <1>5, <1>6 DEF Next

\* The inductive invariant holds whatever clients do and wherever a call is.
THEOREM Safety == Spec => []IInv
<1>1. Init => IInv
  BY InitInv
<1>2. IInv /\ [Next]_vars => IInv'
  BY StepInv
<1>3. QED
  BY <1>1, <1>2, PTL DEF Spec

\* insert_range, allocate, deallocate and reallocate keep every link, size and
\* mark of every header they ever write within its type.
THEOREM TypeCorrect == Spec => []TypeOK
<1>1. IInv => TypeOK
  BY DEF IInv
<1>2. QED
  BY <1>1, Safety, PTL

\* The list is well formed inside every loop of the allocator.
THEOREM WellFormed == Spec => []ListIntegrity
<1>1. IInv => ListIntegrity
  BY DEF IInv
<1>2. QED
  BY <1>1, Safety, PTL

\* What a client holds stays in the list, allocated and of its size.
THEOREM ClientsKept == Spec => []LiveBlocksKept
<1>1. IInv => LiveBlocksKept
  BY DEF IInv
<1>2. QED
  BY <1>1, Safety, PTL

\* deallocate and reallocate accept no pointer but one to a live block.
THEOREM StaleRefused == Spec => []OnlyLiveIsAllocated
<1>1. IInv => OnlyLiveIsAllocated
  BY DEF IInv
<1>2. QED
  BY <1>1, Safety, PTL

\* The memcpy of reallocate, which copies the old block's whole size, stays
\* inside the new block: both are whole blocks, and the old one was too small.
THEOREM CopyStaysInside == Spec => []CopyFits
<1>1. ASSUME IInv, pc = "copy" PROVE size[call.block] + Q <= size[curr]
  <2> DEFINE old == size[call.block]  new == size[curr]  n == call.need
  <2>1. /\ call.block \in listed /\ curr \in listed
        /\ old < n /\ new >= n /\ Whole(n) /\ n \in Nat
    BY <1>1, InvFacts DEF GrowInv, ScanInv, TypeOK
  <2>2. old \in Nat /\ new \in Nat /\ Whole(old) /\ Whole(new)
    <3>1. TypeOK /\ ListIntegrity
      BY <1>1 DEF IInv
    <3>2. old \in Nat /\ new \in Nat
      BY <2>1, <3>1, ListFacts
    <3>3. QED
      BY <2>1, <3>1, <3>2 DEF ListIntegrity, WholeBlocks
  <2> HIDE DEF old, new, n
  <2>3. new > old
    BY <2>1, <2>2
  <2>4. new >= old + Q
    BY <2>2, <2>3, WholeGap
  <2>5. QED
    BY <2>2, <2>4, QFacts DEF old, new
<1>2. IInv => CopyFits
  BY <1>1 DEF CopyFits
<1>3. QED
  BY <1>2, Safety, PTL

-----------------------------------------------------------------------------
(* What the list does with the bytes it was given.  All of it rests on     *)
(* IInv and on the blocks being the only owners of the bytes they span.    *)

Tile(b) == Bytes(b, size[b])
Tiles   == UNION {Tile(b) : b \in listed}

-----------------------------------------------------------------------------
(* Blocks own the bytes they span.                                         *)

LEMMA BytesAre ==
  ASSUME NEW b \in Nat, NEW n \in Nat, NEW x
  PROVE  x \in Bytes(b, n) <=> x \in Nat /\ b <= x /\ x < b + n
BY DEF Bytes

\* A byte of one block is not a byte of another.
LEMMA TilesApart ==
  ASSUME TypeOK, ListIntegrity, NEW b \in listed, NEW c \in listed, b # c,
         NEW x \in Tile(b)
  PROVE  x \notin Tile(c)
<1> DEFINE sb == size[b]  sc == size[c]
<1>1. /\ b \in Nat /\ c \in Nat /\ sb \in Nat /\ sc \in Nat
      /\ b < c => b + sb <= c
      /\ c < b => c + sc <= b
  BY ListFacts
<1> HIDE DEF sb, sc
<1>2. x \in Nat /\ b <= x /\ x < b + sb
  BY <1>1, BytesAre DEF Tile, sb
<1>3. ~(c <= x /\ x < c + sc)
  BY <1>1, <1>2
<1> QED BY <1>1, <1>3, BytesAre DEF Tile, sc

\* What a client holds is part of its block.
LEMMA HeldInside ==
  ASSUME IInv, NEW c \in live
  PROVE  /\ c \in listed /\ c \in Nat /\ span[c] \in Nat /\ size[c] \in Nat
         /\ span[c] <= size[c] /\ Bytes(c, span[c]) \subseteq Tile(c)
<1> DEFINE sp == span[c]  sc == size[c]
<1>1. c \in listed /\ c \in Nat /\ sc \in Nat /\ sp \in Nat
  BY InvFacts, ListFacts DEF TypeOK
<1>2. sp = sc \/ sc >= sp
  BY InvFacts DEF LiveBlocksKept
<1> HIDE DEF sp, sc
<1>3. sp <= sc
  BY <1>1, <1>2
<1>4. Bytes(c, sp) \subseteq Bytes(c, sc)
  BY <1>1, <1>3 DEF Bytes
<1> QED BY <1>1, <1>3, <1>4 DEF Tile, sp, sc

-----------------------------------------------------------------------------
(* Splitting and merging cover the bytes they covered before.              *)

\* A split leaves the block and its rest, or nothing has happened.
LEMMA SplitShape ==
  ASSUME TypeOK, ListIntegrity,
         NEW b \in listed, NEW n \in Nat, n >= Q, n <= size[b],
         NEW m \in [Addr -> Status], TrySplitBlock(b, n, m)
  PROVE  \/ /\ UNCHANGED <<size, next, prev, listed>> /\ meta' = m
         \/ /\ b + n \in Addr /\ b + n \in Tile(b) /\ b + n \notin listed
            /\ listed' = listed \cup {b + n}
            /\ size'[b] = n /\ size'[b + n] = size[b] - n
            /\ \A a \in Addr : a \notin {b, b + n} =>
                  /\ size'[a] = size[a] /\ next'[a] = next[a] /\ meta'[a] = m[a]
                  /\ a # next[b] => prev'[a] = prev[a]
<1> DEFINE rest == b + n  sb == size[b]  left == sb - n
<1>1. /\ b \in Nat /\ b # Null /\ sb \in Nat /\ b + sb <= Top + 1 /\ Top \in Nat
      /\ Q \in Nat /\ Q > 0 /\ Threshold = 2 * Q
  BY QFacts, ListFacts
<1>2. CASE left < Threshold
  <2>1. ~(left >= Threshold)
    BY <1>1, <1>2
  <2> QED BY <2>1 DEF TrySplitBlock
<1>3. CASE left >= Threshold
  <2>0. ~(left < Threshold)
    BY <1>1, <1>3
  <2>1. /\ size' = [size EXCEPT ![rest] = left, ![b] = n]
        /\ next' = [next EXCEPT ![rest] = next[b], ![b] = rest]
        /\ prev' = [a \in Addr |-> IF a = rest THEN b
                                   ELSE IF a = next[b] THEN rest ELSE prev[a]]
        /\ meta' = [m EXCEPT ![rest] = Available]
        /\ listed' = listed \cup {rest}
    BY <2>0 DEF TrySplitBlock
  <2>2. rest \in Nat /\ rest # b /\ rest \in Addr
    BY <1>1, <1>3 DEF Addr, Null
  <2>3. rest \in Tile(b)
    <3>1. b <= rest /\ rest < b + sb
      BY <1>1, <1>3, <2>2
    <3> QED BY <1>1, <2>2, <3>1, BytesAre DEF Tile
  <2>4. rest \notin listed
    <3> SUFFICES ASSUME rest \in listed PROVE FALSE
      OBVIOUS
    <3> DEFINE r == rest  sr == size[rest]
    <3>1. r \in Nat /\ sr \in Nat /\ sr >= Q
      BY <2>2, ListFacts
    <3> HIDE DEF r, sr
    <3>2. r \in Bytes(r, sr)
      BY <1>1, <3>1, BytesAre
    <3>3. rest \in Tile(rest)
      BY <3>2 DEF Tile, r, sr
    <3> QED BY <2>2, <2>3, <3>3, TilesApart
  <2> HIDE DEF rest, left
  <2>5. size'[b] = n /\ size'[rest] = left
    BY <2>1, <2>2 DEF TypeOK
  <2>6. \A a \in Addr : a \notin {b, rest} =>
                  /\ size'[a] = size[a] /\ next'[a] = next[a] /\ meta'[a] = m[a]
                  /\ a # next[b] => prev'[a] = prev[a]
    BY <2>1, <2>2 DEF TypeOK
  <2> QED BY <2>1, <2>2, <2>3, <2>4, <2>5, <2>6 DEF rest, left
<1> QED BY <1>1, <1>2, <1>3

LEMMA SplitCovers ==
  ASSUME TypeOK, ListIntegrity,
         NEW b \in listed, NEW n \in Nat, n >= Q, n <= size[b],
         NEW m \in [Addr -> Status], TrySplitBlock(b, n, m)
  PROVE  /\ Tiles' = Tiles
         /\ size'[b] \in Nat /\ size'[b] <= size[b]
<1> DEFINE rest == b + n  sb == size[b]
<1>0. b \in Nat /\ sb \in Nat /\ listed \subseteq Addr
  BY ListFacts
<1>1. CASE UNCHANGED <<size, next, prev, listed>> /\ meta' = m
  <2>1. Tiles' = Tiles
    BY <1>1 DEF Tiles, Tile
  <2> QED BY <1>0, <1>1, <2>1
<1>2. CASE /\ listed' = listed \cup {rest} /\ size'[b] = n /\ size'[rest] = sb - n
           /\ \A c \in listed : c # b => size'[c] = size[c]
  <2>1. sb - n \in Nat /\ rest \in Nat /\ n <= sb
    BY <1>0
  <2>2. Tile(b)' = Bytes(b, n) /\ Tile(rest)' = Bytes(rest, sb - n)
    BY <1>2 DEF Tile
  <2> HIDE DEF sb
  <2>3. ASSUME NEW x PROVE x \in Tile(b) <=> x \in Tile(b)' \/ x \in Tile(rest)'
    <3>1. x \in Tile(b) <=> x \in Nat /\ b <= x /\ x < b + sb
      BY <1>0, BytesAre DEF Tile, sb
    <3>2. x \in Tile(b)' <=> x \in Nat /\ b <= x /\ x < b + n
      BY <1>0, <2>2, BytesAre
    <3>3. x \in Tile(rest)' <=> x \in Nat /\ rest <= x /\ x < rest + (sb - n)
      BY <2>1, <2>2, BytesAre
    <3>4. rest = b + n /\ rest + (sb - n) = b + sb
      BY <1>0, <2>1
    <3> QED BY <1>0, <2>1, <3>1, <3>2, <3>3, <3>4
  <2>4. ASSUME NEW c \in listed, c # b PROVE Tile(c)' = Tile(c)
    BY <1>2, <2>4 DEF Tile
  <2> HIDE DEF rest
  <2>5. ASSUME NEW x PROVE x \in Tiles' <=> x \in Tiles
    <3>1. x \in Tiles' <=> \E c \in listed' : x \in Tile(c)'
      BY DEF Tiles
    <3>2. x \in Tiles <=> \E c \in listed : x \in Tile(c)
      BY DEF Tiles
    <3> QED BY <1>2, <2>3, <2>4, <3>1, <3>2
  <2> QED BY <1>2, <2>1, <2>5 DEF Tiles, sb
<1> QED BY <1>0, <1>1, <1>2, SplitShape

\* Blocks that are merged touch: the sum of their sizes covers both.
LEMMA MergeCovers ==
  ASSUME TypeOK, ListIntegrity, NEW b \in listed,
         Mergeable(b, next[b]), MergeBlocks(b, next[b])
  PROVE  Tiles' = Tiles
<1> DEFINE u == next[b]  sb == size[b]  su == size[u]
<1>1. /\ u # Null /\ u # b /\ u \in listed /\ listed' = listed \ {u}
      /\ \A c \in listed : c # b => size'[c] = size[c]
  BY MergeKeepsList DEF Mergeable
<1>2. /\ b \in Nat /\ u \in Nat /\ sb \in Nat /\ su \in Nat /\ su >= Q /\ Q \in Nat
      /\ b < u => b + sb <= u
      /\ IsNext(listed, b, u)
  BY <1>1, ListFacts, QFacts
<1>3. b < u /\ b + sb = u
  <2>1. b < u
    BY <1>1, <1>2 DEF IsNext
  <2>2. b + sb >= u
    BY DEF Mergeable, Adjacent
  <2> QED BY <1>2, <2>1, <2>2
<1>4. size'[b] = sb + su
  BY <1>1, ListFacts DEF MergeBlocks, TypeOK
<1> HIDE DEF u, sb, su
<1>5. ASSUME NEW x PROVE x \in Tile(b)' <=> x \in Tile(b) \/ x \in Tile(u)
  <2>1. x \in Tile(b) <=> x \in Nat /\ b <= x /\ x < b + sb
    BY <1>2, BytesAre DEF Tile, sb
  <2>2. x \in Tile(u) <=> x \in Nat /\ u <= x /\ x < u + su
    BY <1>2, BytesAre DEF Tile, su
  <2>3. sb + su \in Nat /\ Tile(b)' = Bytes(b, sb + su)
    BY <1>2, <1>4 DEF Tile
  <2>4. x \in Tile(b)' <=> x \in Nat /\ b <= x /\ x < b + (sb + su)
    BY <1>2, <2>3, BytesAre
  <2> QED BY <1>2, <1>3, <2>1, <2>2, <2>4
<1>6. ASSUME NEW c \in listed, c # b PROVE Tile(c)' = Tile(c)
  BY <1>1, <1>6 DEF Tile
<1>7. ASSUME NEW x PROVE x \in Tiles' <=> x \in Tiles
  <2>1. x \in Tiles' <=> \E c \in listed' : x \in Tile(c)'
    BY DEF Tiles
  <2>2. x \in Tiles <=> \E c \in listed : x \in Tile(c)
    BY DEF Tiles
  <2>3. b \in listed' /\ listed = listed' \cup {u}
    BY <1>1
  <2> QED BY <1>1, <1>5, <1>6, <2>1, <2>2, <2>3
<1> QED BY <1>7 DEF Tiles

-----------------------------------------------------------------------------
(* No byte of the inserted ranges is lost.                                 *)

\* Where blocks and their sizes are kept, so is the tiling.
LEMMA SameTiles ==
  ASSUME UNCHANGED <<size, listed>>
  PROVE  Tiles' = Tiles
BY DEF Tiles, Tile

\* Between a call's beginning and its end, only insert_range adds bytes, and
\* nothing takes any away.
LEMMA TilesStep ==
  ASSUME IInv, [Next]_vars
  PROVE  /\ Tiles = pool => Tiles' = pool'
         /\ pool \subseteq pool'
<1>0. /\ TypeOK /\ ListIntegrity /\ listed \subseteq Addr /\ head \in listed \cup {Null}
      /\ (head = Null <=> listed = {}) /\ size \in [Addr -> Nat]
  BY InvFacts DEF TypeOK
<1>1. ASSUME NEW r \in Ranges, InsertFirst(r)
      PROVE  (Tiles = pool => Tiles' = pool') /\ pool \subseteq pool'
  <2> DEFINE d == AlignRange(r).data  s == AlignRange(r).size
  <2>1. /\ head = Null /\ d # Null /\ s >= Threshold /\ size' = [size EXCEPT ![d] = s]
        /\ listed' = {d} /\ pool' = pool \cup Bytes(d, s)
    BY <1>1 DEF InsertFirst, InitializeBlock
  <2>2. d \in Nat /\ s \in Nat /\ d + s <= Top + 1
    BY <2>1, AlignRangeFacts
  <2> HIDE DEF d, s
  <2>3. d \in Addr
    BY <2>1, <2>2, QFacts, BlockListAssumption DEF Addr, Null
  <2>4. Tile(d)' = Bytes(d, s)
    BY <1>0, <2>1, <2>3 DEF Tile
  <2>5. Tiles = {}
    BY <1>0, <2>1 DEF Tiles
  <2>6. Tiles' = Bytes(d, s)
    BY <2>1, <2>4 DEF Tiles
  <2> QED BY <2>1, <2>5, <2>6
<1>2. ASSUME NEW r \in Ranges, RangeIsNew(r), InsertBegin(r)
      PROVE  (Tiles = pool => Tiles' = pool') /\ pool \subseteq pool'
  <2> DEFINE d == AlignRange(r).data  s == AlignRange(r).size
  <2>1. /\ s >= Threshold /\ size' = [size EXCEPT ![d] = s] /\ UNCHANGED <<listed, pool>>
        /\ \A b \in listed : d \notin Tile(b)
    BY <1>2 DEF InsertBegin, InitializeBlock, list, RangeIsNew, Tile
  <2>2. d \in Nat
    BY <2>1, AlignRangeFacts
  <2> HIDE DEF d, s
  <2>3. \A b \in listed : b \in Tile(b)
    <3> SUFFICES ASSUME NEW b \in listed PROVE b \in Tile(b)
      OBVIOUS
    <3> DEFINE sb == size[b]
    <3>1. b \in Nat /\ sb \in Nat /\ sb >= Q /\ Q > 0 /\ Q \in Nat
      BY <1>0, ListFacts, QFacts
    <3> HIDE DEF sb
    <3>2. b \in Bytes(b, sb)
      BY <3>1, BytesAre
    <3> QED BY <3>2 DEF Tile, sb
  <2>4. \A b \in listed : size'[b] = size[b]
    BY <1>0, <2>1, <2>3
  <2>5. Tiles' = Tiles
    BY <2>1, <2>4 DEF Tiles, Tile
  <2> QED BY <2>1, <2>5
<1>3. CASE InsertLink
  <2> DEFINE r == call.block
  <2>1. /\ listed' = listed \cup {r} /\ pool' = pool \cup Tile(r) /\ size' = size
    BY <1>3 DEF InsertLink, Tile
  <2> HIDE DEF r
  <2>2. Tiles' = Tiles \cup Tile(r)
    BY <2>1 DEF Tiles, Tile
  <2> QED BY <2>1, <2>2
<1>4. ASSUME MergeBlocks(curr, next[curr]), Mergeable(curr, next[curr]), curr \in listed
      PROVE  (Tiles = pool => Tiles' = pool') /\ pool \subseteq pool'
  <2>1. pool' = pool
    BY <1>4 DEF MergeBlocks
  <2> QED BY <1>0, <1>4, <2>1, MergeCovers
<1>5. CASE MergeAhead \/ MergeBehind
  <2>1. /\ Mergeable(curr, next[curr]) /\ MergeBlocks(curr, next[curr])
        /\ curr \in listed \cup {Null}
    BY <1>5, InvFacts DEF MergeAhead, MergeBehind, MergeInv
  <2>2. curr \in listed
    BY <2>1 DEF Mergeable
  <2> QED BY <1>4, <2>1, <2>2
<1>6. ASSUME NEW b \in listed, NEW n \in Nat, n >= Q, n <= size[b], UNCHANGED pool,
             NEW m \in [Addr -> Status], TrySplitBlock(b, n, m)
      PROVE  (Tiles = pool => Tiles' = pool') /\ pool \subseteq pool'
  BY <1>0, <1>6, SplitCovers
<1>7. CASE AllocTake
  <2> DEFINE n == call.need  m == [meta EXCEPT ![curr] = Allocated]
  <2>1. /\ curr \in listed /\ n \in Nat /\ call.asked \in Nat /\ n >= call.asked + Q
        /\ size[curr] >= n /\ TrySplitBlock(curr, n, m) /\ UNCHANGED pool
    BY <1>7, InvFacts DEF AllocTake, Fits, ScanInv, TypeOK
  <2>2. m \in [Addr -> Status]
    BY <1>0 DEF TypeOK, Status
  <2>3. n >= Q /\ n <= size[curr]
    BY <1>0, <2>1, ListFacts, QFacts
  <2> HIDE DEF n, m
  <2> QED BY <1>6, <2>1, <2>2, <2>3
<1>8. CASE Recheck
  <2> DEFINE b == call.block  n == call.need  m == [meta EXCEPT ![b] = Allocated]
  <2>1. /\ b \in listed /\ n \in Nat /\ call.asked \in Nat /\ n >= call.asked + Q
        /\ UNCHANGED pool
    BY <1>8, InvFacts DEF Recheck, GrowInv, ScanInv, TypeOK
  <2>2. m \in [Addr -> Status] /\ n >= Q
    BY <1>0, <2>1, QFacts DEF TypeOK, Status
  <2>3. CASE n <= size[b] /\ TrySplitBlock(b, n, m)
    <3> HIDE DEF n, m, b
    <3> QED BY <1>6, <2>1, <2>2, <2>3
  <2>4. CASE UNCHANGED <<headers, listed>>
    BY <2>1, <2>4, SameTiles DEF headers
  <2> QED BY <1>8, <2>3, <2>4 DEF Recheck
<1>9. ASSUME NEW b \in Addr, NEW q \in Requests, ReallocateShrink(b, q)
      PROVE  (Tiles = pool => Tiles' = pool') /\ pool \subseteq pool'
  <2> DEFINE n == RoundUp(q)
  <2>1. /\ pc = "idle" /\ meta[b] = Allocated /\ n < size[b] /\ TrySplitBlock(b, n, meta)
        /\ UNCHANGED pool
    BY <1>9 DEF ReallocateShrink
  <2>2. b \in listed /\ n \in Nat /\ n >= q + Q /\ q \in Nat
    BY <2>1, IdleFacts, InvFacts, RoundUpFacts
  <2> HIDE DEF n
  <2>3. n >= Q /\ n <= size[b] /\ meta \in [Addr -> Status]
    BY <1>0, <2>1, <2>2, QFacts, ListFacts DEF TypeOK, Status
  <2> QED BY <1>6, <2>1, <2>2, <2>3
<1>10. CASE UNCHANGED <<size, listed, pool>>
  BY <1>10, SameTiles
<1>11. \/ UNCHANGED <<size, listed, pool>>
       \/ \E r \in Ranges : InsertFirst(r) \/ (RangeIsNew(r) /\ InsertBegin(r))
       \/ InsertLink \/ MergeAhead \/ MergeBehind \/ AllocTake \/ Recheck
       \/ \E b \in Addr, n \in Requests : ReallocateShrink(b, n)
  <2>1. CASE UNCHANGED vars
    BY <2>1 DEF vars, headers, list
  <2>2. CASE \E r \in Ranges : Insert(r)
    BY <2>2 DEF Insert, InsertNothing, vars, headers, list
  <2>3. CASE \E n \in Requests : Allocate(n)
    BY <2>3 DEF Allocate, headers, list
  <2>4. CASE \E b \in Addr : Deallocate(b) \/ StalePointer(b)
    BY <2>4 DEF Deallocate, StalePointer, vars, headers, list
  <2>5. CASE \E b \in Addr, n \in Requests : ReallocateSame(b, n) \/ ReallocateGrow(b, n)
    BY <2>5 DEF ReallocateSame, ReallocateGrow, headers, list
  <2>6. CASE CallInProgress
    BY <2>6 DEF CallInProgress, InsertScan, InsertOverlap, MergeAheadDone, MergeBehindDone,
                AllocNext, AllocFail, Probe, ProbeDone, Copy, headers, list
  <2> QED BY <2>1, <2>2, <2>3, <2>4, <2>5, <2>6 DEF Next
<1> QED BY <1>1, <1>2, <1>3, <1>5, <1>7, <1>8, <1>9, <1>10, <1>11

\* No byte given to insert_range is lost: splitting, merging, linking and
\* overlapping ranges leave blocks that tile what was inserted.
THEOREM NoByteIsLost == Spec => []PoolTiled
<1>1. PoolTiled <=> Tiles = pool
  BY DEF PoolTiled, Tiles, Tile
<1>2. PoolTiled' <=> Tiles' = pool'
  BY DEF PoolTiled, Tiles, Tile
<1>3. Init => PoolTiled
  BY DEF Init, PoolTiled
<1>4. IInv /\ PoolTiled /\ [Next]_vars => PoolTiled'
  BY <1>1, <1>2, TilesStep
<1> QED BY <1>3, <1>4, Safety, PTL DEF Spec

-----------------------------------------------------------------------------
(* No header is written into what a client keeps.                          *)

\* a is not inside what b's client keeps, behind b's own header.
Spared(a, b) == ~(b < a /\ a < b + span[b] /\ a < b + span'[b])

\* The headers of the list are in nobody's payload.
LEMMA ListedIsSpared ==
  ASSUME IInv, NEW a \in listed, NEW b \in live
  PROVE  Spared(a, b)
<1> DEFINE sb == size[b]  sp == span[b]
<1>1. /\ b \in listed /\ b \in Nat /\ sb \in Nat /\ sp \in Nat /\ sp <= sb
  BY HeldInside
<1>2. a \in Nat /\ (b < a => b + sb <= a)
  BY <1>1, InvFacts, ListFacts
<1> HIDE DEF sb, sp
<1>3. ~(b < a /\ a < b + sp)
  BY <1>1, <1>2
<1> QED BY <1>3 DEF Spared, sp

\* An address of one block is in nobody else's payload, and one outside every
\* block is in nobody's.
LEMMA OthersAreSpared ==
  ASSUME IInv, NEW a \in Addr, NEW b \in live, a \notin Tile(b)
  PROVE  Spared(a, b)
<1> DEFINE sb == size[b]  sp == span[b]
<1>1. /\ b \in listed /\ b \in Nat /\ sb \in Nat /\ sp \in Nat /\ sp <= sb
  BY HeldInside
<1>2. a \in Nat
  BY BlockListAssumption DEF Addr
<1> HIDE DEF sb, sp
<1>3. ~(b <= a /\ a < b + sb)
  BY <1>1, <1>2, BytesAre DEF Tile, sb
<1>4. ~(b < a /\ a < b + sp)
  BY <1>1, <1>2, <1>3
<1> QED BY <1>4 DEF Spared, sp

\* A split writes the header of the rest: past what the block's client, if it
\* has one, is left with.
LEMMA SplitSpares ==
  ASSUME IInv, NEW c \in listed, NEW n \in Nat, n >= Q, n <= size[c],
         NEW st \in Status, TrySplitBlock(c, n, [meta EXCEPT ![c] = st]),
         NEW a \in Addr, HeaderWritten(a),
         NEW b \in live, b = c => span'[b] = size'[b]
  PROVE  Spared(a, b)
<1> DEFINE m == [meta EXCEPT ![c] = st]  rest == c + n
<1>0. TypeOK /\ ListIntegrity /\ b \in listed /\ b \in Nat
  BY InvFacts, HeldInside
<1>1. m \in [Addr -> Status] /\ \A x \in Addr : x # c => m[x] = meta[x]
  BY <1>0 DEF TypeOK, Status
<1> HIDE DEF m
<1>2. \/ UNCHANGED <<size, next, prev, listed>> /\ meta' = m
      \/ /\ rest \in Addr /\ rest \in Tile(c) /\ rest \notin listed
         /\ size'[c] = n
         /\ \A x \in Addr : x \notin {c, rest} =>
               /\ size'[x] = size[x] /\ next'[x] = next[x] /\ meta'[x] = m[x]
               /\ x # next[c] => prev'[x] = prev[x]
  <2>1. TrySplitBlock(c, n, m)
    BY DEF m
  <2> QED BY <1>0, <1>1, <2>1, SplitShape
<1> HIDE DEF rest
<1>3. CASE a \in listed
  BY <1>3, ListedIsSpared
<1>4. CASE a \notin listed
  <2>1. a # c /\ a # next[c]
    BY <1>4, InvFacts
  <2>2. a = rest /\ rest \in Tile(c) /\ size'[c] = n
    BY <1>1, <1>2, <2>1 DEF HeaderWritten
  <2>3. CASE b = c
    <3>1. span'[b] = n
      BY <2>2, <2>3
    <3>2. ~(a < b + n)
      BY <1>0, <2>2, <2>3 DEF rest
    <3> QED BY <3>1, <3>2 DEF Spared
  <2>4. CASE b # c
    <3>1. a \notin Tile(b)
      BY <1>0, <2>2, <2>4, TilesApart
    <3> QED BY <3>1, OthersAreSpared
  <2> QED BY <2>3, <2>4
<1> QED BY <1>3, <1>4

LEMMA StepSpares ==
  ASSUME IInv, [Next]_vars, NEW a \in Addr, HeaderWritten(a), NEW b \in live, b \in live'
  PROVE  Spared(a, b)
<1>0. /\ TypeOK /\ ListIntegrity /\ listed \subseteq Addr /\ live \subseteq listed
      /\ Null \notin Addr /\ b \in listed
      /\ \A c \in listed : next[c] \in listed \cup {Null} /\ prev[c] \in listed \cup {Null}
  BY InvFacts
<1>1. ASSUME NEW r \in Ranges, InsertFirst(r) PROVE Spared(a, b)
  BY <1>1, <1>0, InvFacts DEF InsertFirst
<1>2. ASSUME NEW r \in Ranges, RangeIsNew(r), InsertBegin(r) PROVE Spared(a, b)
  <2> DEFINE d == AlignRange(r).data
  <2>1. a = d
    BY <1>0, <1>2 DEF InsertBegin, InitializeBlock, HeaderWritten, TypeOK
  <2>2. a \notin Tile(b)
    BY <1>0, <1>2, <2>1 DEF InsertBegin, RangeIsNew, Tile
  <2> QED BY <2>2, OthersAreSpared
<1>3. CASE InsertLink
  <2> DEFINE r == call.block
  <2>1. /\ r \in Addr /\ curr \in listed /\ r \notin Tile(b)
    BY <1>0, <1>3, InvFacts DEF InsertLink, InsertInv, Tile
  <2>2. a = r \/ a \in listed
    BY <1>0, <1>3, <2>1 DEF InsertLink, LinkBefore, LinkAfter, HeaderWritten, TypeOK
  <2> QED BY <2>1, <2>2, ListedIsSpared, OthersAreSpared
<1>4. CASE MergeAhead \/ MergeBehind
  <2>1. /\ Mergeable(curr, next[curr]) /\ MergeBlocks(curr, next[curr])
        /\ curr \in listed \cup {Null}
    BY <1>4, InvFacts DEF MergeAhead, MergeBehind, MergeInv
  <2>2. curr \in listed /\ next[curr] \in listed
    BY <1>0, <2>1 DEF Mergeable
  <2>3. a = curr \/ a = next[next[curr]]
    BY <1>0, <2>1 DEF MergeBlocks, HeaderWritten, TypeOK
  <2>4. a \in listed
    BY <1>0, <2>2, <2>3
  <2> QED BY <2>4, ListedIsSpared
<1>5. CASE AllocTake
  <2> DEFINE n == call.need
  <2>1. /\ curr \in listed /\ n \in Nat /\ call.asked \in Nat /\ n >= call.asked + Q
        /\ size[curr] >= n /\ meta[curr] # Allocated
        /\ TrySplitBlock(curr, n, [meta EXCEPT ![curr] = Allocated])
        /\ pc = "alloc_scan"
    BY <1>5, InvFacts DEF AllocTake, Fits, ScanInv, TypeOK
  <2>2. n >= Q /\ n <= size[curr]
    BY <1>0, <2>1, ListFacts, QFacts
  <2>3. b # curr
    <3> SUFFICES ASSUME b = curr PROVE FALSE
      OBVIOUS
    <3>1. Reallocating(curr)
      BY <2>1, InvFacts DEF LiveBlocksKept
    <3>2. size[curr] < n
      BY <2>1, <3>1, InvFacts DEF Reallocating, GrowInv
    <3> DEFINE sc == size[curr]
    <3>3. sc \in Nat /\ sc < n /\ sc >= n
      BY <2>1, <3>2, <1>0, ListFacts
    <3> HIDE DEF sc, n
    <3> QED BY <2>1, <3>3
  <2> HIDE DEF n
  <2> QED BY <2>1, <2>2, <2>3, SplitSpares DEF Status
<1>6. CASE Recheck
  <2> DEFINE c == call.block  n == call.need
  <2>1. /\ c \in listed /\ n \in Nat /\ call.asked \in Nat /\ n >= call.asked + Q /\ n >= Q
    <3>1. /\ c \in listed /\ n \in Nat /\ call.asked \in Nat /\ n >= call.asked + Q
      BY <1>6, InvFacts DEF Recheck, GrowInv, ScanInv, TypeOK
    <3> QED BY <3>1, QFacts
  <2>2. CASE n <= size[c] /\ TrySplitBlock(c, n, [meta EXCEPT ![c] = Allocated])
             /\ Hold(c, call.asked, size'[c])
    <3>1. span'[c] = size'[c]
      BY <1>0, <2>1, <2>2 DEF Hold, TypeOK
    <3> HIDE DEF c, n
    <3> QED BY <2>1, <2>2, <3>1, SplitSpares DEF Status
  <2>3. CASE UNCHANGED headers
    BY <2>3 DEF headers, HeaderWritten
  <2> QED BY <1>6, <2>2, <2>3 DEF Recheck
<1>7. ASSUME NEW c \in Addr, NEW q \in Requests, ReallocateShrink(c, q) PROVE Spared(a, b)
  <2> DEFINE n == RoundUp(q)
  <2>1. /\ pc = "idle" /\ meta[c] = Allocated /\ n < size[c] /\ TrySplitBlock(c, n, meta)
        /\ Hold(c, q, size'[c])
    BY <1>7 DEF ReallocateShrink
  <2>2. c \in listed /\ n \in Nat /\ n >= q + Q /\ q \in Nat
    BY <2>1, IdleFacts, InvFacts, RoundUpFacts
  <2> HIDE DEF n
  <2>3. n >= Q /\ n <= size[c] /\ span'[c] = size'[c]
    BY <1>0, <2>1, <2>2, QFacts, ListFacts DEF Hold, TypeOK
  <2>4. meta = [meta EXCEPT ![c] = Allocated]
    BY <1>0, <2>1 DEF TypeOK
  <2> QED BY <2>1, <2>2, <2>3, <2>4, SplitSpares DEF Status
<1>8. ASSUME NEW c \in Addr, Deallocate(c) PROVE Spared(a, b)
  <2>1. a = c /\ c \in listed
    BY <1>0, <1>8, IdleFacts DEF Deallocate, HeaderWritten, TypeOK
  <2> QED BY <2>1, ListedIsSpared
<1>9. CASE ProbeDone \/ Copy
  <2>1. a = call.block /\ call.block \in listed
    BY <1>0, <1>9, InvFacts DEF ProbeDone, Copy, HeaderWritten, TypeOK, GrowInv
  <2> QED BY <2>1, ListedIsSpared
<1>10. ~UNCHANGED headers
  BY DEF HeaderWritten, headers
<1>11. CASE UNCHANGED vars
  BY <1>10, <1>11 DEF vars
<1>12. CASE \E r \in Ranges : Insert(r)
  <2>1. PICK r \in Ranges : Insert(r)
    BY <1>12
  <2>2. ~InsertNothing(r)
    BY <1>10 DEF InsertNothing, vars
  <2> QED BY <1>1, <1>2, <2>1, <2>2 DEF Insert
<1>13. CASE \E n \in Requests : Allocate(n)
  BY <1>10, <1>13 DEF Allocate
<1>14. CASE \E c \in Addr : Deallocate(c) \/ StalePointer(c)
  BY <1>8, <1>10, <1>14 DEF StalePointer, vars
<1>15. CASE \E c \in Addr, n \in Requests :
              ReallocateSame(c, n) \/ ReallocateShrink(c, n) \/ ReallocateGrow(c, n)
  BY <1>7, <1>10, <1>15 DEF ReallocateSame, ReallocateGrow
<1>16. CASE CallInProgress
  BY <1>3, <1>4, <1>5, <1>6, <1>9, <1>10, <1>16
     DEF CallInProgress, InsertScan, InsertOverlap, MergeAheadDone, MergeBehindDone,
         AllocNext, AllocFail, Probe
<1> QED BY <1>11, <1>12, <1>13, <1>14, <1>15, <1>16 DEF Next

\* No step of any call writes a header where a client keeps its data, before
\* and after that step.
THEOREM HeadersSparePayloads == Spec => NoStomp
<1>1. IInv /\ [Next]_vars
        => [\A a \in Addr, b \in live \cap live' :
              HeaderWritten(a) => ~(b < a /\ a < b + span[b] /\ a < b + span'[b])]_vars
  BY StepSpares DEF Spared
<1> QED BY <1>1, Safety, PTL DEF Spec, NoStomp

-----------------------------------------------------------------------------
(* What merging leaves behind has no free neighbour.                       *)

\* The block behind curr is the one being merged; looking ahead from it has
\* nothing left to do.
MergedInv == pc = "merge_behind" => ~Mergeable(MergedBlock, next[MergedBlock])

\* The block before b points at b.
LEMMA BehindIsBack ==
  ASSUME TypeOK, ListIntegrity, NEW b \in listed
  PROVE  /\ prev[b] = Null => head = b
         /\ prev[b] # Null => prev[b] \in listed /\ prev[b] # b /\ next[prev[b]] = b
         /\ next[b] # Null => prev[b] # next[b] /\ prev[next[b]] = b
<1> DEFINE p == prev[b]  u == next[b]
<1>1. /\ b \in Nat /\ p \in Nat /\ u \in Nat /\ listed \in SUBSET (Nat \ {Null})
      /\ IsPrev(listed, b, p) /\ IsNext(listed, b, u)
      /\ head \in listed /\ \A c \in listed : head <= c
  BY ListFacts DEF ListIntegrity, Ends
<1> HIDE DEF p, u
<1>2. p = Null => head = b
  <2>1. p = Null => b <= head /\ head <= b
    BY <1>1 DEF IsPrev
  <2>2. head \in Nat
    BY <1>1
  <2> QED BY <1>1, <2>1, <2>2
<1>3. p # Null => p \in listed /\ p < b /\ next[p] = b
  <2> SUFFICES ASSUME p # Null PROVE p \in listed /\ p < b /\ next[p] = b
    OBVIOUS
  <2>1. p \in listed /\ p < b /\ \A c \in listed : b <= c \/ c <= p
    BY <1>1 DEF IsPrev
  <2> DEFINE v == next[p]
  <2>2. v \in Nat /\ IsNext(listed, p, v)
    BY <2>1, ListFacts
  <2> HIDE DEF v
  <2>3. v # Null
    BY <1>1, <2>1, <2>2 DEF IsNext
  <2>4. v \in listed /\ p < v /\ \A c \in listed : c <= p \/ v <= c
    BY <2>2, <2>3 DEF IsNext
  <2>5. v = b
    <3>1. b <= v /\ v <= b
      BY <1>1, <2>1, <2>2, <2>4
    <3> QED BY <1>1, <2>2, <3>1
  <2> QED BY <2>1, <2>5 DEF v
<1>4. u # Null => p # u /\ prev[u] = b
  <2> SUFFICES ASSUME u # Null PROVE p # u /\ prev[u] = b
    OBVIOUS
  <2>1. u \in listed /\ b < u /\ \A c \in listed : c <= b \/ u <= c
    BY <1>1 DEF IsNext
  <2> DEFINE v == prev[u]
  <2>2. v \in Nat /\ IsPrev(listed, u, v)
    BY <2>1, ListFacts
  <2> HIDE DEF v
  <2>3. v # Null
    BY <1>1, <2>1, <2>2 DEF IsPrev
  <2>4. v \in listed /\ v < u /\ \A c \in listed : u <= c \/ c <= v
    BY <2>2, <2>3 DEF IsPrev
  <2>5. v = b
    <3>1. b <= v /\ v <= b
      BY <1>1, <2>1, <2>2, <2>4
    <3> QED BY <1>1, <2>2, <3>1
  <2>6. p # u
    BY <1>1, <1>3, <2>1
  <2> QED BY <2>5, <2>6 DEF v
<1>5. p # Null => p # b
  BY <1>1, <1>3
<1> QED BY <1>2, <1>3, <1>4, <1>5 DEF p, u

\* Merging a block with the one behind it, which cannot be merged with its
\* own next, gives a block that cannot either.
LEMMA MergedIsLast ==
  ASSUME TypeOK, ListIntegrity, NEW b \in listed, NEW u \in listed, u = next[b],
         Mergeable(b, u), MergeBlocks(b, u), ~Mergeable(u, next[u])
  PROVE  ~(/\ next'[b] # Null /\ b + size'[b] >= next'[b]
           /\ meta'[b] = Available /\ meta'[next'[b]] = Available)
<1> DEFINE w == next[u]  sb == size[b]  su == size[u]
<1>1. /\ size' = [size EXCEPT ![b] = sb + su] /\ next' = [next EXCEPT ![b] = w]
      /\ meta' = meta
  BY DEF MergeBlocks
<1>2. /\ b \in Nat /\ u \in Nat /\ sb \in Nat /\ su \in Nat /\ w \in Nat
      /\ IsNext(listed, b, u) /\ IsNext(listed, u, w) /\ listed \in SUBSET (Nat \ {Null})
      /\ \A c, d \in listed : c < d => c + size[c] <= d
      /\ listed \subseteq Addr
  BY ListFacts
<1>3. size'[b] = sb + su /\ next'[b] = w
  BY <1>1, <1>2 DEF TypeOK
<1>4. u # Null /\ b # Null /\ meta[u] = Available
  BY DEF Mergeable
<1>5. CASE w = Null
  BY <1>3, <1>5
<1>6. CASE w # Null /\ meta[w] # Available
  BY <1>1, <1>3, <1>6
<1>7. CASE w # Null /\ meta[w] = Available
  <2>1. u # w
    BY <1>2, <1>7 DEF IsNext
  <2>2. ~(u + su >= w)
    BY <1>4, <1>7, <2>1 DEF Mergeable, Adjacent
  <2>3. b < u
    BY <1>2, <1>4 DEF IsNext
  <2>4. b + sb <= u
    BY <1>2, <2>3
  <2> HIDE DEF sb, su, w
  <2>5. ~(b + (sb + su) >= w)
    BY <1>2, <2>2, <2>4
  <2> QED BY <1>3, <2>5 DEF sb, su, w
<1> QED BY <1>5, <1>6, <1>7

LEMMA MergedStep ==
  ASSUME IInv, MergedInv, [Next]_vars
  PROVE  MergedInv'
<1> SUFFICES ASSUME pc' = "merge_behind" PROVE ~Mergeable(MergedBlock, next[MergedBlock])'
  BY DEF MergedInv
<1>0. TypeOK /\ ListIntegrity
  BY InvFacts
<1>1. CASE UNCHANGED vars
  BY <1>1 DEF vars, headers, list, control, MergedInv, MergedBlock, Mergeable, Adjacent
<1>2. CASE MergeAheadDone
  <2>1. /\ curr \in listed /\ ~Mergeable(curr, next[curr]) /\ curr' = prev[curr]
        /\ UNCHANGED <<size, meta, next, prev, head>>
    BY <1>2, InvFacts DEF MergeAheadDone, MergeInv, Goto, headers, list
  <2>2. MergedBlock' = curr
    BY <1>0, <2>1, BehindIsBack DEF MergedBlock
  <2> QED BY <2>1, <2>2 DEF Mergeable, Adjacent
<1>3. CASE MergeBehind
  <2> DEFINE u == next[curr]  p == prev[curr]
  <2>1. /\ pc = "merge_behind" /\ Mergeable(curr, u) /\ MergeBlocks(curr, u) /\ curr' = p
        /\ curr \in listed \cup {Null} /\ Null \notin listed
    BY <1>3, InvFacts DEF MergeBehind, MergeInv, Goto
  <2>2. curr \in listed /\ u # Null /\ u \in listed
    BY <2>1, InvFacts DEF Mergeable
  <2>3. MergedBlock = u
    BY <2>1, <2>2 DEF MergedBlock
  <2>4. ~Mergeable(u, next[u])
    BY <2>1, <2>3 DEF MergedInv
  <2>5. MergedBlock' = curr
    <3>1. next' = [next EXCEPT ![curr] = next[u]] /\ head' = head
      BY <2>1 DEF MergeBlocks
    <3>2. CASE p = Null
      BY <1>0, <2>1, <2>2, <3>1, <3>2, BehindIsBack DEF MergedBlock
    <3>3. CASE p # Null
      <4>1. p \in listed /\ p # curr /\ next[p] = curr
        BY <1>0, <2>2, <3>3, BehindIsBack
      <4> QED BY <2>1, <3>1, <3>3, <4>1 DEF MergedBlock
    <3> QED BY <3>2, <3>3
  <2> HIDE DEF u
  <2>6. ~(/\ next'[curr] # Null /\ curr + size'[curr] >= next'[curr]
          /\ meta'[curr] = Available /\ meta'[next'[curr]] = Available)
    BY <1>0, <2>1, <2>2, <2>4, MergedIsLast DEF u
  <2> QED BY <2>5, <2>6 DEF Mergeable, Adjacent
<1>4. CASE Next
  BY <1>2, <1>3, <1>4, InvFacts
     DEF Next, Insert, InsertNothing, InsertFirst, InsertBegin, Allocate, Deallocate,
         StalePointer, ReallocateSame, ReallocateShrink, ReallocateGrow, CallInProgress,
         InsertScan, InsertOverlap, InsertLink, MergeAhead, MergeBehindDone, AllocNext,
         AllocTake, AllocFail, Probe, ProbeDone, Recheck, Copy, Enter, Goto, Return,
         control, vars, ScanInv, MergedInv
<1> QED BY <1>1, <1>4

\* When deallocate or insert_range returns, the free block it leaves behind
\* touches no other free block, ahead of it or behind it.
THEOREM ReturnsMerged == Spec => MergedOnReturn
<1>1. Init => MergedInv
  BY DEF Init, MergedInv
<1>2. IInv /\ MergedInv /\ [Next]_vars => MergedInv'
  BY MergedStep
<1>3. IInv /\ MergedInv /\ [Next]_vars
        => [(pc = "merge_behind" /\ pc' = "idle") =>
              ~Mergeable(MergedBlock, next[MergedBlock]) /\ ~Mergeable(curr, MergedBlock)]_vars
  <2> SUFFICES ASSUME IInv, MergedInv, Next, pc = "merge_behind", pc' = "idle"
               PROVE  ~Mergeable(curr, MergedBlock)
    BY DEF MergedInv
  <2>1. MergeBehindDone
    BY DEF Next, Insert, InsertNothing, InsertFirst, InsertBegin, Allocate, Deallocate,
           StalePointer, ReallocateSame, ReallocateShrink, ReallocateGrow, CallInProgress,
           InsertScan, InsertOverlap, InsertLink, MergeAhead, MergeAheadDone, MergeBehind,
           AllocNext, AllocTake, AllocFail, Probe, ProbeDone, Recheck, Copy, Goto
  <2> QED BY <2>1 DEF MergeBehindDone, MergedBlock, Mergeable
<1> QED BY <1>1, <1>2, <1>3, Safety, PTL DEF Spec, MergedOnReturn

-----------------------------------------------------------------------------
(* The block list implements the abstract heap.                            *)

LEMMA OwnedIs ==
  /\ DOMAIN Owned = live
  /\ \A b \in live : Owned[b] = Bytes(b, span[b])
BY DEF Owned

LEMMA OwnedNext ==
  /\ Owned' = [b \in live' |-> Bytes(b, span'[b])]
  /\ DOMAIN Owned' = live'
  /\ \A b \in live' : Owned'[b] = Bytes(b, span'[b])
BY DEF Owned

\* Nobody else holds a byte of a block.
LEMMA TileIsFree ==
  ASSUME IInv, Tiles = pool, NEW b \in listed
  PROVE  /\ Tile(b) \subseteq pool
         /\ \A h \in live : h # b => Tile(b) \cap Bytes(h, span[h]) = {}
         /\ b \notin live => Tile(b) \subseteq pool \ Heap!Held
         /\ b \in live => Tile(b) \subseteq (pool \ Heap!Held) \cup Owned[b]
<1>1. Tile(b) \subseteq pool
  BY DEF Tiles
<1>2. \A h \in live : h # b => Tile(b) \cap Bytes(h, span[h]) = {}
  <2> SUFFICES ASSUME NEW h \in live, h # b, NEW x \in Tile(b), x \in Bytes(h, span[h])
               PROVE  FALSE
    OBVIOUS
  <2>1. h \in listed /\ x \in Tile(h)
    BY HeldInside
  <2>2. TypeOK /\ ListIntegrity
    BY InvFacts
  <2> QED BY <2>1, <2>2, TilesApart
<1>3. Heap!Held = UNION {Bytes(h, span[h]) : h \in live}
  BY DEF Heap!Held, Owned
<1>4. ASSUME NEW x \in Tile(b), x \in Heap!Held PROVE b \in live /\ x \in Owned[b]
  <2>1. PICK h \in live : x \in Bytes(h, span[h])
    BY <1>3, <1>4
  <2>2. h = b
    BY <1>2, <2>1
  <2> QED BY <2>1, <2>2, OwnedIs
<1> QED BY <1>1, <1>2, <1>4

\* The abstract step behind each thing that can change what clients hold.
LEMMA GrantedIs ==
  ASSUME IInv, Tiles = pool, NEW b \in listed, b \notin live, pool' = pool,
         size'[b] \in Nat, size'[b] <= size[b],
         live' = live \cup {b}, span' = [span EXCEPT ![b] = size'[b]]
  PROVE  Heap!HeapNext
<1> DEFINE bytes == Bytes(b, size'[b])
<1>1. b \in Nat /\ size[b] \in Nat /\ b \in Addr /\ span \in [Addr -> Nat] /\ live \subseteq Addr
  BY InvFacts, ListFacts DEF TypeOK
<1>2. bytes \subseteq Tile(b)
  BY <1>1 DEF Bytes, Tile
<1>3. bytes \subseteq pool \ Heap!Held
  BY <1>2, TileIsFree
<1>4. Owned'[b] = bytes
  BY <1>1, OwnedNext
<1>5. \A h \in live : Bytes(h, span'[h]) = Owned[h]
  BY <1>1, OwnedIs
<1> HIDE DEF bytes
<1>6. Owned' = [x \in DOMAIN Owned \cup {b} |-> IF x = b THEN bytes ELSE Owned[x]]
  BY <1>4, <1>5, OwnedIs, OwnedNext
<1>7. Heap!Grant(b, Owned'[b])
  BY <1>3, <1>4, <1>6, OwnedIs DEF Heap!Grant
<1> QED BY <1>7, OwnedNext DEF Heap!HeapNext

LEMMA ReleasedIs ==
  ASSUME IInv, NEW b \in live, pool' = pool,
         live' = live \ {b}, span' = [span EXCEPT ![b] = 0]
  PROVE  Heap!HeapNext
<1>1. span \in [Addr -> Nat] /\ live \subseteq Addr
  BY InvFacts DEF TypeOK
<1>2. \A h \in live \ {b} : Bytes(h, span'[h]) = Owned[h]
  BY <1>1, OwnedIs
<1>3. Owned' = [x \in DOMAIN Owned \ {b} |-> Owned[x]]
  BY <1>2, OwnedIs, OwnedNext
<1>4. Heap!GiveBack(b)
  BY <1>3, OwnedIs DEF Heap!GiveBack
<1> QED BY <1>4, OwnedIs DEF Heap!HeapNext

LEMMA ResizedExtentIs ==
  ASSUME IInv, Tiles = pool, NEW b \in live, pool' = pool,
         NEW k \in Nat, k <= size[b],
         live' = live \cup {b}, span' = [span EXCEPT ![b] = k]
  PROVE  Heap!HeapNext
<1> DEFINE bytes == Bytes(b, k)
<1>1. b \in listed /\ b \in Nat /\ size[b] \in Nat /\ b \in Addr
      /\ span \in [Addr -> Nat] /\ live \subseteq Addr /\ live' = live
  BY InvFacts, ListFacts DEF TypeOK
<1>2. bytes \subseteq Tile(b)
  BY <1>1 DEF Bytes, Tile
<1>3. bytes \subseteq (pool \ Heap!Held) \cup Owned[b]
  BY <1>1, <1>2, TileIsFree
<1>4. Owned'[b] = bytes
  BY <1>1, OwnedNext
<1>5. \A h \in live : h # b => Bytes(h, span'[h]) = Owned[h]
  BY <1>1, OwnedIs
<1> HIDE DEF bytes
<1>6. Owned' = [Owned EXCEPT ![b] = bytes]
  <2>1. Owned' = [x \in live |-> IF x = b THEN bytes ELSE Owned[x]]
    BY <1>1, <1>4, <1>5, OwnedNext
  <2>2. Owned = [x \in live |-> Owned[x]]
    BY DEF Owned
  <2> QED BY <2>1, <2>2
<1>7. Heap!Resize(b, Owned'[b])
  BY <1>3, <1>4, <1>6, OwnedIs DEF Heap!Resize
<1> QED BY <1>1, <1>7, OwnedIs, OwnedNext DEF Heap!HeapNext

LEMMA MovedIs ==
  ASSUME IInv, Tiles = pool, NEW b \in live, NEW c \in listed, c \notin live, pool' = pool,
         live' = (live \ {b}) \cup {c}, span' = [span EXCEPT ![b] = 0, ![c] = size[c]]
  PROVE  Heap!HeapNext
<1> DEFINE bytes == Bytes(c, size[c])
<1>1. c \in Addr /\ span \in [Addr -> Nat] /\ live \subseteq Addr /\ b # c
  BY InvFacts, ListFacts DEF TypeOK
<1>2. bytes \subseteq pool \ Heap!Held
  BY TileIsFree DEF Tile
<1>3. Owned'[c] = bytes
  BY <1>1, OwnedNext
<1>4. \A h \in live \ {b} : Bytes(h, span'[h]) = Owned[h]
  BY <1>1, OwnedIs
<1> HIDE DEF bytes
<1>5. Owned' = [x \in (DOMAIN Owned \ {b}) \cup {c} |-> IF x = c THEN bytes ELSE Owned[x]]
  BY <1>3, <1>4, OwnedIs, OwnedNext
<1>6. Heap!Move(b, c, Owned'[c])
  BY <1>2, <1>3, <1>5, OwnedIs DEF Heap!Move
<1> QED BY <1>6, OwnedIs, OwnedNext DEF Heap!HeapNext

LEMMA DonatedIs ==
  ASSUME UNCHANGED clients, pool \subseteq pool'
  PROVE  [Heap!HeapNext]_Heap!heapVars
<1>1. Owned' = Owned
  BY DEF Owned, clients
<1>2. Heap!Donate(pool' \ pool)
  BY <1>1 DEF Heap!Donate
<1> QED BY <1>2 DEF Heap!HeapNext

\* Every step of a call is a step of the heap, or one no client notices.
LEMMA HeapStep ==
  ASSUME IInv, Tiles = pool, [Next]_vars
  PROVE  [Heap!HeapNext]_Heap!heapVars
<1>0. TypeOK /\ ListIntegrity /\ live \subseteq listed /\ pool \subseteq pool'
  BY InvFacts, TilesStep
<1>1. CASE UNCHANGED clients
  BY <1>0, <1>1, DonatedIs
<1>2. CASE AllocTake
  <2>1. /\ curr \in listed /\ call.need \in Nat /\ call.asked \in Nat
        /\ call.need >= call.asked + Q /\ size[curr] >= call.need /\ meta[curr] # Allocated
        /\ TrySplitBlock(curr, call.need, [meta EXCEPT ![curr] = Allocated])
        /\ pc = "alloc_scan" /\ pool' = pool
    BY <1>2, InvFacts DEF AllocTake, Fits, ScanInv, TypeOK
  <2>2. call.need >= Q /\ call.need <= size[curr]
    BY <1>0, <2>1, ListFacts, QFacts
  <2>3. [meta EXCEPT ![curr] = Allocated] \in [Addr -> Status]
    BY <1>0 DEF TypeOK, Status
  <2>4. size'[curr] \in Nat /\ size'[curr] <= size[curr]
    BY <1>0, <2>1, <2>2, <2>3, SplitCovers
  <2>5. CASE call.op = "allocate"
    <3>1. curr \notin live
      BY <2>1, <2>5, InvFacts DEF LiveBlocksKept, Reallocating
    <3>2. live' = live \cup {curr} /\ span' = [span EXCEPT ![curr] = size'[curr]]
      BY <1>2, <2>5 DEF AllocTake, Hold
    <3> QED BY <2>1, <2>4, <3>1, <3>2, GrantedIs
  <2>6. CASE call.op # "allocate"
    BY <1>1, <1>2, <2>6 DEF AllocTake
  <2> QED BY <2>5, <2>6
<1>3. CASE AllocFail
  <2>1. CASE call.op = "reallocate" /\ meta[call.block] # Allocated
    <3>1. /\ call.block \in live /\ pool' = pool /\ live' = live \ {call.block}
          /\ span' = [span EXCEPT ![call.block] = 0]
      BY <1>3, <2>1, InvFacts DEF AllocFail, Drop, list, GrowInv
    <3> QED BY <3>1, ReleasedIs
  <2>2. CASE ~(call.op = "reallocate" /\ meta[call.block] # Allocated)
    BY <1>1, <1>3, <2>2 DEF AllocFail
  <2> QED BY <2>1, <2>2
<1>4. ASSUME NEW b \in Addr, Deallocate(b) PROVE Heap!HeapNext
  <2>1. /\ b \in live /\ pool' = pool /\ live' = live \ {b}
        /\ span' = [span EXCEPT ![b] = 0]
    BY <1>4, IdleFacts DEF Deallocate, Drop, list
  <2> QED BY <2>1, ReleasedIs
<1>5. ASSUME NEW b \in Addr, NEW n \in Requests, ReallocateSame(b, n) PROVE Heap!HeapNext
  <2>1. /\ b \in live /\ pool' = pool /\ live' = live \cup {b}
        /\ span' = [span EXCEPT ![b] = size[b]]
    BY <1>5, IdleFacts DEF ReallocateSame, Hold, list
  <2>2. size[b] \in Nat /\ size[b] <= size[b]
    BY <1>0, <2>1, HeldInside
  <2> QED BY <1>0, <2>1, <2>2, ResizedExtentIs
<1>6. ASSUME NEW b \in Addr, NEW q \in Requests, ReallocateShrink(b, q) PROVE Heap!HeapNext
  <2> DEFINE n == RoundUp(q)
  <2>1. /\ pc = "idle" /\ meta[b] = Allocated /\ n < size[b] /\ TrySplitBlock(b, n, meta)
        /\ live' = live \cup {b} /\ span' = [span EXCEPT ![b] = size'[b]] /\ pool' = pool
    BY <1>6 DEF ReallocateShrink, Hold
  <2>2. b \in live /\ b \in listed /\ n \in Nat /\ n >= q + Q /\ q \in Nat
    BY <2>1, IdleFacts, InvFacts, RoundUpFacts
  <2> HIDE DEF n
  <2>3. n >= Q /\ n <= size[b] /\ meta \in [Addr -> Status]
    BY <1>0, <2>1, <2>2, QFacts, ListFacts DEF TypeOK, Status
  <2>4. size'[b] \in Nat /\ size'[b] <= size[b]
    BY <1>0, <2>1, <2>2, <2>3, SplitCovers
  <2> QED BY <2>1, <2>2, <2>4, ResizedExtentIs
<1>7. CASE Recheck
  <2> DEFINE b == call.block  n == call.need  m == [meta EXCEPT ![b] = Allocated]
  <2>1. /\ b \in live /\ b \in listed /\ n \in Nat /\ call.asked \in Nat
        /\ n >= call.asked + Q /\ pool' = pool
    BY <1>7, InvFacts DEF Recheck, GrowInv, ScanInv, TypeOK
  <2>2. n >= Q /\ m \in [Addr -> Status]
    BY <1>0, <2>1, QFacts DEF TypeOK, Status
  <2>3. CASE n <= size[b] /\ TrySplitBlock(b, n, m) /\ Hold(b, call.asked, size'[b])
    <3>1. live' = live \cup {b} /\ span' = [span EXCEPT ![b] = size'[b]]
      BY <2>3 DEF Hold
    <3> HIDE DEF b, n, m
    <3>2. size'[b] \in Nat /\ size'[b] <= size[b]
      BY <1>0, <2>1, <2>2, <2>3, SplitCovers
    <3> QED BY <2>1, <3>1, <3>2, ResizedExtentIs
  <2>4. CASE UNCHANGED clients
    BY <1>1, <2>4
  <2> QED BY <1>7, <2>3, <2>4 DEF Recheck
<1>8. CASE Copy
  <2>1. /\ call.block \in live /\ curr \in listed /\ curr \notin live /\ pool' = pool
        /\ live' = (live \ {call.block}) \cup {curr}
        /\ span' = [span EXCEPT ![call.block] = 0, ![curr] = size[curr]]
    BY <1>8, InvFacts DEF Copy, list, GrowInv
  <2> QED BY <2>1, MovedIs
<1>9. CASE UNCHANGED vars
  BY <1>1, <1>9 DEF vars
<1>10. CASE \E r \in Ranges : Insert(r)
  BY <1>1, <1>10 DEF Insert, InsertNothing, InsertFirst, InsertBegin, vars
<1>11. CASE \E n \in Requests : Allocate(n)
  BY <1>1, <1>11 DEF Allocate
<1>12. CASE \E b \in Addr : Deallocate(b) \/ StalePointer(b)
  BY <1>1, <1>4, <1>12 DEF StalePointer, vars
<1>13. CASE \E b \in Addr, n \in Requests :
              ReallocateSame(b, n) \/ ReallocateShrink(b, n) \/ ReallocateGrow(b, n)
  BY <1>1, <1>5, <1>6, <1>13 DEF ReallocateGrow
<1>14. CASE CallInProgress
  BY <1>1, <1>2, <1>3, <1>7, <1>8, <1>14
     DEF CallInProgress, InsertScan, InsertOverlap, InsertLink, MergeAhead, MergeAheadDone,
         MergeBehind, MergeBehindDone, AllocNext, Probe, ProbeDone
<1> QED BY <1>9, <1>10, <1>11, <1>12, <1>13, <1>14 DEF Next

\* Behind every splitting, merging and moving of blocks, clients see a heap
\* that grants, resizes and moves extents of free donated bytes.
THEOREM ListImplementsHeap == Spec => ImplementsHeap
<1>1. Init => Heap!HeapInit
  BY DEF Init, Heap!HeapInit, Owned
<1>2. PoolTiled => Tiles = pool
  BY DEF PoolTiled, Tiles, Tile
<1>3. IInv /\ PoolTiled /\ [Next]_vars => [Heap!HeapNext]_Heap!heapVars
  BY <1>2, HeapStep
<1> QED BY <1>1, <1>3, Safety, NoByteIsLost, PTL DEF Spec, ImplementsHeap, Heap!HeapBehaviour

\* No byte is ever held twice, and none that was not inserted.
THEOREM NobodyShares == Spec => []ClientsNeverShare
<1>1. IInv /\ PoolTiled => ClientsNeverShare
  <2> SUFFICES ASSUME IInv, PoolTiled PROVE ClientsNeverShare
    OBVIOUS
  <2>1. Tiles = pool
    BY DEF PoolTiled, Tiles, Tile
  <2>2. ASSUME NEW h \in live PROVE Owned[h] \subseteq Tile(h) /\ h \in listed
    BY HeldInside, OwnedIs
  <2>3. \A h, k \in live : h # k => Owned[h] \cap Owned[k] = {}
    BY <2>1, <2>2, TileIsFree, OwnedIs
  <2>4. Heap!Held \subseteq pool
    BY <2>1, <2>2, TileIsFree, OwnedIs DEF Heap!Held
  <2> QED BY <2>3, <2>4, OwnedIs DEF ClientsNeverShare, Heap!Disjoint
<1> QED BY <1>1, Safety, NoByteIsLost, PTL
-----------------------------------------------------------------------------
(* Why every call returns.  That a call goes on is fairness, and stays     *)
(* with the runs; that it cannot go on for ever is proved here: every step *)
(* of it brings down a number that is never below zero.                    *)

\* How many of the loops of a call are left.  The stages of a reallocate that
\* moves its block come before those of the deallocate it ends with.
Stage ==
  CASE pc \in {"insert_scan", "probe"} -> 8
    [] pc = "merge_ahead"  -> IF call.op = "reallocate" THEN 7 ELSE 2
    [] pc = "merge_behind" -> IF call.op = "reallocate" THEN 6 ELSE 1
    [] pc = "recheck"      -> 5
    [] pc = "alloc_scan"   -> 4
    [] pc = "copy"         -> 3
    [] OTHER               -> 0

\* How much of memory the loop still has before it: what is above the cursor
\* or, when blocks ahead are merged into it, above the block after it; what is
\* below it when the blocks behind are.
Above(a) == IF a = Null THEN 0 ELSE Top + 1 - a

Left ==
  CASE pc \in {"insert_scan", "probe", "alloc_scan"} -> Above(curr)
    [] pc = "merge_ahead"  -> Above(next[curr])
    [] pc = "merge_behind" -> curr
    [] OTHER               -> 0

Effort == Stage * (Top + 2) + Left

Shortens == [][pc # "idle" => Effort' < Effort]_vars

LEMMA AboveFacts ==
  ASSUME IInv, NEW b \in listed
  PROVE  /\ Top \in Nat /\ b \in 1..Top /\ Above(b) \in 1..Top
         /\ next[b] \in 0..Top /\ Above(next[b]) \in 0..Top /\ Above(next[b]) < Above(b)
         /\ prev[b] \in 0..Top /\ prev[b] < b
<1>1. Top \in Nat /\ b \in 1..Top /\ Null = 0 /\ listed \subseteq 1..Top
  BY InvFacts, BlockListAssumption DEF Addr, Null
<1>2. IsNext(listed, b, next[b]) /\ IsPrev(listed, b, prev[b])
  BY InvFacts DEF ListIntegrity, NextIsSuccessor, PrevIsPredecessor
<1>3. next[b] = 0 \/ (next[b] \in listed /\ b < next[b])
  BY <1>1, <1>2 DEF IsNext
<1>4. prev[b] = 0 \/ (prev[b] \in listed /\ prev[b] < b)
  BY <1>1, <1>2 DEF IsPrev
<1>5. next[b] \in 0..Top /\ prev[b] \in 0..Top
  <2>1. \A c \in listed : c \in 0..Top
    BY <1>1
  <2>2. 0 \in 0..Top
    BY <1>1
  <2> QED BY <1>3, <1>4, <2>1, <2>2
<1> QED BY <1>1, <1>3, <1>4, <1>5 DEF Above

\* In every state of a call the effort is a number between its bounds.
EffortOK == Stage \in 0..8 /\ Left \in 0..Top /\ Effort \in 0..(9 * (Top + 2))

LEMMA EffortIs == IInv => EffortOK
<1> SUFFICES ASSUME IInv PROVE EffortOK
  OBVIOUS
<1>1. Top \in Nat /\ Null = 0
  BY BlockListAssumption DEF Null
<1>2. Stage \in 0..8
  BY DEF Stage
<1>3. \A a \in listed \cup {Null} : Above(a) \in 0..Top /\ a \in 0..Top
  BY <1>1, AboveFacts DEF Above
<1>4. pc \in {"insert_scan", "probe", "alloc_scan", "merge_behind"} => curr \in listed \cup {Null}
  BY InvFacts DEF InsertInv, MergeInv, ScanInv, GrowInv
<1>5. pc = "merge_ahead" => next[curr] \in listed \cup {Null}
  BY InvFacts DEF MergeInv
<1>6. Left \in 0..Top
  BY <1>1, <1>3, <1>4, <1>5 DEF Left
<1> HIDE DEF Stage, Left
<1>7. \A s \in 0..8, l \in 0..Top : s * (Top + 2) + l \in 0..(9 * (Top + 2))
  <2> SUFFICES ASSUME NEW s \in 0..8, NEW l \in 0..Top
               PROVE  s * (Top + 2) + l \in 0..(9 * (Top + 2))
    OBVIOUS
  <2>1. s \in {0, 1, 2, 3, 4, 5, 6, 7, 8}
    OBVIOUS
  <2> QED BY <1>1, <2>1
<1> QED BY <1>1, <1>2, <1>6, <1>7 DEF Effort, EffortOK

\* Fewer loops to come, or the same ones with less before the cursor.
LEMMA LessEffort ==
  ASSUME EffortOK, EffortOK',
         Stage' < Stage \/ (Stage' = Stage /\ Left' < Left)
  PROVE  Effort' < Effort
<1>1. \A s, t \in 0..8, l, m \in 0..Top :
        t < s \/ (t = s /\ m < l) => t * (Top + 2) + m < s * (Top + 2) + l
  <2> SUFFICES ASSUME NEW s \in 0..8, NEW t \in 0..8, NEW l \in 0..Top, NEW m \in 0..Top,
                      t < s \/ (t = s /\ m < l)
               PROVE  t * (Top + 2) + m < s * (Top + 2) + l
    OBVIOUS
  <2>1. /\ s \in {0, 1, 2, 3, 4, 5, 6, 7, 8} /\ Top \in Nat
        /\ t \in {0, 1, 2, 3, 4, 5, 6, 7, 8}
    BY BlockListAssumption
  <2> QED BY <2>1
<1> QED BY <1>1 DEF Effort, EffortOK

LEMMA StepShortens ==
  ASSUME IInv, EffortOK, EffortOK', Next, pc # "idle"
  PROVE  Effort' < Effort
<1>1. CallInProgress
  BY DEF Next, Insert, InsertNothing, InsertFirst, InsertBegin, Allocate, Deallocate,
         StalePointer, ReallocateSame, ReallocateShrink, ReallocateGrow
<1>3. SUFFICES Stage' < Stage \/ (Stage' = Stage /\ Left' < Left)
  BY LessEffort
<1>4. CASE InsertScan
  BY <1>4, AboveFacts, InvFacts DEF InsertScan, Goto, Stage, Left, InsertInv
<1>5. CASE InsertOverlap
  BY <1>5 DEF InsertOverlap, Return, Stage
<1>6. CASE InsertLink
  BY <1>6, InvFacts DEF InsertLink, Goto, Stage, InsertInv
<1>7. CASE MergeAhead
  <2>1. /\ curr \in listed /\ next[curr] \in listed /\ UNCHANGED control
        /\ next'[curr] = next[next[curr]]
    <3>1. curr \in listed
      BY <1>7, InvFacts DEF MergeAhead, MergeInv
    <3>2. next[curr] \in listed
      BY <1>7, <3>1, InvFacts DEF MergeAhead, Mergeable
    <3>3. next \in [Addr -> Link] /\ curr \in Addr
      BY <3>1, InvFacts DEF TypeOK
    <3> QED BY <1>7, <3>1, <3>2, <3>3 DEF MergeAhead, MergeBlocks
  <2>2. Above(next'[curr]) < Above(next[curr])
    BY <2>1, AboveFacts
  <2> QED BY <1>7, <2>1, <2>2 DEF MergeAhead, control, Stage, Left
<1>8. CASE MergeAheadDone
  BY <1>8 DEF MergeAheadDone, Goto, Stage
<1>9. CASE MergeBehind
  <2>1. curr \in listed
    BY <1>9, InvFacts DEF MergeBehind, MergeInv, Mergeable
  <2> QED BY <1>9, <2>1, AboveFacts DEF MergeBehind, Goto, Stage, Left
<1>10. CASE MergeBehindDone
  BY <1>10 DEF MergeBehindDone, Goto, Return, Stage
<1>11. CASE AllocNext
  <2>1. curr \in listed
    BY <1>11, InvFacts DEF AllocNext, ScanInv
  <2> QED BY <1>11, <2>1, AboveFacts DEF AllocNext, Goto, Stage, Left
<1>12. CASE AllocTake
  BY <1>12 DEF AllocTake, Goto, Return, Stage
<1>13. CASE AllocFail
  BY <1>13 DEF AllocFail, Return, Stage
<1>14. CASE Probe
  <2>1. curr \in listed
    BY <1>14, InvFacts DEF Probe, GrowInv
  <2> QED BY <1>14, <2>1, AboveFacts DEF Probe, Stage, Left
<1>15. CASE ProbeDone
  BY <1>15, InvFacts DEF ProbeDone, Goto, Stage, GrowInv
<1>16. CASE Recheck
  BY <1>16 DEF Recheck, Goto, Return, Stage
<1>17. CASE Copy
  BY <1>17 DEF Copy, Enter, Return, Stage
<1> QED BY <1>1, <1>4, <1>5, <1>6, <1>7, <1>8, <1>9, <1>10, <1>11, <1>12, <1>13, <1>14,
           <1>15, <1>16, <1>17 DEF CallInProgress

\* Every step of a call, in whichever of its loops, leaves fewer steps that it
\* can take, and there were never more than a fixed multiple of the memory's
\* size: no sequence of splits and merges makes a loop of the allocator, or a
\* reallocate that goes from loop to loop, come back to where it was.
THEOREM CallsRunDown == Spec => Shortens /\ [](Effort \in 0..(9 * (Top + 2)))
<1>1. EffortOK => Effort \in 0..(9 * (Top + 2))
  BY DEF EffortOK
<1>2. IInv /\ EffortOK /\ EffortOK' /\ [Next]_vars => [pc # "idle" => Effort' < Effort]_vars
  BY StepShortens
<1> QED BY <1>1, <1>2, EffortIs, Safety, PTL DEF Spec, Shortens
=============================================================================
