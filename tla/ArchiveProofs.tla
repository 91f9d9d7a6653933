--------------------------- MODULE ArchiveProofs ----------------------------
(***************************************************************************)
(* The ram disk reads back as it was written, for every set of names and   *)
(* header sizes, every alignment and every bound that ArchiveAssumption    *)
(* admits.                                                                 *)
(***************************************************************************)
EXTENDS Archive, SequenceTheorems, WellFoundedInduction, TLAPS

-----------------------------------------------------------------------------
(* Sequences of anything.                                                  *)

IsSeq(s) == \E n \in Nat : s = [i \in 1..n |-> s[i]]

LEMMA FcnIsSeq ==
  ASSUME NEW n \in Nat, NEW s, s = [i \in 1..n |-> s[i]]
  PROVE  IsSeq(s) /\ Len(s) = n /\ DOMAIN s = 1..n /\ s \in Seq({s[i] : i \in 1..n})
<1>1. s \in [1..n -> {s[i] : i \in 1..n}]
  OBVIOUS
<1>2. s \in Seq({s[i] : i \in 1..n}) /\ DOMAIN s = 1..n
  BY <1>1
<1>. QED  BY <1>2, LenProperties DEF IsSeq

LEMMA SeqIs ==
  ASSUME NEW s, IsSeq(s)
  PROVE  /\ Len(s) \in Nat /\ DOMAIN s = 1..Len(s) /\ s = [i \in 1..Len(s) |-> s[i]]
         /\ s \in Seq({s[i] : i \in 1..Len(s)})
<1>1. PICK n \in Nat : s = [i \in 1..n |-> s[i]]
  BY DEF IsSeq
<1>2. Len(s) = n /\ DOMAIN s = 1..n /\ s \in Seq({s[i] : i \in 1..n})
  BY <1>1, FcnIsSeq
<1>. QED  BY <1>1, <1>2

LEMMA EmptyIsSeq == IsSeq(<<>>) /\ Len(<<>>) = 0 /\ 1..0 = {}
<1>1. <<>> = [i \in 1..0 |-> <<>>[i]]
  OBVIOUS
<1>. QED  BY <1>1 DEF IsSeq

LEMMA LenZero ==
  ASSUME NEW s, IsSeq(s)
  PROVE  s = <<>> <=> Len(s) = 0
BY SeqIs, EmptySeq

LEMMA SameSeq ==
  ASSUME NEW s, NEW t, IsSeq(s), IsSeq(t), Len(s) = Len(t),
         \A i \in 1..Len(s) : s[i] = t[i]
  PROVE  s = t
<1>1. s = [i \in 1..Len(s) |-> s[i]] /\ t = [i \in 1..Len(s) |-> t[i]]
  BY SeqIs
<1>2. [i \in 1..Len(s) |-> s[i]] = [i \in 1..Len(s) |-> t[i]]
  OBVIOUS
<1>. QED  BY <1>1, <1>2

LEMMA AppendIs ==
  ASSUME NEW s, IsSeq(s), NEW x
  PROVE  /\ IsSeq(Append(s, x)) /\ Len(Append(s, x)) = Len(s) + 1
         /\ \A i \in 1..Len(s) : Append(s, x)[i] = s[i]
         /\ Append(s, x)[Len(s) + 1] = x
<1> DEFINE S == {s[i] : i \in 1..Len(s)} \cup {x}
<1>1. s \in Seq({s[i] : i \in 1..Len(s)}) /\ Len(s) \in Nat
  BY SeqIs
<1>2. s \in Seq(S) /\ x \in S
  BY <1>1, SeqMonotonic
<1>. HIDE DEF S
<1>3. /\ Append(s, x) \in Seq(S) /\ Len(Append(s, x)) = Len(s) + 1
      /\ \A i \in 1..Len(s) : Append(s, x)[i] = s[i]
      /\ Append(s, x)[Len(s) + 1] = x
  BY <1>2, AppendProperties
<1>4. Append(s, x) = [i \in 1..(Len(s) + 1) |-> Append(s, x)[i]] /\ Len(s) + 1 \in Nat
  BY <1>1, <1>3, LenProperties
<1>. QED  BY <1>3, <1>4 DEF IsSeq

LEMMA SubSeqIs ==
  ASSUME NEW s, IsSeq(s), NEW a \in Nat, NEW b \in Nat, b <= Len(s)
  PROVE  /\ IsSeq(SubSeq(s, a + 1, b)) /\ Len(SubSeq(s, a + 1, b)) = IF a <= b THEN b - a ELSE 0
         /\ \A i \in 1..(b - a) : SubSeq(s, a + 1, b)[i] = s[a + i]
<1> DEFINE n == IF a <= b THEN b - a ELSE 0
           t == [i \in 1..n |-> s[a + i]]
<1>1. SubSeq(s, a + 1, b) = t
  OBVIOUS
<1>2. n \in Nat /\ t = [i \in 1..n |-> t[i]]
  OBVIOUS
<1>3. IsSeq(t) /\ Len(t) = n
  <2>. HIDE DEF t, n
  <2>. QED  BY <1>2, FcnIsSeq
<1>4. \A i \in 1..(b - a) : i \in 1..n
  OBVIOUS
<1>. QED  BY <1>1, <1>3, <1>4

LEMMA PrefixIs ==
  ASSUME NEW s, IsSeq(s), NEW b \in Nat, b <= Len(s)
  PROVE  /\ IsSeq(SubSeq(s, 1, b)) /\ Len(SubSeq(s, 1, b)) = b
         /\ \A i \in 1..b : SubSeq(s, 1, b)[i] = s[i]
<1> DEFINE t == [i \in 1..b |-> s[i]]
<1>1. SubSeq(s, 1, b) = t
  OBVIOUS
<1>2. t = [i \in 1..b |-> t[i]] /\ \A i \in 1..b : t[i] = s[i]
  OBVIOUS
<1>. HIDE DEF t
<1>3. IsSeq(t) /\ Len(t) = b
  BY <1>2, FcnIsSeq
<1>. QED  BY <1>1, <1>2, <1>3

-----------------------------------------------------------------------------
(* The block file.                                                         *)

LEMMA ResizedIs ==
  ASSUME NEW bytes, NEW n \in Nat
  PROVE  /\ IsSeq(Resized(bytes, n)) /\ Len(Resized(bytes, n)) = n
         /\ \A i \in 1..n : Resized(bytes, n)[i] = IF i <= Len(bytes) THEN bytes[i] ELSE Junk
<1> DEFINE r == Resized(bytes, n)
<1>1. r = [i \in 1..n |-> IF i <= Len(bytes) THEN bytes[i] ELSE Junk]
  BY DEF Resized
<1>2. \A i \in 1..n : r[i] = IF i <= Len(bytes) THEN bytes[i] ELSE Junk
  BY <1>1
<1>3. r = [i \in 1..n |-> r[i]]
  BY <1>1
<1>. HIDE DEF r
<1>4. IsSeq(r) /\ Len(r) = n
  BY <1>3, FcnIsSeq
<1>. QED  BY <1>2, <1>4 DEF r

LEMMA AtLeastIs ==
  ASSUME NEW bytes, IsSeq(bytes), NEW n \in Nat
  PROVE  /\ IsSeq(AtLeast(bytes, n))
         /\ Len(AtLeast(bytes, n)) = IF n > Len(bytes) THEN n ELSE Len(bytes)
         /\ \A i \in 1..Len(AtLeast(bytes, n)) :
              AtLeast(bytes, n)[i] = IF i <= Len(bytes) THEN bytes[i] ELSE Junk
<1>1. CASE n > Len(bytes)
  BY <1>1, ResizedIs DEF AtLeast
<1>2. CASE ~(n > Len(bytes))
  <2>1. \A i \in 1..Len(bytes) : i <= Len(bytes)
    BY SeqIs
  <2>. QED  BY <1>2, <2>1 DEF AtLeast
<1>. QED  BY <1>1, <1>2

LEMMA WriteAtIs ==
  ASSUME NEW bytes, IsSeq(bytes), NEW at \in Nat, NEW src, IsSeq(src)
  PROVE  /\ IsSeq(WriteAt(bytes, at, src))
         /\ Len(WriteAt(bytes, at, src))
              = IF at + Len(src) > Len(bytes) THEN at + Len(src) ELSE Len(bytes)
         /\ \A i \in 1..Len(WriteAt(bytes, at, src)) :
              WriteAt(bytes, at, src)[i] = IF i > at /\ i <= at + Len(src) THEN src[i - at]
                                           ELSE IF i <= Len(bytes) THEN bytes[i] ELSE Junk
<1> DEFINE room == AtLeast(bytes, at + Len(src))
           w == WriteAt(bytes, at, src)
<1>1. Len(bytes) \in Nat /\ Len(src) \in Nat /\ at + Len(src) \in Nat
  BY SeqIs
<1>2. /\ IsSeq(room) /\ Len(room) \in Nat
      /\ Len(room) = IF at + Len(src) > Len(bytes) THEN at + Len(src) ELSE Len(bytes)
      /\ \A i \in 1..Len(room) : room[i] = IF i <= Len(bytes) THEN bytes[i] ELSE Junk
  BY <1>1, AtLeastIs, SeqIs
<1>3. w = [i \in 1..Len(room) |->
             IF i > at /\ i <= at + Len(src) THEN src[i - at] ELSE room[i]]
  BY DEF WriteAt
<1>. HIDE DEF w, room
<1>4. w = [i \in 1..Len(room) |-> w[i]]
  BY <1>3
<1>5. IsSeq(w) /\ Len(w) = Len(room)
  BY <1>2, <1>4, FcnIsSeq
<1>6. \A i \in 1..Len(w) : w[i] = IF i > at /\ i <= at + Len(src) THEN src[i - at]
                                  ELSE IF i <= Len(bytes) THEN bytes[i] ELSE Junk
  BY <1>2, <1>3, <1>5
<1>. QED  BY <1>2, <1>5, <1>6 DEF w

LEMMA Quotient ==
  ASSUME NEW x \in Int, NEW d \in Int, d > 0
  PROVE  x \div d \in Int /\ (x \div d) * d <= x /\ x < (x \div d) * d + d
OBVIOUS

LEMMA Multiple ==
  ASSUME NEW k \in Int, NEW d \in Int, d > 0
  PROVE  (k * d) % d = 0
OBVIOUS

\* Alignment is to whole units.
LEMMA Aligned ==
  ASSUME NEW n \in Nat
  PROVE  /\ AlignUp(n) \in Nat /\ AlignUp(n) % Align = 0
         /\ n <= AlignUp(n) /\ AlignUp(n) < n + Align
         /\ n % Align = 0 => AlignUp(n) = n
<1> DEFINE q == (n + Align - 1) \div Align
           p == q * Align
<1>1. Align \in Int /\ Align > 0 /\ n + Align - 1 \in Int
  BY ArchiveAssumption
<1>2. q \in Int /\ p <= n + Align - 1 /\ n + Align - 1 < p + Align
  BY <1>1, Quotient
<1>3. AlignUp(n) = p
  BY DEF AlignUp
<1>. HIDE DEF q
<1>4. p \in Int /\ p % Align = 0
  BY <1>1, <1>2, Multiple
<1>5. n <= p /\ p < n + Align /\ p \in Nat
  <2>. HIDE DEF p
  <2>. QED  BY <1>1, <1>2, <1>4
<1>6. ASSUME n % Align = 0 PROVE p = n
  <2> DEFINE k == n \div Align
  <2>1. k \in Int /\ n = k * Align
    BY <1>1, <1>6
  <2>. HIDE DEF k
  <2>2. (q - k) * Align = p - n
    BY <1>1, <1>2, <2>1
  <2>3. q - k \in Int /\ 0 <= p - n /\ p - n < Align
    <3>1. q - k \in Int
      BY <1>2, <2>1
    <3>. HIDE DEF p
    <3>. QED  BY <1>1, <1>4, <1>5, <3>1
  <2>4. q - k = 0
    BY <1>1, <2>2, <2>3
  <2>. QED  BY <1>2, <2>1, <2>4
<1>. QED  BY <1>3, <1>4, <1>5, <1>6

LEMMA AlignedSum ==
  ASSUME NEW a \in Nat, NEW b \in Nat, a % Align = 0, b % Align = 0
  PROVE  (a + b) % Align = 0
<1>1. Align \in Nat /\ Align > 0
  BY ArchiveAssumption
<1> DEFINE i == a \div Align  j == b \div Align
<1>2. i \in Nat /\ j \in Nat /\ a = i * Align /\ b = j * Align
  BY <1>1
<1>. HIDE DEF i, j
<1>3. a + b = (i + j) * Align /\ i + j \in Nat
  BY <1>1, <1>2
<1>. QED  BY <1>1, <1>3, Multiple

-----------------------------------------------------------------------------
(* The invariant: where in the block file the tree lies.                   *)

HeaderType == [tag : {"header"}, type : {"file", "directory"}, name : Names, size : Nat]
EntryType == [offset : Nat, header : HeaderType]

Body(i) == stack[i].offset + HeaderSize[stack[i].header.name]

\* Where the entries that were closed end, inside the first i - 1 open ones.
End(i) == IF i <= Len(stack) THEN stack[i].offset ELSE Len(block)

\* A closed entry from a to e: its header, its bytes, its padding.
Entry(bytes, node, a, e) ==
  /\ a % Align = 0 /\ a < e /\ e <= Len(bytes)
  /\ node.name \in Names /\ node.type \in {"file", "directory"}
  /\ \E n \in Nat :
       /\ bytes[a + 1] = Header(node.type, node.name, n)
       /\ HeaderSize[node.name] <= n /\ AlignUp(a + n) = e
       /\ node.type = "directory" => a + n = e
       /\ node.type = "file" => SubSeq(bytes, a + HeaderSize[node.name] + 1, a + n) = node.data

\* Entries one behind the other, from lo to hi.
Places(bytes, nodes, lo, hi, pos) ==
  /\ pos \in [1..(Len(nodes) + 1) -> lo..hi] /\ pos[1] = lo /\ pos[Len(nodes) + 1] = hi
  /\ \A i \in 1..Len(nodes) : Entry(bytes, nodes[i], pos[i], pos[i + 1])

Row(bytes, nodes, lo, hi) == \E pos : Places(bytes, nodes, lo, hi, pos)

\* And inside the directories among them, entries from header to end.
Rows(bytes, nodes, lo, hi) ==
  \E pos :
    /\ Places(bytes, nodes, lo, hi, pos)
    /\ \A i \in 1..Len(nodes) :
         nodes[i].type = "directory" =>
           /\ IsSeq(nodes[i].kids)
           /\ Row(bytes, nodes[i].kids, pos[i] + HeaderSize[nodes[i].name], pos[i + 1])

Sequences ==
  /\ IsSeq(block) /\ IsSeq(stack) /\ IsSeq(data) /\ IsSeq(kids)
  /\ Len(kids) = Len(stack) + 1 /\ Len(stack) <= MaxDepth
  /\ \A i \in 1..Len(kids) : IsSeq(kids[i])

\* Open entries lie behind each other, all but the innermost directories; where
\* that one is a directory, the block file stands at its aligned end.
StackInv ==
  /\ \A i \in 1..Len(stack) :
       /\ stack[i] \in EntryType /\ stack[i].offset % Align = 0
       /\ Body(i) <= Len(block)
       /\ i < Len(stack) => stack[i].header.type = "directory"
  /\ \A i, j \in 1..Len(stack) : i < j => Body(i) <= stack[j].offset
  /\ offset \in 0..MaxBlock
  /\ InFile => boffset = DataStart /\ Len(block) <= MaxBlock
  /\ ~InFile => boffset = Len(block) /\ Len(block) % Align = 0 /\ Len(block) <= MaxBlock + Align

\* The open file's bytes are the last ones.
FileInv ==
  /\ InFile => /\ Len(block) = DataStart + Len(data)
               /\ \A i \in 1..Len(data) : block[DataStart + i] = data[i]
  /\ \A i \in 1..Len(data) : data[i].tag # "header"

\* No header claims more than the block file can be.
HeadersInv ==
  \A i \in 1..Len(block) :
    block[i].tag = "header" =>
      block[i] \in HeaderType /\ AlignUp((i - 1) + block[i].size) <= MaxBlock + Align

\* What was closed, as far as two components of a path reach.
TreeInv ==
  /\ Rows(block, kids[1], 0, End(1))
  /\ IsOpen /\ stack[1].header.type = "directory" => Row(block, kids[2], Body(1), End(2))

IInv == Sequences /\ StackInv /\ FileInv /\ HeadersInv /\ TreeInv

-----------------------------------------------------------------------------
(* Rows of entries.                                                        *)

LEMMA HeaderIs ==
  ASSUME NEW n \in Names
  PROVE  HeaderSize[n] \in Nat /\ HeaderSize[n] >= 1 /\ HeaderSize[n] % Align = 0
BY ArchiveAssumption

\* An entry is what its own bytes say.
LEMMA EntryKept ==
  ASSUME NEW b1, NEW b2, IsSeq(b1), IsSeq(b2), NEW node, NEW a \in Nat, NEW e \in Nat,
         Entry(b1, node, a, e), e <= Len(b2), \A i \in (a + 1)..e : b2[i] = b1[i]
  PROVE  Entry(b2, node, a, e)
<1>1. /\ a % Align = 0 /\ a < e /\ e <= Len(b1)
      /\ node.name \in Names /\ node.type \in {"file", "directory"}
  BY DEF Entry
<1>2. PICK n \in Nat :
        /\ b1[a + 1] = Header(node.type, node.name, n)
        /\ HeaderSize[node.name] <= n /\ AlignUp(a + n) = e
        /\ node.type = "directory" => a + n = e
        /\ node.type = "file" => SubSeq(b1, a + HeaderSize[node.name] + 1, a + n) = node.data
  BY DEF Entry
<1> DEFINE c == a + HeaderSize[node.name]
<1>3. c \in Nat /\ a + n \in Nat /\ a <= c /\ c <= a + n /\ a + n <= e
  <2> DEFINE h == HeaderSize[node.name]
  <2>1. h \in Nat /\ h <= n
    BY <1>1, <1>2, HeaderIs
  <2>2. a + n \in Nat /\ a + n <= AlignUp(a + n)
    BY Aligned
  <2>. HIDE DEF h
  <2>3. a + h \in Nat /\ a <= a + h /\ a + h <= a + n
    BY <2>1
  <2>. QED  BY <1>2, <2>2, <2>3 DEF h
<1>4. b2[a + 1] = b1[a + 1]
  BY <1>1
<1>. HIDE DEF c
<1>5. SubSeq(b2, c + 1, a + n) = SubSeq(b1, c + 1, a + n)
  <2>1. /\ a + n <= Len(b1) /\ a + n <= Len(b2)
        /\ \A i \in 1..(a + n - c) : c + i \in (a + 1)..e
    BY <1>1, <1>3, SeqIs
  <2>2. /\ IsSeq(SubSeq(b1, c + 1, a + n)) /\ Len(SubSeq(b1, c + 1, a + n)) = a + n - c
        /\ \A i \in 1..(a + n - c) : SubSeq(b1, c + 1, a + n)[i] = b1[c + i]
    BY <1>3, <2>1, SubSeqIs
  <2>3. /\ IsSeq(SubSeq(b2, c + 1, a + n)) /\ Len(SubSeq(b2, c + 1, a + n)) = a + n - c
        /\ \A i \in 1..(a + n - c) : SubSeq(b2, c + 1, a + n)[i] = b2[c + i]
    BY <1>3, <2>1, SubSeqIs
  <2>. QED  BY <2>1, <2>2, <2>3, SameSeq
<1>6. node.type = "file" => SubSeq(b2, c + 1, a + n) = node.data
  BY <1>2, <1>5 DEF c
<1>. QED  BY <1>1, <1>2, <1>4, <1>6 DEF Entry, c

LEMMA PlacesKept ==
  ASSUME NEW b1, NEW b2, IsSeq(b1), IsSeq(b2), NEW nodes, IsSeq(nodes),
         NEW lo \in Nat, NEW hi \in Nat, NEW pos,
         Places(b1, nodes, lo, hi, pos), hi <= Len(b2), \A i \in (lo + 1)..hi : b2[i] = b1[i]
  PROVE  Places(b2, nodes, lo, hi, pos)
<1> SUFFICES ASSUME NEW i \in 1..Len(nodes)
             PROVE  Entry(b2, nodes[i], pos[i], pos[i + 1])
  BY DEF Places
<1>1. i \in 1..(Len(nodes) + 1) /\ i + 1 \in 1..(Len(nodes) + 1)
  BY SeqIs
<1>2. pos[i] \in lo..hi /\ pos[i + 1] \in lo..hi /\ Entry(b1, nodes[i], pos[i], pos[i + 1])
  BY <1>1 DEF Places
<1>3. pos[i] \in Nat /\ pos[i + 1] \in Nat /\ pos[i + 1] <= Len(b2)
  BY <1>2, SeqIs
<1>4. \A k \in (pos[i] + 1)..pos[i + 1] : k \in (lo + 1)..hi
  BY <1>2
<1>. QED  BY <1>2, <1>3, <1>4, EntryKept

LEMMA RowKept ==
  ASSUME NEW b1, NEW b2, IsSeq(b1), IsSeq(b2), NEW nodes, IsSeq(nodes),
         NEW lo \in Nat, NEW hi \in Nat,
         Row(b1, nodes, lo, hi), hi <= Len(b2), \A i \in (lo + 1)..hi : b2[i] = b1[i]
  PROVE  Row(b2, nodes, lo, hi)
BY PlacesKept DEF Row

LEMMA RowsKept ==
  ASSUME NEW b1, NEW b2, IsSeq(b1), IsSeq(b2), NEW nodes, IsSeq(nodes),
         NEW lo \in Nat, NEW hi \in Nat,
         Rows(b1, nodes, lo, hi), hi <= Len(b2), \A i \in (lo + 1)..hi : b2[i] = b1[i]
  PROVE  Rows(b2, nodes, lo, hi)
<1>1. PICK pos :
        /\ Places(b1, nodes, lo, hi, pos)
        /\ \A i \in 1..Len(nodes) :
             nodes[i].type = "directory" =>
               /\ IsSeq(nodes[i].kids)
               /\ Row(b1, nodes[i].kids, pos[i] + HeaderSize[nodes[i].name], pos[i + 1])
  BY DEF Rows
<1>2. Places(b2, nodes, lo, hi, pos)
  BY <1>1, PlacesKept
<1>3. ASSUME NEW i \in 1..Len(nodes), nodes[i].type = "directory"
      PROVE  Row(b2, nodes[i].kids, pos[i] + HeaderSize[nodes[i].name], pos[i + 1])
  <2>1. i \in 1..(Len(nodes) + 1) /\ i + 1 \in 1..(Len(nodes) + 1)
    BY SeqIs
  <2>2. pos[i] \in lo..hi /\ pos[i + 1] \in lo..hi /\ nodes[i].name \in Names
    BY <1>1, <2>1 DEF Places, Entry
  <2>3. /\ pos[i] + HeaderSize[nodes[i].name] \in Nat /\ pos[i + 1] \in Nat
        /\ pos[i + 1] <= Len(b2)
        /\ \A k \in (pos[i] + HeaderSize[nodes[i].name] + 1)..pos[i + 1] : k \in (lo + 1)..hi
    <3> DEFINE h == HeaderSize[nodes[i].name]
    <3>1. h \in Nat
      BY <2>2, HeaderIs
    <3>2. Len(b2) \in Nat
      BY SeqIs
    <3>. HIDE DEF h
    <3>3. /\ pos[i] + h \in Nat /\ pos[i + 1] \in Nat /\ pos[i + 1] <= Len(b2)
          /\ \A k \in (pos[i] + h + 1)..pos[i + 1] : k \in (lo + 1)..hi
      <4> DEFINE x == pos[i]  y == pos[i + 1]
      <4>1. x \in lo..hi /\ y \in lo..hi
        BY <2>2
      <4>. HIDE DEF x, y
      <4>2. x + h \in Nat /\ y \in Nat /\ y <= Len(b2)
        BY <3>1, <3>2, <4>1
      <4>3. \A k \in (x + h + 1)..y : k \in (lo + 1)..hi
        BY <3>1, <4>1
      <4>. QED  BY <4>2, <4>3 DEF x, y
    <3>. QED  BY <3>3 DEF h
  <2>4. IsSeq(nodes[i].kids) /\ Row(b1, nodes[i].kids, pos[i] + HeaderSize[nodes[i].name], pos[i + 1])
    BY <1>1, <1>3
  <2>. QED  BY <2>3, <2>4, RowKept
<1>. QED  BY <1>1, <1>2, <1>3 DEF Rows

LEMMA PlacesNone ==
  ASSUME NEW b, NEW lo \in Nat
  PROVE  \E pos : Places(b, <<>>, lo, lo, pos)
<1>1. Len(<<>>) = 0 /\ 1..0 = {}
  BY EmptyIsSeq
<1> DEFINE p == [i \in 1..1 |-> lo]
<1>2. p \in [1..1 -> lo..lo] /\ p[1] = lo
  OBVIOUS
<1>3. Places(b, <<>>, lo, lo, p)
  <2>. HIDE DEF p
  <2>. QED  BY <1>1, <1>2 DEF Places
<1>. QED  BY <1>3

LEMMA RowNone ==
  ASSUME NEW b, NEW lo \in Nat
  PROVE  Row(b, <<>>, lo, lo) /\ Rows(b, <<>>, lo, lo)
BY PlacesNone, EmptyIsSeq DEF Row, Rows

\* One more entry, up to e, where the others are as they were.
OneMore(b, nodes, node, lo, e, pos) ==
  \E more :
    /\ Places(b, Append(nodes, node), lo, e, more)
    /\ \A i \in 1..(Len(nodes) + 1) : more[i] = pos[i]
    /\ more[Len(nodes) + 2] = e

LEMMA PlacesMore ==
  ASSUME NEW b, NEW nodes, IsSeq(nodes), NEW node, NEW lo \in Nat, NEW hi \in Nat, NEW e \in Nat,
         NEW pos, Places(b, nodes, lo, hi, pos), Entry(b, node, hi, e)
  PROVE  OneMore(b, nodes, node, lo, e, pos)
<1> DEFINE n == Len(nodes)
           all == Append(nodes, node)
           more == [i \in 1..(n + 2) |-> IF i = n + 2 THEN e ELSE pos[i]]
<1>1. n \in Nat
  BY SeqIs
<1>2. pos \in [1..(n + 1) -> lo..hi] /\ pos[1] = lo /\ pos[n + 1] = hi
  BY DEF Places
<1>3. /\ Len(all) = n + 1 /\ all[n + 1] = node
      /\ \A i \in 1..n : all[i] = nodes[i]
  BY AppendIs
<1>4. /\ \A i \in 1..(n + 1) : more[i] = pos[i]
      /\ more[n + 2] = e
  BY <1>1
<1>5. hi < e /\ lo <= hi
  BY <1>1, <1>2 DEF Entry
<1>6. more \in [1..((n + 1) + 1) -> lo..e]
  <2>1. \A i \in 1..(n + 2) : (IF i = n + 2 THEN e ELSE pos[i]) \in lo..e
    BY <1>1, <1>2, <1>5
  <2>2. (n + 1) + 1 = n + 2
    BY <1>1
  <2>. QED  BY <2>1, <2>2
<1>7. more[1] = lo /\ more[(n + 1) + 1] = e
  <2>1. 1 \in 1..(n + 1) /\ (n + 1) + 1 = n + 2
    BY <1>1
  <2>. QED  BY <1>2, <1>4, <2>1
<1>8. ASSUME NEW i \in 1..(n + 1)
      PROVE  Entry(b, all[i], more[i], more[i + 1])
  <2>1. CASE i \in 1..n
    <3>1. i \in 1..(n + 1) /\ i + 1 \in 1..(n + 1)
      BY <1>1, <2>1
    <3>2. more[i] = pos[i] /\ more[i + 1] = pos[i + 1] /\ all[i] = nodes[i]
      BY <1>3, <1>4, <2>1, <3>1
    <3>. QED  BY <2>1, <3>2 DEF Places
  <2>2. CASE i = n + 1
    <3>1. more[i] = hi /\ more[i + 1] = e /\ all[i] = node
      <4>1. i + 1 = n + 2
        BY <1>1, <2>2
      <4>. QED  BY <1>2, <1>3, <1>4, <2>2, <4>1
    <3>. QED  BY <3>1
  <2>. QED  BY <1>1, <2>1, <2>2
<1>. HIDE DEF n, all, more
<1>9. Places(b, all, lo, e, more)
  BY <1>3, <1>6, <1>7, <1>8 DEF Places
<1>10. \E m : Places(b, all, lo, e, m) /\ (\A i \in 1..(n + 1) : m[i] = pos[i]) /\ m[n + 2] = e
  BY <1>4, <1>9
<1>. QED  BY <1>10 DEF n, all, OneMore

LEMMA RowMore ==
  ASSUME NEW b, NEW nodes, IsSeq(nodes), NEW node, NEW lo \in Nat, NEW hi \in Nat, NEW e \in Nat,
         Row(b, nodes, lo, hi), Entry(b, node, hi, e)
  PROVE  Row(b, Append(nodes, node), lo, e)
<1>1. PICK pos : Places(b, nodes, lo, hi, pos)
  BY DEF Row
<1>2. OneMore(b, nodes, node, lo, e, pos)
  BY <1>1, PlacesMore
<1>. QED  BY <1>2 DEF OneMore, Row

LEMMA RowsMore ==
  ASSUME NEW b, NEW nodes, IsSeq(nodes), NEW node, NEW lo \in Nat, NEW hi \in Nat, NEW e \in Nat,
         Rows(b, nodes, lo, hi), Entry(b, node, hi, e),
         node.type = "directory" =>
           IsSeq(node.kids) /\ Row(b, node.kids, hi + HeaderSize[node.name], e)
  PROVE  Rows(b, Append(nodes, node), lo, e)
<1>1. PICK pos :
        /\ Places(b, nodes, lo, hi, pos)
        /\ \A i \in 1..Len(nodes) :
             nodes[i].type = "directory" =>
               /\ IsSeq(nodes[i].kids)
               /\ Row(b, nodes[i].kids, pos[i] + HeaderSize[nodes[i].name], pos[i + 1])
  BY DEF Rows
<1> DEFINE n == Len(nodes)
           all == Append(nodes, node)
<1>2. PICK more :
        /\ Places(b, all, lo, e, more)
        /\ \A i \in 1..(n + 1) : more[i] = pos[i]
        /\ more[n + 2] = e
  <2>1. Places(b, nodes, lo, hi, pos)
    BY <1>1
  <2>2. OneMore(b, nodes, node, lo, e, pos)
    BY <2>1, PlacesMore
  <2>. QED  BY <2>2 DEF OneMore
<1>3. /\ n \in Nat /\ Len(all) = n + 1 /\ all[n + 1] = node
      /\ \A i \in 1..n : all[i] = nodes[i]
  BY AppendIs, SeqIs
<1>4. pos[n + 1] = hi
  BY <1>1 DEF Places
<1>. HIDE DEF n, all
<1>5. ASSUME NEW i \in 1..(n + 1), all[i].type = "directory"
      PROVE  /\ IsSeq(all[i].kids)
             /\ Row(b, all[i].kids, more[i] + HeaderSize[all[i].name], more[i + 1])
  <2>1. CASE i \in 1..n
    <3>1. i \in 1..(n + 1) /\ i + 1 \in 1..(n + 1)
      BY <1>3, <2>1
    <3>2. more[i] = pos[i] /\ more[i + 1] = pos[i + 1] /\ all[i] = nodes[i]
      BY <1>2, <1>3, <2>1, <3>1
    <3>. QED  BY <1>1, <1>5, <2>1, <3>2 DEF n
  <2>2. CASE i = n + 1
    <3>1. more[i] = hi /\ more[i + 1] = e /\ all[i] = node
      <4>1. i + 1 = n + 2 /\ n + 1 \in 1..(n + 1)
        BY <1>3, <2>2
      <4>. QED  BY <1>2, <1>3, <1>4, <2>2, <4>1
    <3>. QED  BY <1>5, <3>1
  <2>. QED  BY <1>3, <2>1, <2>2
<1>. QED  BY <1>2, <1>3, <1>5 DEF Rows, all

-----------------------------------------------------------------------------
(* The steps.                                                              *)

LEMMA BodyIs ==
  ASSUME Sequences, StackInv, NEW i \in 1..Len(stack)
  PROVE  /\ stack[i].offset \in Nat /\ stack[i].header.name \in Names
         /\ stack[i].header.type \in {"file", "directory"}
         /\ HeaderSize[stack[i].header.name] \in Nat
         /\ Body(i) \in Nat /\ stack[i].offset < Body(i) /\ Body(i) % Align = 0
<1>1. stack[i] \in EntryType /\ stack[i].offset % Align = 0
  BY DEF StackInv
<1>2. /\ stack[i].offset \in Nat /\ stack[i].header.name \in Names
      /\ stack[i].header.type \in {"file", "directory"}
  BY <1>1 DEF EntryType, HeaderType
<1> DEFINE o == stack[i].offset
           h == HeaderSize[stack[i].header.name]
<1>3. h \in Nat /\ h >= 1 /\ h % Align = 0
  BY <1>2, HeaderIs
<1>4. o \in Nat /\ o % Align = 0
  BY <1>1, <1>2
<1>5. Body(i) = o + h
  BY DEF Body
<1>. HIDE DEF o, h
<1>6. o + h \in Nat /\ o < o + h /\ (o + h) % Align = 0
  BY <1>3, <1>4, AlignedSum
<1>. QED  BY <1>2, <1>3, <1>5, <1>6 DEF o, h

LEMMA TopIs ==
  ASSUME Sequences, StackInv, IsOpen
  PROVE  /\ Len(stack) \in Nat /\ Len(stack) >= 1 /\ Len(block) \in Nat
         /\ Top = stack[Len(stack)] /\ DataStart = Body(Len(stack)) /\ Top \in EntryType
         /\ Top.offset \in Nat /\ Top.header.name \in Names
         /\ Top.header.type \in {"file", "directory"}
         /\ HeaderSize[Top.header.name] \in Nat
         /\ DataStart \in Nat /\ Top.offset < DataStart /\ DataStart <= Len(block)
         /\ Top.offset % Align = 0 /\ DataStart % Align = 0
<1>1. Len(stack) \in Nat /\ Len(stack) # 0 /\ Len(block) \in Nat
  BY LenZero, SeqIs DEF Sequences, IsOpen
<1>2. Len(stack) \in 1..Len(stack)
  BY <1>1
<1>3. Top = stack[Len(stack)] /\ DataStart = Body(Len(stack))
  BY DEF Top, DataStart, Body
<1>4. DataStart <= Len(block) /\ Top.offset % Align = 0 /\ Top \in EntryType
  BY <1>2, <1>3 DEF StackInv
<1>. QED  BY <1>1, <1>2, <1>3, <1>4, BodyIs

LEMMA FileOrDirectory ==
  ASSUME Sequences, StackInv, IsOpen
  PROVE  ~InFile <=> Top.header.type = "directory"
BY TopIs DEF InFile

LEMMA InitInv == Init => IInv
<1> SUFFICES ASSUME Init PROVE IInv
  OBVIOUS
<1>1. /\ block = <<>> /\ stack = <<>> /\ data = <<>> /\ boffset = 0 /\ offset = 0
      /\ kids = << <<>> >>
  BY DEF Init
<1>2. IsSeq(<<>>) /\ Len(<<>>) = 0 /\ 1..0 = {}
  BY EmptyIsSeq
<1>3. IsSeq(kids) /\ Len(kids) = 1 /\ kids[1] = <<>>
  <2>1. kids = [i \in 1..1 |-> kids[i]]
    BY <1>1
  <2>. QED  BY <1>1, <2>1, FcnIsSeq
<1>4. MaxDepth \in Nat /\ MaxBlock \in Nat /\ Align \in Nat \ {0}
  BY ArchiveAssumption
<1>5. Sequences
  BY <1>1, <1>2, <1>3, <1>4 DEF Sequences
<1>6. StackInv /\ FileInv /\ HeadersInv
  <2>1. ~InFile /\ 0 % Align = 0
    BY <1>1, <1>4 DEF InFile, IsOpen
  <2>. QED  BY <1>1, <1>2, <1>4, <2>1 DEF StackInv, FileInv, HeadersInv
<1>7. TreeInv
  BY <1>1, <1>2, <1>3, RowNone DEF TreeInv, IsOpen, End
<1>. QED  BY <1>5, <1>6, <1>7 DEF IInv

\* A step that changes the bytes of the open file, and no others.
LEMMA FileStep ==
  ASSUME IInv, InFile, UNCHANGED <<boffset, stack, kids>>,
         IsSeq(block'), IsSeq(data'), offset' \in 0..MaxBlock,
         Len(block') = DataStart + Len(data'), Len(block') <= MaxBlock,
         \A i \in 1..DataStart : block'[i] = block[i],
         \A i \in 1..Len(data') : block'[DataStart + i] = data'[i] /\ data'[i].tag # "header"
  PROVE  IInv'
<1> USE DEF IInv
<1> DEFINE n == Len(stack)
<1>1. /\ IsOpen /\ n \in Nat /\ n >= 1 /\ Len(block) \in Nat /\ DataStart = Body(n)
      /\ DataStart \in Nat /\ Top.offset < DataStart /\ DataStart <= Len(block)
      /\ Top = stack[n]
  BY TopIs DEF InFile
<1>2. Len(data') \in Nat /\ Len(block') \in Nat /\ DataStart <= Len(block')
  BY <1>1, SeqIs
<1>3. Sequences'
  BY DEF Sequences
<1>4. DataStart' = DataStart /\ InFile' /\ (\A i : Body(i)' = Body(i))
  BY DEF DataStart, InFile, Top, IsOpen, Body
<1>5. ASSUME NEW i \in 1..n PROVE Body(i) <= Len(block')
  <2>1. CASE i = n
    BY <1>1, <1>2, <2>1
  <2>2. CASE i # n
    <3>1. i < n /\ n \in 1..n
      BY <1>1, <2>2
    <3>2. Body(i) <= Top.offset
      BY <1>1, <3>1 DEF StackInv
    <3>3. Body(i) \in Nat /\ Top.offset \in Nat
      BY <3>1, <1>1, BodyIs, TopIs
    <3>. QED  BY <1>1, <1>2, <3>2, <3>3
  <2>. QED  BY <2>1, <2>2
<1>6. StackInv'
  BY <1>4, <1>5 DEF StackInv
<1>7. FileInv'
  BY <1>4 DEF FileInv
<1>8. HeadersInv'
  <2> SUFFICES ASSUME NEW i \in 1..Len(block'), block'[i].tag = "header"
               PROVE  /\ block'[i] \in HeaderType
                      /\ AlignUp((i - 1) + block'[i].size) <= MaxBlock + Align
    BY DEF HeadersInv
  <2>1. CASE i <= DataStart
    <3>1. i \in 1..DataStart /\ i \in 1..Len(block)
      BY <1>1, <2>1
    <3>. QED  BY <3>1 DEF HeadersInv
  <2>2. CASE ~(i <= DataStart)
    <3>1. i - DataStart \in 1..Len(data') /\ DataStart + (i - DataStart) = i
      BY <1>1, <1>2, <2>2
    <3>. QED  BY <3>1
  <2>. QED  BY <2>1, <2>2
<1>9. TreeInv'
  <2>1. End(1)' = stack[1].offset /\ End(1) = stack[1].offset /\ 1 \in 1..n
    BY <1>1 DEF End
  <2>2. stack[1].offset \in Nat /\ stack[1].offset <= DataStart
    <3>1. stack[1].offset \in Nat /\ Body(1) \in Nat /\ stack[1].offset < Body(1)
      BY <2>1, BodyIs
    <3>2. CASE n = 1
      BY <1>1, <3>1, <3>2
    <3>3. CASE n # 1
      <4>1. 1 < n /\ n \in 1..n
        <5>. HIDE DEF n
        <5>. QED  BY <1>1, <3>3
      <4>2. Body(1) <= Top.offset
        BY <1>1, <2>1, <4>1 DEF StackInv
      <4>3. Top.offset \in Nat
        BY <1>1, TopIs
      <4>. QED  BY <1>1, <3>1, <4>2, <4>3
    <3>. QED  BY <3>2, <3>3
  <2>3. Rows(block', kids[1], 0, stack[1].offset)
    <3>1. Rows(block, kids[1], 0, stack[1].offset) /\ IsSeq(kids[1]) /\ IsSeq(block)
      BY <1>1, <2>1 DEF TreeInv, Sequences
    <3>2. \A i \in (0 + 1)..stack[1].offset : block'[i] = block[i]
      <4>1. \A i \in (0 + 1)..stack[1].offset : i \in 1..DataStart
        BY <1>1, <2>2
      <4>. QED  BY <4>1
    <3>3. stack[1].offset <= Len(block')
      BY <1>1, <1>2, <2>2
    <3>. QED  BY <2>2, <3>1, <3>2, <3>3, RowsKept
  <2>4. ASSUME stack[1].header.type = "directory"
        PROVE  Row(block', kids[2], Body(1), End(2)')
    <3>1. n # 1
      BY <1>1, <2>4 DEF InFile
    <3>2. 1 < n /\ 2 \in 1..n /\ n \in 1..n /\ 2 \in 1..Len(kids)
      <4>1. Len(kids) = n + 1
        BY DEF Sequences
      <4>. HIDE DEF n
      <4>. QED  BY <1>1, <3>1, <4>1
    <3>3. End(2)' = stack[2].offset /\ End(2) = stack[2].offset
      BY <1>1, <3>2 DEF End
    <3>4. stack[2].offset \in Nat /\ stack[2].offset <= DataStart
      <4>1. stack[2].offset \in Nat /\ Body(2) \in Nat /\ stack[2].offset < Body(2)
        BY <3>2, BodyIs
      <4>2. CASE n = 2
        BY <1>1, <4>1, <4>2
      <4>3. CASE n # 2
        <5>1. 2 < n
          <6>. HIDE DEF n
          <6>. QED  BY <1>1, <3>2, <4>3
        <5>2. Body(2) <= Top.offset
          BY <1>1, <3>2, <5>1 DEF StackInv
        <5>3. Top.offset \in Nat
          BY <1>1, TopIs
        <5>. QED  BY <1>1, <4>1, <5>2, <5>3
      <4>. QED  BY <4>2, <4>3
    <3>5. Row(block, kids[2], Body(1), stack[2].offset) /\ IsSeq(kids[2]) /\ IsSeq(block)
      BY <1>1, <2>4, <3>2, <3>3 DEF TreeInv, Sequences
    <3>6. Body(1) \in Nat
      BY <2>1, BodyIs
    <3>7. \A i \in (Body(1) + 1)..stack[2].offset : block'[i] = block[i]
      <4>1. \A i \in (Body(1) + 1)..stack[2].offset : i \in 1..DataStart
        BY <1>1, <3>4, <3>6
      <4>. QED  BY <4>1
    <3>8. stack[2].offset <= Len(block')
      BY <1>1, <1>2, <3>4
    <3>. QED  BY <3>3, <3>4, <3>5, <3>6, <3>7, <3>8, RowKept
  <2>. QED  BY <1>4, <2>1, <2>3, <2>4 DEF TreeInv
<1>. QED  BY <1>3, <1>6, <1>7, <1>8, <1>9

LEMMA FileFacts ==
  ASSUME IInv, InFile
  PROVE  /\ IsOpen /\ IsSeq(block) /\ IsSeq(data) /\ DataStart \in Nat
         /\ Len(data) \in Nat /\ Len(block) \in Nat /\ Len(block) = DataStart + Len(data)
         /\ \A i \in 1..Len(data) : block[DataStart + i] = data[i] /\ data[i].tag # "header"
         /\ Top.offset \in Nat /\ Top.offset < DataStart
         /\ offset \in Nat /\ MaxBlock \in Nat /\ Len(block) <= MaxBlock
         /\ Junk.tag # "header"
<1>1. IsOpen /\ IsSeq(block) /\ IsSeq(data)
  BY DEF InFile, IInv, Sequences
<1>2. Len(block) = DataStart + Len(data) /\ Len(block) <= MaxBlock /\ offset \in 0..MaxBlock
  BY DEF IInv, FileInv, StackInv
<1>3. \A i \in 1..Len(data) : block[DataStart + i] = data[i] /\ data[i].tag # "header"
  BY DEF IInv, FileInv
<1>4. MaxBlock \in Nat /\ Junk.tag # "header"
  BY ArchiveAssumption DEF Junk
<1>5. offset \in Nat
  BY <1>2, <1>4
<1>. QED  BY <1>1, <1>2, <1>3, <1>4, <1>5, TopIs, SeqIs DEF IInv

LEMMA WriteInv ==
  ASSUME IInv, NEW d, NEW n \in Nat, Write(d, n)
  PROVE  IInv'
<1> DEFINE src == [i \in 1..n |-> DataByte(d)]
           D == DataStart
<1>1. /\ InFile /\ D + offset + n <= MaxBlock /\ block' = WriteAt(block, D + offset, src)
      /\ offset' = offset + n /\ data' = WriteAt(data, offset, src)
      /\ UNCHANGED <<boffset, stack, kids>>
  BY DEF Write, WriteInto
<1>2. IsSeq(src) /\ Len(src) = n
  <2>1. src = [i \in 1..n |-> src[i]]
    OBVIOUS
  <2>. HIDE DEF src
  <2>. QED  BY <2>1, FcnIsSeq
<1>3. \A i \in 1..n : src[i].tag # "header"
  BY DEF DataByte
<1>4. /\ IsSeq(block) /\ IsSeq(data) /\ D \in Nat
      /\ Len(data) \in Nat /\ Len(block) \in Nat /\ Len(block) = D + Len(data)
      /\ \A i \in 1..Len(data) : block[D + i] = data[i] /\ data[i].tag # "header"
      /\ offset \in Nat /\ MaxBlock \in Nat /\ Len(block) <= MaxBlock
      /\ Junk.tag # "header" /\ D + offset \in Nat
  BY <1>1, FileFacts
<1>. HIDE DEF src, D
<1>5. /\ IsSeq(block')
      /\ Len(block') = IF D + offset + n > Len(block) THEN D + offset + n ELSE Len(block)
      /\ \A i \in 1..Len(block') :
           block'[i] = IF i > D + offset /\ i <= D + offset + n THEN src[i - (D + offset)]
                       ELSE IF i <= Len(block) THEN block[i] ELSE Junk
  BY <1>1, <1>2, <1>4, WriteAtIs
<1>6. /\ IsSeq(data')
      /\ Len(data') = IF offset + n > Len(data) THEN offset + n ELSE Len(data)
      /\ \A i \in 1..Len(data') :
           data'[i] = IF i > offset /\ i <= offset + n THEN src[i - offset]
                      ELSE IF i <= Len(data) THEN data[i] ELSE Junk
  <2>1. IsSeq(data) /\ offset \in Nat /\ IsSeq(src) /\ Len(src) = n
    BY <1>2, <1>4
  <2> DEFINE w == WriteAt(data, offset, src)
  <2>2. /\ IsSeq(w) /\ Len(w) = IF offset + Len(src) > Len(data) THEN offset + Len(src) ELSE Len(data)
        /\ \A i \in 1..Len(w) :
             w[i] = IF i > offset /\ i <= offset + Len(src) THEN src[i - offset]
                    ELSE IF i <= Len(data) THEN data[i] ELSE Junk
    BY <2>1, WriteAtIs
  <2>3. data' = w
    BY <1>1
  <2>. HIDE DEF w
  <2>. QED  BY <2>1, <2>2, <2>3
<1>7. Len(block') = D + Len(data') /\ Len(block') <= MaxBlock /\ offset' \in 0..MaxBlock
  BY <1>1, <1>4, <1>5, <1>6
<1>8. ASSUME NEW i \in 1..D PROVE block'[i] = block[i]
  <2>1. i \in 1..Len(block') /\ ~(i > D + offset) /\ i <= Len(block)
    BY <1>4, <1>5
  <2>. QED  BY <1>5, <2>1
<1>9. ASSUME NEW i \in 1..Len(data')
      PROVE  block'[D + i] = data'[i] /\ data'[i].tag # "header"
  <2>1. /\ D + i \in 1..Len(block') /\ (D + i) - (D + offset) = i - offset
        /\ D + i > D + offset <=> i > offset
        /\ D + i <= D + offset + n <=> i <= offset + n
        /\ D + i <= Len(block) <=> i <= Len(data)
    BY <1>4, <1>6, <1>7
  <2>2. block'[D + i] = IF i > offset /\ i <= offset + n THEN src[i - offset]
                        ELSE IF i <= Len(data) THEN block[D + i] ELSE Junk
    BY <1>5, <2>1
  <2>3. CASE i > offset /\ i <= offset + n
    <3>1. i - offset \in 1..n
      BY <1>4, <2>3
    <3>. QED  BY <1>3, <1>6, <2>2, <2>3, <3>1
  <2>4. CASE ~(i > offset /\ i <= offset + n) /\ i <= Len(data)
    <3>1. i \in 1..Len(data)
      BY <1>4, <2>4
    <3>. QED  BY <1>4, <1>6, <2>2, <2>4, <3>1
  <2>5. CASE ~(i > offset /\ i <= offset + n) /\ ~(i <= Len(data))
    BY <1>4, <1>6, <2>2, <2>5
  <2>. QED  BY <2>3, <2>4, <2>5
<1>. QED  BY <1>1, <1>5, <1>6, <1>7, <1>8, <1>9, FileStep DEF D

\* The file becomes n bytes long.
LEMMA ResizeStep ==
  ASSUME IInv, InFile, NEW n \in Nat, DataStart + n <= MaxBlock,
         block' = Resized(block, DataStart + n), data' = Resized(data, n),
         UNCHANGED <<boffset, stack, kids>>, offset' \in 0..MaxBlock
  PROVE  IInv'
<1> DEFINE D == DataStart
<1>4. /\ D \in Nat
      /\ Len(data) \in Nat /\ Len(block) \in Nat /\ Len(block) = D + Len(data)
      /\ \A i \in 1..Len(data) : block[D + i] = data[i] /\ data[i].tag # "header"
      /\ Junk.tag # "header" /\ D + n \in Nat
  BY FileFacts
<1>5. /\ IsSeq(block') /\ Len(block') = D + n
      /\ \A i \in 1..(D + n) : block'[i] = IF i <= Len(block) THEN block[i] ELSE Junk
  BY <1>4, ResizedIs
<1>6. /\ IsSeq(data') /\ Len(data') = n
      /\ \A i \in 1..n : data'[i] = IF i <= Len(data) THEN data[i] ELSE Junk
  BY ResizedIs
<1>. HIDE DEF D
<1>8. ASSUME NEW i \in 1..D PROVE block'[i] = block[i]
  <2>1. i \in 1..(D + n) /\ i <= Len(block)
    BY <1>4
  <2>. QED  BY <1>5, <2>1
<1>9. ASSUME NEW i \in 1..Len(data')
      PROVE  block'[D + i] = data'[i] /\ data'[i].tag # "header"
  <2>1. /\ D + i \in 1..(D + n) /\ i \in 1..n
        /\ D + i <= Len(block) <=> i <= Len(data)
    BY <1>4, <1>6
  <2>2. CASE i <= Len(data)
    <3>1. i \in 1..Len(data)
      BY <1>4, <2>1, <2>2
    <3>. QED  BY <1>4, <1>5, <1>6, <2>1, <2>2, <3>1
  <2>3. CASE ~(i <= Len(data))
    BY <1>4, <1>5, <1>6, <2>1, <2>3
  <2>. QED  BY <2>2, <2>3
<1>. QED  BY <1>5, <1>6, <1>8, <1>9, FileStep DEF D

\* Only the archive's offset changes.
LEMMA OffsetStep ==
  ASSUME IInv, UNCHANGED <<block, boffset, stack, data, kids>>, offset' \in 0..MaxBlock
  PROVE  IInv'
<1>1. /\ InFile' = InFile /\ IsOpen' = IsOpen /\ DataStart' = DataStart
      /\ \A i : Body(i)' = Body(i) /\ End(i)' = End(i)
  BY DEF InFile, IsOpen, DataStart, Top, Body, End
<1>2. Sequences' /\ FileInv' /\ HeadersInv'
  BY <1>1 DEF IInv, Sequences, FileInv, HeadersInv
<1>3. StackInv'
  BY <1>1 DEF IInv, StackInv
<1>4. TreeInv'
  BY <1>1 DEF IInv, TreeInv
<1>. QED  BY <1>2, <1>3, <1>4 DEF IInv

LEMMA ResizeSeekInv ==
  ASSUME IInv, NEW n \in Nat, Resize(n) \/ Seek(n)
  PROVE  IInv'
<1>1. /\ InFile /\ DataStart + n <= MaxBlock /\ UNCHANGED <<boffset, stack, kids>>
      /\ offset' = offset \/ offset' = n
      /\ \/ UNCHANGED <<block, data>>
         \/ block' = Resized(block, DataStart + n) /\ data' = Resized(data, n)
  BY DEF Resize, Seek
<1>2. offset' \in 0..MaxBlock
  <2>1. DataStart \in Nat /\ MaxBlock \in Nat /\ offset \in 0..MaxBlock
    BY <1>1, FileFacts DEF IInv, StackInv
  <2>. QED  BY <1>1, <2>1
<1>. QED  BY <1>1, <1>2, OffsetStep, ResizeStep

\* The places where closed entries end lie in the block file.
LEMMA EndIs ==
  ASSUME Sequences, StackInv, NEW i \in Nat, i >= 1
  PROVE  End(i) \in Nat /\ End(i) <= Len(block)
<1>1. Len(block) \in Nat /\ Len(stack) \in Nat
  BY SeqIs DEF Sequences
<1>2. CASE i <= Len(stack)
  <2>1. i \in 1..Len(stack)
    BY <1>1, <1>2
  <2>2. stack[i].offset \in Nat /\ Body(i) \in Nat /\ stack[i].offset < Body(i)
    BY <2>1, BodyIs
  <2>3. Body(i) <= Len(block)
    BY <2>1 DEF StackInv
  <2>. QED  BY <1>1, <1>2, <2>2, <2>3 DEF End
<1>3. CASE ~(i <= Len(stack))
  BY <1>1, <1>3 DEF End
<1>. QED  BY <1>2, <1>3

LEMMA HeaderBytesIs ==
  ASSUME NEW h, h.name \in Names
  PROVE  /\ IsSeq(HeaderBytes(h)) /\ Len(HeaderBytes(h)) = HeaderSize[h.name]
         /\ HeaderBytes(h)[1] = h
         /\ \A i \in 2..HeaderSize[h.name] : HeaderBytes(h)[i] = HeaderRest
<1> DEFINE n == HeaderSize[h.name]
           b == HeaderBytes(h)
<1>1. n \in Nat /\ n >= 1
  BY HeaderIs
<1>2. b = [i \in 1..n |-> IF i = 1 THEN h ELSE HeaderRest]
  BY DEF HeaderBytes
<1>. HIDE DEF n, b
<1>3. b = [i \in 1..n |-> b[i]] /\ b[1] = h /\ \A i \in 2..n : b[i] = HeaderRest
  BY <1>1, <1>2
<1>4. IsSeq(b) /\ Len(b) = n
  BY <1>1, <1>3, FcnIsSeq
<1>. QED  BY <1>3, <1>4 DEF n, b

\* A header written behind what there is, or where it was.
WithHeader(w, bytes, at, h, n) ==
  /\ IsSeq(w) /\ Len(w) = IF at + n > Len(bytes) THEN at + n ELSE Len(bytes)
  /\ w[at + 1] = h
  /\ \A i \in (at + 2)..(at + n) : w[i] = HeaderRest
  /\ \A i \in 1..Len(bytes) : i <= at \/ i > at + n => w[i] = bytes[i]

LEMMA HeaderWritten ==
  ASSUME NEW bytes, IsSeq(bytes), NEW at \in Nat, at <= Len(bytes), NEW h, h.name \in Names
  PROVE  WithHeader(WriteAt(bytes, at, HeaderBytes(h)), bytes, at, h, HeaderSize[h.name])
<1> DEFINE w == WriteAt(bytes, at, HeaderBytes(h))
           n == HeaderSize[h.name]
           hb == HeaderBytes(h)
<1>1. n \in Nat /\ n >= 1 /\ Len(bytes) \in Nat
  BY HeaderIs, SeqIs
<1>2. /\ IsSeq(hb) /\ Len(hb) = n /\ hb[1] = h
      /\ \A i \in 2..n : hb[i] = HeaderRest
  BY HeaderBytesIs
<1>3. /\ IsSeq(w) /\ Len(w) = IF at + n > Len(bytes) THEN at + n ELSE Len(bytes)
      /\ \A i \in 1..Len(w) : w[i] = IF i > at /\ i <= at + n THEN hb[i - at]
                                     ELSE IF i <= Len(bytes) THEN bytes[i] ELSE Junk
  <2>1. /\ IsSeq(w) /\ Len(w) = IF at + Len(hb) > Len(bytes) THEN at + Len(hb) ELSE Len(bytes)
        /\ \A i \in 1..Len(w) : w[i] = IF i > at /\ i <= at + Len(hb) THEN hb[i - at]
                                       ELSE IF i <= Len(bytes) THEN bytes[i] ELSE Junk
    BY <1>2, WriteAtIs
  <2>. HIDE DEF w, hb
  <2>. QED  BY <1>2, <2>1
<1>. HIDE DEF w, n, hb
<1>4. w[at + 1] = h
  <2>1. at + 1 \in 1..Len(w) /\ at + 1 > at /\ at + 1 <= at + n /\ (at + 1) - at = 1
    BY <1>1, <1>3
  <2>. QED  BY <1>2, <1>3, <2>1
<1>5. ASSUME NEW i \in (at + 2)..(at + n) PROVE w[i] = HeaderRest
  <2>1. i \in 1..Len(w) /\ i > at /\ i <= at + n /\ i - at \in 2..n
    BY <1>1, <1>3
  <2>. QED  BY <1>2, <1>3, <2>1
<1>6. ASSUME NEW i \in 1..Len(bytes), i <= at \/ i > at + n PROVE w[i] = bytes[i]
  <2>1. i \in 1..Len(w) /\ ~(i > at /\ i <= at + n) /\ i <= Len(bytes)
    BY <1>1, <1>3, <1>6
  <2>. QED  BY <1>3, <2>1
<1>7. WithHeader(w, bytes, at, h, n)
  BY <1>3, <1>4, <1>5, <1>6 DEF WithHeader
<1>. QED  BY <1>7 DEF w, n

LEMMA OpenBytes ==
  ASSUME IInv, NEW type \in {"file", "directory"}, NEW name \in Names, Open(type, name)
  PROVE  LET L == Len(block)
             h == Header(type, name, 0)
         IN  /\ L \in Nat /\ L % Align = 0
             /\ IsOpen => Top.header.type = "directory"
             /\ Len(stack) < MaxDepth /\ L + HeaderSize[name] <= MaxBlock
             /\ stack' = Append(stack, [offset |-> L, header |-> h])
             /\ IsSeq(block') /\ Len(block') = L + HeaderSize[name]
             /\ block'[L + 1] = h
             /\ \A i \in (L + 2)..(L + HeaderSize[name]) : block'[i] = HeaderRest
             /\ \A i \in 1..L : block'[i] = block[i]
             /\ boffset' = L + HeaderSize[name] /\ offset' = 0 /\ data' = <<>>
             /\ kids' = Append(kids, <<>>)
<1> DEFINE L == Len(block)
           h == Header(type, name, 0)
<1>1. L \in Nat /\ IsSeq(block) /\ HeaderSize[name] \in Nat /\ HeaderSize[name] >= 1
  BY SeqIs, HeaderIs DEF IInv, Sequences
<1>2. IsOpen => Top.header.type = "directory"
  BY DEF Open
<1>3. boffset = L /\ L % Align = 0
  BY <1>2 DEF InFile, IInv, StackInv
<1>4. AlignUp(boffset) = L
  BY <1>1, <1>3, Aligned
<1>5. AtLeast(block, L) = block
  BY <1>1 DEF AtLeast
<1>6. /\ Len(stack) < MaxDepth /\ L + HeaderSize[name] <= MaxBlock
      /\ stack' = Append(stack, [offset |-> L, header |-> h])
      /\ block' = WriteAt(block, L, HeaderBytes(h))
      /\ boffset' = L + HeaderSize[name] /\ offset' = 0 /\ data' = <<>>
      /\ kids' = Append(kids, <<>>)
  BY <1>4, <1>5 DEF Open
<1>7. h.name = name
  BY DEF Header
<1>. HIDE DEF L, h
<1>8. /\ IsSeq(block')
      /\ Len(block') = IF L + HeaderSize[name] > Len(block) THEN L + HeaderSize[name] ELSE Len(block)
      /\ block'[L + 1] = h
      /\ \A i \in (L + 2)..(L + HeaderSize[name]) : block'[i] = HeaderRest
      /\ \A i \in 1..Len(block) : i <= L \/ i > L + HeaderSize[name] => block'[i] = block[i]
  <2>1. L <= Len(block)
    BY <1>1 DEF L
  <2>2. WithHeader(WriteAt(block, L, HeaderBytes(h)), block, L, h, HeaderSize[h.name])
    BY <1>1, <1>7, <2>1, HeaderWritten
  <2>. QED  BY <1>6, <1>7, <2>2 DEF WithHeader
<1>9. Len(block') = L + HeaderSize[name] /\ \A i \in 1..L : block'[i] = block[i]
  BY <1>1, <1>8 DEF L
<1>. QED  BY <1>1, <1>2, <1>3, <1>6, <1>8, <1>9 DEF L, h

LEMMA OpenInv ==
  ASSUME IInv, NEW type \in {"file", "directory"}, NEW name \in Names, Open(type, name)
  PROVE  IInv'
<1> DEFINE L == Len(block)
           h == Header(type, name, 0)
           n == Len(stack)
           H == HeaderSize[name]
<1>1. /\ L \in Nat /\ L % Align = 0
      /\ IsOpen => Top.header.type = "directory"
      /\ n < MaxDepth /\ L + H <= MaxBlock
      /\ stack' = Append(stack, [offset |-> L, header |-> h])
      /\ IsSeq(block') /\ Len(block') = L + H
      /\ block'[L + 1] = h
      /\ \A i \in (L + 2)..(L + H) : block'[i] = HeaderRest
      /\ \A i \in 1..L : block'[i] = block[i]
      /\ boffset' = L + H /\ offset' = 0 /\ data' = <<>>
      /\ kids' = Append(kids, <<>>)
  BY OpenBytes
<1>2. /\ H \in Nat /\ H >= 1 /\ H % Align = 0 /\ n \in Nat
      /\ Len(kids) = n + 1 /\ IsSeq(stack) /\ IsSeq(kids) /\ IsSeq(block)
      /\ MaxBlock \in Nat /\ MaxDepth \in Nat /\ Align \in Nat /\ Align > 0
  BY HeaderIs, SeqIs, ArchiveAssumption DEF IInv, Sequences
<1>3. /\ h \in HeaderType /\ h.tag = "header" /\ h.name = name /\ h.type = type /\ h.size = 0
      /\ HeaderRest.tag # "header"
  BY DEF Header, HeaderType, HeaderRest
<1>. HIDE DEF L, h, H
<1>4. /\ IsSeq(stack') /\ Len(stack') = n + 1
      /\ \A i \in 1..n : stack'[i] = stack[i]
      /\ stack'[n + 1] = [offset |-> L, header |-> h]
      /\ stack'[n + 1] \in EntryType
  <2>1. [offset |-> L, header |-> h] \in EntryType
    BY <1>1, <1>3 DEF EntryType
  <2>. QED  BY <1>1, <1>2, <2>1, AppendIs
<1>5. /\ IsSeq(kids') /\ Len(kids') = n + 2 /\ kids'[n + 2] = <<>>
      /\ \A i \in 1..(n + 1) : kids'[i] = kids[i]
  <2>1. (n + 1) + 1 = n + 2
    BY <1>2
  <2>. QED  BY <1>1, <1>2, <2>1, AppendIs
<1>6. Sequences'
  <2>1. \A i \in 1..(n + 2) : IsSeq(kids'[i])
    <3>1. \A i \in 1..(n + 2) : i \in 1..(n + 1) \/ i = n + 2
      BY <1>2
    <3>. QED  BY <3>1, <1>2, <1>5, EmptyIsSeq DEF IInv, Sequences
  <2>2. IsSeq(data')
    BY <1>1, EmptyIsSeq
  <2>. QED  BY <1>1, <1>2, <1>4, <1>5, <2>1, <2>2 DEF Sequences
<1>7. \A i \in 1..n : Body(i)' = Body(i) /\ Body(i) \in Nat /\ Body(i) <= L
  BY <1>4, BodyIs DEF Body, IInv, StackInv, L
<1>8. IsOpen' /\ Top' = stack'[n + 1] /\ DataStart' = L + H
  <2>1. stack'[n + 1].offset = L /\ stack'[n + 1].header = h
    BY <1>4
  <2>2. stack' # <<>>
    BY <1>2, <1>4, LenZero
  <2>3. Top' = stack'[n + 1]
    BY <1>4 DEF Top
  <2>5. DataStart' = L + H
    BY <1>3, <2>1, <2>3 DEF DataStart, H
  <2>. QED  BY <2>2, <2>3, <2>5 DEF IsOpen
<1>9. ASSUME NEW i \in 1..n PROVE stack[i].header.type = "directory"
  <2>1. CASE i < n
    BY <2>1 DEF IInv, StackInv
  <2>2. CASE i = n
    <3>1. stack # <<>>
      BY <1>2, LenZero
    <3>. QED  BY <1>1, <2>2, <3>1 DEF IsOpen, Top
  <2>. QED  BY <1>2, <2>1, <2>2
<1>10. StackInv'
  <2>0. \A i \in 1..(n + 1) : i \in 1..n \/ i = n + 1
    BY <1>2
  <2>1. ASSUME NEW i \in 1..(n + 1)
        PROVE  /\ stack'[i] \in EntryType /\ stack'[i].offset % Align = 0
               /\ Body(i)' <= Len(block')
               /\ i < n + 1 => stack'[i].header.type = "directory"
    <3>1. CASE i \in 1..n
      <4>1. stack[i] \in EntryType /\ stack[i].offset % Align = 0
        BY <3>1 DEF IInv, StackInv
      <4>2. Body(i)' <= Len(block')
        BY <1>1, <1>2, <1>7, <3>1
      <4>. QED  BY <1>4, <1>9, <3>1, <4>1, <4>2
    <3>2. CASE i = n + 1
      <4>1. stack'[i].offset = L /\ stack'[i].header.name = name /\ stack'[i] \in EntryType
        BY <1>3, <1>4, <3>2
      <4>2. Body(i)' <= Len(block')
        <5>1. Body(i)' = stack'[i].offset + HeaderSize[stack'[i].header.name]
          BY DEF Body
        <5>2. Body(i)' = L + H
          BY <4>1, <5>1 DEF H
        <5>. QED  BY <1>1, <1>2, <5>2
      <4>. QED  BY <1>1, <1>2, <3>2, <4>1, <4>2
    <3>. QED  BY <2>0, <3>1, <3>2
  <2>2. ASSUME NEW i \in 1..(n + 1), NEW j \in 1..(n + 1), i < j
        PROVE  Body(i)' <= stack'[j].offset
    <3>1. i \in 1..n
      BY <1>2, <2>2
    <3>2. CASE j \in 1..n
      BY <1>4, <1>7, <2>2, <3>1, <3>2 DEF IInv, StackInv
    <3>3. CASE j = n + 1
      BY <1>4, <1>7, <3>1, <3>3
    <3>. QED  BY <2>0, <3>2, <3>3
  <2>3. offset' \in 0..MaxBlock
    BY <1>1, <1>2
  <2>4. InFile' => boffset' = DataStart' /\ Len(block') <= MaxBlock
    BY <1>1, <1>8
  <2>5. ~InFile' => boffset' = Len(block') /\ Len(block') % Align = 0 /\ Len(block') <= MaxBlock + Align
    BY <1>1, <1>2, AlignedSum
  <2>. QED  BY <1>4, <2>1, <2>2, <2>3, <2>4, <2>5 DEF StackInv
<1>11. FileInv'
  <2>1. Len(data') = 0 /\ 1..0 = {} /\ Len(block') = DataStart' + 0
    BY <1>1, <1>2, <1>8, EmptyIsSeq
  <2>. QED  BY <2>1 DEF FileInv
<1>12. HeadersInv'
  <2> SUFFICES ASSUME NEW i \in 1..Len(block'), block'[i].tag = "header"
               PROVE  /\ block'[i] \in HeaderType
                      /\ AlignUp((i - 1) + block'[i].size) <= MaxBlock + Align
    BY DEF HeadersInv
  <2>1. CASE i \in 1..L
    BY <1>1, <2>1 DEF IInv, HeadersInv, L
  <2>2. CASE i = L + 1
    <3>1. (i - 1) + 0 = L /\ AlignUp(L) = L /\ L <= MaxBlock + Align
      BY <1>1, <1>2, <2>2, Aligned
    <3>. QED  BY <1>1, <1>3, <2>2, <3>1
  <2>3. CASE i \in (L + 2)..(L + H)
    BY <1>1, <1>3, <2>3
  <2>. QED  BY <1>1, <1>2, <2>1, <2>2, <2>3
<1>13. TreeInv'
  <2>1. End(1)' = End(1) /\ End(1) \in Nat /\ End(1) <= L
    <3>1. CASE n = 0
      <4>1. End(1)' = L /\ End(1) = L
        BY <1>2, <1>4, <3>1 DEF End, L
      <4>. QED  BY <1>1, <4>1
    <3>2. CASE n # 0
      <4>1. 1 \in 1..n /\ 1 <= n + 1 /\ 1 <= n
        BY <1>2, <3>2
      <4>2. End(1)' = stack[1].offset /\ End(1) = stack[1].offset
        BY <1>4, <4>1 DEF End
      <4>. QED  BY <4>2, EndIs DEF IInv, L
    <3>. QED  BY <3>1, <3>2
  <2>2. Rows(block', kids'[1], 0, End(1)')
    <3>1. Rows(block, kids[1], 0, End(1)) /\ kids'[1] = kids[1] /\ IsSeq(kids[1])
      <4>1. 1 \in 1..(n + 1)
        BY <1>2
      <4>. QED  BY <1>2, <1>5, <4>1 DEF IInv, TreeInv, Sequences
    <3> DEFINE e == End(1)
               b == block'
               k == kids[1]
    <3>2. IsSeq(block) /\ IsSeq(b) /\ IsSeq(k) /\ e \in Nat /\ e <= L /\ L \in Nat /\ L <= Len(b)
          /\ Rows(block, k, 0, e) /\ \A i \in 1..L : b[i] = block[i]
      BY <1>1, <1>2, <2>1, <3>1
    <3>. HIDE DEF e, b, k, L
    <3>3. e <= Len(b) /\ \A i \in (0 + 1)..e : b[i] = block[i]
      <4>1. Len(b) \in Nat
        BY <3>2, SeqIs
      <4>. QED  BY <3>2, <4>1
    <3>4. Rows(b, k, 0, e)
      BY <3>2, <3>3, RowsKept
    <3>5. Rows(block', kids[1], 0, End(1))
      BY <3>4 DEF b, k, e
    <3>. QED  BY <2>1, <3>1, <3>5
  <2>3. Row(block', kids'[2], Body(1)', End(2)')
    <3>1. CASE n = 0
      <4>1. kids'[2] = <<>> /\ Body(1)' = L + H
        <5>1. n + 2 = 2 /\ n + 1 = 1
          BY <3>1
        <5>2. stack'[1].offset = L /\ stack'[1].header.name = name
          BY <1>3, <1>4, <5>1
        <5>. QED  BY <1>5, <5>1, <5>2 DEF Body, H
      <4>2. End(2)' = L + H
        BY <1>1, <1>4, <3>1 DEF End
      <4>. QED  BY <1>1, <1>2, <4>1, <4>2, RowNone
    <3>2. CASE n # 0
      <4>1. n >= 1 /\ 1 \in 1..n /\ 2 \in 1..(n + 1) /\ 2 <= n + 1
        BY <1>2, <3>2
      <4>2. End(2)' = End(2) /\ End(2) \in Nat /\ End(2) <= L
        <5>1. CASE n = 1
          <6>1. End(2)' = L /\ End(2) = L
            BY <1>2, <1>4, <5>1 DEF End, L
          <6>. QED  BY <1>1, <6>1
        <5>2. CASE n # 1
          <6>1. 2 \in 1..n /\ 2 <= n
            <7>. HIDE DEF n
            <7>. QED  BY <1>2, <4>1, <5>2
          <6>2. End(2)' = stack[2].offset /\ End(2) = stack[2].offset
            BY <1>4, <4>1, <6>1 DEF End
          <6>. QED  BY <6>2, EndIs DEF IInv, L
        <5>. QED  BY <5>1, <5>2
      <4>3. IsOpen /\ stack[1].header.type = "directory"
        <5>1. stack # <<>>
          BY <1>2, <3>2, LenZero
        <5>. QED  BY <1>9, <4>1, <5>1 DEF IsOpen
      <4>4. Row(block, kids[2], Body(1), End(2)) /\ kids'[2] = kids[2] /\ IsSeq(kids[2])
        BY <1>2, <1>5, <4>1, <4>3 DEF IInv, TreeInv, Sequences
      <4>5. Body(1)' = Body(1) /\ Body(1) \in Nat
        BY <1>7, <4>1
      <4> DEFINE a == Body(1)
                 e == End(2)
                 b == block'
                 k == kids[2]
      <4>6. IsSeq(block) /\ IsSeq(b) /\ IsSeq(k) /\ a \in Nat /\ e \in Nat /\ e <= L
            /\ L \in Nat /\ L <= Len(b)
            /\ Row(block, k, a, e) /\ \A i \in 1..L : b[i] = block[i]
        BY <1>1, <1>2, <4>2, <4>4, <4>5
      <4>. HIDE DEF a, e, b, k, L
      <4>7. e <= Len(b) /\ \A i \in (a + 1)..e : b[i] = block[i]
        <5>1. Len(b) \in Nat
          BY <4>6, SeqIs
        <5>. QED  BY <4>6, <5>1
      <4>8. Row(b, k, a, e)
        BY <4>6, <4>7, RowKept
      <4>9. Row(block', kids[2], Body(1), End(2))
        BY <4>8 DEF a, e, b, k
      <4>. QED  BY <4>2, <4>4, <4>5, <4>9
    <3>. QED  BY <3>1, <3>2
  <2>. QED  BY <2>2, <2>3 DEF TreeInv
<1>. QED  BY <1>6, <1>10, <1>11, <1>12, <1>13 DEF IInv

\* What closing leaves of the innermost entry.
Node == [name |-> Top.header.name, type |-> Top.header.type, data |-> data,
         kids |-> kids[Len(stack) + 1]]

LEMMA CloseBytes ==
  ASSUME IInv, Close
  PROVE  /\ IsOpen
         /\ IsSeq(block') /\ Len(block') = AlignUp(Len(block))
         /\ block'[Top.offset + 1]
              = Header(Top.header.type, Top.header.name, Len(block) - Top.offset)
         /\ \A i \in (Top.offset + 2)..DataStart : block'[i] = HeaderRest
         /\ \A i \in 1..Len(block) : i <= Top.offset \/ i > DataStart => block'[i] = block[i]
         /\ \A i \in (Len(block) + 1)..Len(block') : block'[i] = Junk
         /\ boffset' = Len(block') /\ stack' = Below(stack) /\ data' = <<>> /\ offset' = offset
         /\ kids' = [Below(kids) EXCEPT ![Len(stack)] = Append(@, Node)]
<1> DEFINE L == Len(block)
           o == Top.offset
           N == Top.header.name
           h == Header(Top.header.type, N, L - o)
           w == WriteAt(block, o, HeaderBytes(h))
           next == AlignUp(L)
<1>1. IsOpen
  BY DEF Close
<1>2. /\ L \in Nat /\ o \in Nat /\ N \in Names /\ HeaderSize[N] \in Nat /\ Top \in EntryType
      /\ DataStart = o + HeaderSize[N] /\ DataStart \in Nat /\ o < DataStart /\ DataStart <= L
      /\ IsSeq(block) /\ Len(kids) = Len(stack) + 1 /\ Len(stack) \in Nat
  BY <1>1, TopIs DEF IInv, Sequences, DataStart
<1>3. [Top.header EXCEPT !.size = Size] = h
  <2>1. Top.header \in HeaderType
    BY <1>2 DEF EntryType
  <2>. QED  BY <2>1 DEF Header, HeaderType, Size
<1>4. o + Size = L
  BY <1>2 DEF Size
<1>5. /\ block' = AtLeast(w, next) /\ boffset' = next /\ stack' = Below(stack)
      /\ data' = <<>> /\ offset' = offset
  BY <1>3, <1>4 DEF Close
<1>6. kids' = [Below(kids) EXCEPT ![Len(stack)] = Append(@, Node)]
  <2>1. Len(kids) - 1 = Len(stack)
    BY <1>2
  <2>2. Node = [name |-> h.name, type |-> h.type, data |-> data, kids |-> kids[Len(kids)]]
    BY <1>2 DEF Node, Header
  <2>. HIDE DEF h
  <2>. QED  BY <1>3, <2>1, <2>2 DEF Close
<1>7. h.name = N
  BY DEF Header
<1>8. WithHeader(w, block, o, h, HeaderSize[N])
  <2>1. o <= Len(block)
    BY <1>2
  <2>. HIDE DEF h, o
  <2>. QED  BY <1>2, <1>7, <2>1, HeaderWritten
<1>9. next \in Nat /\ L <= next
  BY <1>2, Aligned
<1>. HIDE DEF h, w, next, L, o, N
<1>10. /\ IsSeq(w) /\ Len(w) = L /\ w[o + 1] = h
       /\ \A i \in (o + 2)..DataStart : w[i] = HeaderRest
       /\ \A i \in 1..L : i <= o \/ i > DataStart => w[i] = block[i]
  BY <1>2, <1>8 DEF WithHeader, L
<1>11. /\ IsSeq(block') /\ Len(block') = IF next > L THEN next ELSE L
       /\ \A i \in 1..Len(block') : block'[i] = IF i <= L THEN w[i] ELSE Junk
  <2>1. /\ IsSeq(AtLeast(w, next))
        /\ Len(AtLeast(w, next)) = IF next > Len(w) THEN next ELSE Len(w)
        /\ \A i \in 1..Len(AtLeast(w, next)) :
             AtLeast(w, next)[i] = IF i <= Len(w) THEN w[i] ELSE Junk
    BY <1>9, <1>10, AtLeastIs
  <2>. QED  BY <1>5, <1>10, <2>1
<1>12. Len(block') = next
  BY <1>2, <1>9, <1>11
<1>13. block'[o + 1] = h /\ \A i \in (o + 2)..DataStart : block'[i] = HeaderRest
  <2>1. o + 1 \in 1..Len(block') /\ o + 1 <= L
    BY <1>2, <1>9, <1>12
  <2>2. \A i \in (o + 2)..DataStart : i \in 1..Len(block') /\ i <= L
    BY <1>2, <1>9, <1>12
  <2>. QED  BY <1>10, <1>11, <2>1, <2>2
<1>14. \A i \in 1..L : i <= o \/ i > DataStart => block'[i] = block[i]
  <2>1. \A i \in 1..L : i \in 1..Len(block') /\ i <= L
    BY <1>2, <1>9, <1>12
  <2>. QED  BY <1>10, <1>11, <2>1
<1>15. \A i \in (L + 1)..Len(block') : block'[i] = Junk
  <2>1. \A i \in (L + 1)..Len(block') : i \in 1..Len(block') /\ ~(i <= L)
    BY <1>2, <1>9, <1>12
  <2>. QED  BY <1>11, <2>1
<1>. QED  BY <1>1, <1>5, <1>6, <1>11, <1>12, <1>13, <1>14, <1>15 DEF h, L, o, N, next

\* It is an entry like the others.
LEMMA CloseEntry ==
  ASSUME IInv, Close
  PROVE  Entry(block', Node, Top.offset, Len(block'))
<1> DEFINE L == Len(block)
           o == Top.offset
           H == HeaderSize[Top.header.name]
           D == DataStart
<1>1. /\ IsOpen /\ IsSeq(block') /\ Len(block') = AlignUp(L)
      /\ block'[o + 1] = Header(Top.header.type, Top.header.name, L - o)
      /\ \A i \in 1..L : i <= o \/ i > D => block'[i] = block[i]
  BY CloseBytes
<1>2. /\ L \in Nat /\ o \in Nat /\ H \in Nat /\ D \in Nat /\ D = o + H /\ o < D /\ D <= L
      /\ o % Align = 0 /\ Top.header.name \in Names /\ Top.header.type \in {"file", "directory"}
  BY <1>1, TopIs DEF IInv, DataStart
<1>3. /\ Node.name = Top.header.name /\ Node.type = Top.header.type /\ Node.data = data
  BY DEF Node
<1>4. AlignUp(L) \in Nat /\ L <= AlignUp(L) /\ (L % Align = 0 => AlignUp(L) = L)
  BY <1>2, Aligned
<1>5. Node.type = "directory" => L = Len(block')
  <2>1. Node.type = "directory" => L % Align = 0
    BY <1>1, <1>3, FileOrDirectory DEF IInv, StackInv
  <2>. QED  BY <1>1, <1>4, <2>1
<1>. HIDE DEF L, o, H, D
<1>6. Node.type = "file" => SubSeq(block', D + 1, L) = Node.data
  <2> SUFFICES ASSUME Node.type = "file" PROVE SubSeq(block', D + 1, L) = data
    BY <1>3
  <2>1. InFile
    BY <1>1, <1>3 DEF InFile
  <2>2. /\ IsSeq(data) /\ Len(data) \in Nat /\ L = D + Len(data)
        /\ \A i \in 1..Len(data) : block[D + i] = data[i]
    BY <2>1, FileFacts DEF L, D
  <2>3. L <= Len(block')
    BY <1>1, <1>4
  <2>4. /\ IsSeq(SubSeq(block', D + 1, L)) /\ Len(SubSeq(block', D + 1, L)) = L - D
        /\ \A i \in 1..(L - D) : SubSeq(block', D + 1, L)[i] = block'[D + i]
    <3>1. IsSeq(block') /\ D \in Nat /\ L \in Nat /\ D <= L
      BY <1>1, <1>2
    <3>. QED  BY <2>3, <3>1, SubSeqIs
  <2>5. \A i \in 1..(L - D) : i \in 1..Len(data) /\ D + i \in 1..L /\ D + i > D
    BY <1>2, <2>2
  <2>6. L - D = Len(data)
    BY <1>2, <2>2
  <2>7. \A i \in 1..Len(data) : SubSeq(block', D + 1, L)[i] = data[i]
    BY <1>1, <2>2, <2>4, <2>5, <2>6
  <2>. QED  BY <2>2, <2>4, <2>6, <2>7, SameSeq
<1>7. L - o \in Nat /\ o + (L - o) = L /\ H <= L - o
  BY <1>2
<1>8. /\ o % Align = 0 /\ o < Len(block')
      /\ Node.name \in Names /\ Node.type \in {"file", "directory"}
      /\ block'[o + 1] = Header(Node.type, Node.name, L - o)
      /\ HeaderSize[Node.name] <= L - o
      /\ AlignUp(o + (L - o)) = Len(block')
      /\ Node.type = "directory" => o + (L - o) = Len(block')
      /\ o + HeaderSize[Node.name] = D
      /\ Node.type = "file" => SubSeq(block', D + 1, o + (L - o)) = Node.data
      /\ Len(block') <= Len(block')
  <2>1. o < Len(block') /\ Len(block') <= Len(block')
    BY <1>1, <1>2, <1>4
  <2>2. HeaderSize[Node.name] = H
    BY <1>3 DEF H
  <2>. QED  BY <1>1, <1>2, <1>3, <1>5, <1>6, <1>7, <2>1, <2>2
<1>9. Entry(block', Node, o, Len(block'))
  BY <1>7, <1>8 DEF Entry
<1>. QED  BY <1>9 DEF o

\* The open entries begin one behind the other.
LEMMA InOrder ==
  ASSUME Sequences, StackInv, IsOpen, NEW i \in 1..Len(stack)
  PROVE  stack[i].offset \in Nat /\ stack[i].offset <= Top.offset
<1>1. /\ Len(stack) \in Nat /\ Top = stack[Len(stack)] /\ Top.offset \in Nat
      /\ Len(stack) \in 1..Len(stack)
  BY TopIs
<1>2. stack[i].offset \in Nat /\ Body(i) \in Nat /\ stack[i].offset < Body(i)
  BY BodyIs
<1>3. CASE i < Len(stack)
  <2>1. Body(i) <= stack[Len(stack)].offset
    BY <1>1, <1>3 DEF StackInv
  <2>. QED  BY <1>1, <1>2, <2>1
<1>. QED  BY <1>1, <1>2, <1>3

LEMMA CloseInv ==
  ASSUME IInv, Close
  PROVE  IInv'
<1> DEFINE L == Len(block)
           o == Top.offset
           D == DataStart
           n == Len(stack)
           m == n - 1
           h == Header(Top.header.type, Top.header.name, L - o)
<1>1. /\ IsOpen
      /\ IsSeq(block') /\ Len(block') = AlignUp(L) /\ block'[o + 1] = h
      /\ \A i \in (o + 2)..D : block'[i] = HeaderRest
      /\ \A i \in 1..L : i <= o \/ i > D => block'[i] = block[i]
      /\ \A i \in (L + 1)..Len(block') : block'[i] = Junk
      /\ boffset' = Len(block') /\ stack' = Below(stack) /\ data' = <<>> /\ offset' = offset
      /\ kids' = [Below(kids) EXCEPT ![n] = Append(@, Node)]
  BY CloseBytes
<1>2. /\ L \in Nat /\ o \in Nat /\ D \in Nat /\ o < D /\ D <= L /\ n \in Nat /\ n >= 1
      /\ Top = stack[n] /\ D = Body(n)
      /\ Top.header.name \in Names /\ Top.header.type \in {"file", "directory"}
      /\ IsSeq(stack) /\ IsSeq(kids) /\ IsSeq(block) /\ Len(kids) = n + 1 /\ n <= MaxDepth
      /\ MaxBlock \in Nat /\ MaxDepth \in Nat /\ Align \in Nat /\ Align > 0
  BY <1>1, TopIs, ArchiveAssumption DEF IInv, Sequences
<1>3. m \in Nat /\ m + 1 = n /\ m <= Len(stack) /\ n <= Len(kids) /\ n \in 1..n
  BY <1>2
<1>4. /\ AlignUp(L) \in Nat /\ L <= AlignUp(L) /\ AlignUp(L) % Align = 0
      /\ AlignUp(L) <= MaxBlock + Align
  <2>1. /\ AlignUp(L) \in Nat /\ L <= AlignUp(L) /\ AlignUp(L) % Align = 0
        /\ AlignUp(L) < L + Align /\ (L % Align = 0 => AlignUp(L) = L)
    BY <1>2, Aligned
  <2>2. L <= MaxBlock \/ (L % Align = 0 /\ L <= MaxBlock + Align)
    BY DEF IInv, StackInv
  <2>. QED  BY <1>2, <2>1, <2>2
<1>5. /\ h \in HeaderType /\ h.tag = "header" /\ h.size = L - o /\ L - o \in Nat
      /\ HeaderRest.tag # "header" /\ Junk.tag # "header"
  <2>1. L - o \in Nat
    BY <1>2
  <2>. HIDE DEF L, o
  <2>. QED  BY <1>2, <2>1 DEF Header, HeaderType, HeaderRest, Junk
<1>. HIDE DEF h, L, o, D
<1>6. /\ IsSeq(stack') /\ Len(stack') = m
      /\ \A i \in 1..m : stack'[i] = stack[i]
  <2>1. stack' = SubSeq(stack, 1, m)
    BY <1>1 DEF Below
  <2>. HIDE DEF m
  <2>. QED  BY <1>2, <1>3, <2>1, PrefixIs
<1>7. /\ IsSeq(kids') /\ Len(kids') = n /\ kids'[n] = Append(kids[n], Node)
      /\ \A i \in 1..m : kids'[i] = kids[i]
  <2> DEFINE t == SubSeq(kids, 1, n)
  <2>1. Below(kids) = t
    <3>1. Len(kids) - 1 = n
      BY <1>2
    <3>. QED  BY <3>1 DEF Below
  <2>. HIDE DEF n
  <2>2. IsSeq(t) /\ Len(t) = n /\ (\A i \in 1..n : t[i] = kids[i])
    BY <1>2, <1>3, PrefixIs
  <2>. HIDE DEF t
  <2>4. DOMAIN t = 1..n
    BY <2>2, SeqIs
  <2>5. kids' = [i \in 1..n |-> IF i = n THEN Append(kids[n], Node) ELSE t[i]]
    BY <1>1, <1>3, <2>1, <2>2, <2>4
  <2>6. \A i \in 1..m : i \in 1..n /\ i # n
    <3>. HIDE DEF m
    <3>. QED  BY <1>2, <1>3
  <2>7. kids' = [i \in 1..n |-> kids'[i]]
    BY <2>5
  <2>8. IsSeq(kids') /\ Len(kids') = n
    BY <1>2, <2>7, FcnIsSeq
  <2>9. \A i \in 1..m : kids'[i] = kids[i]
    BY <2>2, <2>5, <2>6
  <2>. QED  BY <1>3, <2>5, <2>8, <2>9
<1>. HIDE DEF m, n
<1>8. Sequences'
  <2>1. \A i \in 1..n : IsSeq(kids'[i])
    <3>1. \A i \in 1..n : (i \in 1..m \/ i = n) /\ i \in 1..(n + 1)
      BY <1>2, <1>3
    <3>2. \A i \in 1..n : IsSeq(kids[i])
      BY <1>2, <3>1 DEF IInv, Sequences
    <3>3. IsSeq(kids[n])
      BY <1>3, <3>2
    <3>4. IsSeq(kids'[n])
      BY <1>7, <3>3, AppendIs
    <3>. QED  BY <1>7, <3>1, <3>2, <3>4
  <2>2. IsSeq(data') /\ m <= MaxDepth
    BY <1>1, <1>2, <1>3, EmptyIsSeq
  <2>. QED  BY <1>1, <1>3, <1>6, <1>7, <2>1, <2>2 DEF Sequences
<1>9. ASSUME NEW i \in 1..m
      PROVE  /\ i \in 1..n /\ i < n /\ Body(i)' = Body(i) /\ Body(i) \in Nat /\ Body(i) <= L
             /\ stack[i] \in EntryType /\ stack[i].offset % Align = 0
             /\ stack[i].header.type = "directory"
  <2>1. i \in 1..n /\ i < n
    BY <1>2, <1>3
  <2>2. Body(i)' = Body(i)
    BY <1>6 DEF Body
  <2>. QED  BY <2>1, <2>2, BodyIs DEF IInv, StackInv, L, n
<1>10. ~InFile'
  <2>1. CASE m = 0
    BY <1>6, <2>1, LenZero DEF InFile, IsOpen
  <2>2. CASE m # 0
    <3>1. m \in 1..m
      BY <1>3, <2>2
    <3>2. Top' = stack[m]
      BY <1>6, <3>1 DEF Top
    <3>3. stack[m].header.type = "directory"
      BY <1>9, <3>1
    <3>. QED  BY <3>2, <3>3 DEF InFile
  <2>. QED  BY <2>1, <2>2
<1>11. StackInv'
  <2>1. ASSUME NEW i \in 1..m
        PROVE  /\ stack'[i] \in EntryType /\ stack'[i].offset % Align = 0
               /\ Body(i)' <= Len(block')
               /\ i < m => stack'[i].header.type = "directory"
    <3>1. Body(i)' <= Len(block')
      BY <1>1, <1>2, <1>4, <1>9
    <3>. QED  BY <1>6, <1>9, <3>1
  <2>2. ASSUME NEW i \in 1..m, NEW j \in 1..m, i < j PROVE Body(i)' <= stack'[j].offset
    <3>1. Body(i) <= stack[j].offset
      BY <1>9, <2>2 DEF IInv, StackInv, n
    <3>. QED  BY <1>6, <1>9, <3>1
  <2>3. offset' \in 0..MaxBlock
    BY <1>1 DEF IInv, StackInv
  <2>. QED  BY <1>1, <1>4, <1>6, <1>10, <2>1, <2>2, <2>3 DEF StackInv
<1>12. FileInv'
  <2>1. Len(data') = 0 /\ 1..0 = {}
    BY <1>1, EmptyIsSeq
  <2>. QED  BY <1>10, <2>1 DEF FileInv
<1>13. HeadersInv'
  <2> SUFFICES ASSUME NEW i \in 1..Len(block'), block'[i].tag = "header"
               PROVE  /\ block'[i] \in HeaderType
                      /\ AlignUp((i - 1) + block'[i].size) <= MaxBlock + Align
    BY DEF HeadersInv
  <2>1. CASE i \in 1..L /\ (i <= o \/ i > D)
    BY <1>1, <2>1 DEF IInv, HeadersInv, L
  <2>2. CASE i = o + 1
    <3>1. (i - 1) + (L - o) = L
      BY <1>2, <2>2
    <3>. QED  BY <1>1, <1>4, <1>5, <2>2, <3>1
  <2>3. CASE i \in (o + 2)..D
    BY <1>1, <1>5, <2>3
  <2>4. CASE i \in (L + 1)..Len(block')
    BY <1>1, <1>5, <2>4
  <2>. QED  BY <1>1, <1>2, <1>4, <2>1, <2>2, <2>3, <2>4
<1>14. Entry(block', Node, o, Len(block'))
  BY CloseEntry DEF o
<1>15. Len(block') \in Nat /\ L <= Len(block') /\ o <= Len(block')
  BY <1>1, <1>2, <1>4
<1>16. ASSUME NEW lo \in Nat, NEW hi \in Nat, hi <= o
       PROVE  /\ \A i \in (lo + 1)..hi : block'[i] = block[i]
              /\ hi <= Len(block')
  <2>1. \A i \in (lo + 1)..hi : i \in 1..L /\ i <= o
    BY <1>2, <1>16
  <2>2. hi <= Len(block')
    BY <1>2, <1>15, <1>16
  <2>. QED  BY <1>1, <2>1, <2>2
<1>17. 1 \in 1..n /\ 1 <= n
  BY <1>2
<1>18. End(1) = stack[1].offset /\ stack[1].offset \in Nat /\ stack[1].offset <= o
  <2>1. 1 <= Len(stack) /\ 1 \in 1..Len(stack)
    BY <1>17 DEF n
  <2>. QED  BY <1>1, <2>1, InOrder DEF End, IInv, o
<1>19. Rows(block', kids[1], 0, stack[1].offset) /\ IsSeq(kids[1])
  <2>1. Rows(block, kids[1], 0, stack[1].offset)
    BY <1>18 DEF IInv, TreeInv
  <2>2. IsSeq(kids[1])
    <3>1. 1 \in 1..(n + 1)
      BY <1>2
    <3>. QED  BY <1>2, <3>1 DEF IInv, Sequences
  <2>3. stack[1].offset <= Len(block') /\ \A i \in (0 + 1)..stack[1].offset : block'[i] = block[i]
    BY <1>16, <1>18
  <2>. QED  BY <1>1, <1>2, <1>18, <2>1, <2>2, <2>3, RowsKept
<1>20. IsSeq(kids[2])
  <2>1. 2 \in 1..(n + 1)
    BY <1>2
  <2>. QED  BY <1>2, <2>1 DEF IInv, Sequences
<1>21. CASE n = 1
  <2>1. stack[1].offset = o /\ D = Body(1) /\ Len(stack') = 0
    BY <1>2, <1>3, <1>6, <1>21 DEF o
  <2>2. ~IsOpen' /\ End(1)' = Len(block')
    BY <1>6, <2>1, LenZero DEF IsOpen, End
  <2>3. /\ Node.type = Top.header.type /\ Node.name = Top.header.name /\ Node.kids = kids[2]
        /\ o + HeaderSize[Node.name] = D
    <3>1. Node.kids = kids[2]
      BY <1>21 DEF Node, n
    <3>. QED  BY <3>1 DEF Node, DataStart, D, o
  <2>4. ASSUME Node.type = "directory" PROVE Row(block', kids[2], D, Len(block'))
    <3>1. ~InFile /\ L % Align = 0 /\ Len(block') = L
      <4>1. ~InFile /\ L % Align = 0
        BY <2>3, <2>4 DEF InFile, IInv, StackInv, L
      <4>. QED  BY <1>1, <1>2, <4>1, Aligned
    <3>2. Row(block, kids[2], D, L)
      <4>1. End(2) = L
        BY <1>21 DEF End, n, L
      <4>2. stack[1].header.type = "directory"
        BY <1>2, <1>21, <2>3, <2>4
      <4>. QED  BY <1>1, <2>1, <4>1, <4>2 DEF IInv, TreeInv
    <3>3. \A i \in (D + 1)..L : block'[i] = block[i]
      <4>1. \A i \in (D + 1)..L : i \in 1..L /\ i > D
        BY <1>2
      <4>. QED  BY <1>1, <4>1
    <3>4. Row(block', kids[2], D, L)
      <4>1. IsSeq(block) /\ IsSeq(block') /\ D \in Nat /\ L \in Nat /\ L <= Len(block')
        BY <1>1, <1>2, <1>15
      <4>. QED  BY <1>20, <3>2, <3>3, <4>1, RowKept
    <3>. QED  BY <3>1, <3>4
  <2>5. Rows(block', Append(kids[1], Node), 0, Len(block'))
    <3>1. Rows(block', kids[1], 0, o)
      BY <1>19, <2>1
    <3>. QED  BY <1>2, <1>14, <1>15, <1>19, <1>20, <2>3, <2>4, <3>1, RowsMore
  <2>6. TreeInv'
    BY <1>7, <1>21, <2>2, <2>5 DEF TreeInv
  <2>. QED  BY <1>8, <1>11, <1>12, <1>13, <2>6 DEF IInv
<1>22. CASE n # 1
  <2>1. /\ n >= 2 /\ 1 \in 1..m /\ 2 \in 1..n /\ 2 <= n /\ 1 <= m /\ 1 < n
    BY <1>2, <1>3, <1>22
  <2>2. End(1)' = stack[1].offset /\ kids'[1] = kids[1]
    BY <1>6, <1>7, <2>1 DEF End
  <2>3. /\ Body(1)' = Body(1) /\ Body(1) \in Nat /\ stack[1].header.type = "directory"
    BY <1>9, <2>1
  <2>4. /\ End(2) = stack[2].offset /\ stack[2].offset \in Nat /\ stack[2].offset <= o
    <3>1. 2 <= Len(stack) /\ 2 \in 1..Len(stack)
      BY <2>1 DEF n
    <3>. QED  BY <1>1, <3>1, InOrder DEF End, IInv, o
  <2>5. Row(block', kids[2], Body(1), stack[2].offset)
    <3>1. Row(block, kids[2], Body(1), stack[2].offset)
      BY <1>1, <2>3, <2>4 DEF IInv, TreeInv
    <3>2. /\ stack[2].offset <= Len(block')
          /\ \A i \in (Body(1) + 1)..stack[2].offset : block'[i] = block[i]
      BY <1>16, <2>3, <2>4
    <3>. QED  BY <1>1, <1>2, <1>20, <2>3, <2>4, <3>1, <3>2, RowKept
  <2>6. Row(block', kids'[2], Body(1), End(2)')
    <3>1. CASE n = 2
      <4>1. stack[2].offset = o /\ kids'[2] = Append(kids[2], Node)
        BY <1>2, <1>7, <3>1 DEF o
      <4>2. End(2)' = Len(block')
        <5>1. ~(2 <= Len(stack'))
          BY <1>3, <1>6, <3>1
        <5>. QED  BY <5>1 DEF End
      <4>3. Row(block', kids[2], Body(1), o)
        BY <2>5, <4>1
      <4>. QED  BY <1>2, <1>14, <1>15, <1>20, <2>3, <4>1, <4>2, <4>3, RowMore
    <3>2. CASE n # 2
      <4>1. 2 \in 1..m /\ 2 <= m
        BY <1>3, <2>1, <3>2
      <4>2. End(2)' = stack[2].offset /\ kids'[2] = kids[2]
        BY <1>6, <1>7, <4>1 DEF End
      <4>. QED  BY <2>5, <4>2
    <3>. QED  BY <3>1, <3>2
  <2>7. TreeInv'
    BY <1>19, <2>2, <2>3, <2>6 DEF TreeInv
  <2>. QED  BY <1>8, <1>11, <1>12, <1>13, <2>7 DEF IInv
<1>. QED  BY <1>21, <1>22

LEMMA NextInv ==
  ASSUME IInv, [Next]_vars
  PROVE  IInv'
<1>1. ASSUME UNCHANGED <<block, boffset, stack, offset, data, kids>> PROVE IInv'
  <2>1. offset' \in 0..MaxBlock
    BY <1>1 DEF IInv, StackInv
  <2>. QED  BY <1>1, <2>1, OffsetStep
<1>2. CASE UNCHANGED vars
  BY <1>1, <1>2 DEF vars
<1>3. CASE Destroy
  BY <1>1, <1>3 DEF Destroy
<1>4. CASE DestroyClose
  BY <1>4, CloseInv DEF DestroyClose
<1>5. CASE Use
  <2>1. CASE \E type \in {"file", "directory"}, name \in Names : Open(type, name)
    BY <2>1, OpenInv
  <2>2. CASE \E d \in Data, n \in Lengths \ {0} : Write(d, n)
    BY <2>2, WriteInv, ArchiveAssumption
  <2>3. CASE \E n \in Lengths : Resize(n) \/ Seek(n)
    BY <2>3, ResizeSeekInv, ArchiveAssumption
  <2>4. CASE Close
    BY <2>4, CloseInv
  <2>5. CASE OpenRefused \/ ResizeRefused \/ CloseRefused \/ ReadRefused
    BY <1>2, <2>5 DEF OpenRefused, ResizeRefused, CloseRefused, ReadRefused
  <2>. QED  BY <1>5, <2>1, <2>2, <2>3, <2>4, <2>5 DEF Use
<1>. QED  BY <1>2, <1>3, <1>4, <1>5 DEF Next

\* Every reachable state has the layout described: archive.cpp and heapfile.cpp
\* together keep it, whatever the order of the calls.
THEOREM Invariance == Spec => []IInv
<1>1. IInv /\ [Next]_vars => IInv'
  BY NextInv
<1>. QED  BY InitInv, <1>1, PTL DEF Spec

\* Offsets stay inside the block file and the auxiliary tree follows the stack.
THEOREM TypeCorrect == Spec => []TypeOK
<1>1. IInv => TypeOK
  <2> SUFFICES ASSUME IInv PROVE TypeOK
    OBVIOUS
  <2>1. /\ Len(block) \in Nat /\ Len(stack) \in Nat /\ Len(stack) <= MaxDepth
        /\ Len(kids) = Len(stack) + 1 /\ MaxDepth \in Nat /\ MaxBlock \in Nat /\ Align \in Nat
    BY SeqIs, ArchiveAssumption DEF IInv, Sequences
  <2>2. Len(block) \in 0..(MaxBlock + Align) /\ boffset \in 0..Len(block)
    <3>1. CASE InFile
      <4>1. boffset = DataStart /\ Len(block) <= MaxBlock
        BY <3>1 DEF IInv, StackInv
      <4>2. DataStart \in Nat /\ DataStart <= Len(block)
        BY <3>1, TopIs DEF InFile, IInv
      <4>. QED  BY <2>1, <4>1, <4>2
    <3>2. CASE ~InFile
      BY <2>1, <3>2 DEF IInv, StackInv
    <3>. QED  BY <3>1, <3>2
  <2>3. offset \in 0..MaxBlock
    BY DEF IInv, StackInv
  <2>4. ASSUME NEW i \in 1..Len(stack)
        PROVE  /\ stack[i].offset % Align = 0 /\ stack[i].offset < Len(block)
               /\ i < Len(stack) => stack[i].header.type = "directory"
    <3>1. stack[i].offset \in Nat /\ Body(i) \in Nat /\ stack[i].offset < Body(i)
      BY BodyIs DEF IInv
    <3>2. /\ stack[i].offset % Align = 0 /\ Body(i) <= Len(block)
          /\ i < Len(stack) => stack[i].header.type = "directory"
      BY DEF IInv, StackInv
    <3>. QED  BY <2>1, <3>1, <3>2
  <2>. QED  BY <2>1, <2>2, <2>3, <2>4 DEF TypeOK
<1>. QED  BY Invariance, <1>1, PTL

\* The file being written reads back, at any time, from its header to the end
\* of the block file, where close takes its size from.
THEOREM FileIsLast == Spec => []OpenFileIsLast
<1>1. IInv => OpenFileIsLast
  <2> SUFFICES ASSUME IInv, InFile PROVE Contents(DataStart, Len(block)) = data
    BY DEF OpenFileIsLast
  <2> DEFINE D == DataStart
             L == Len(block)
             t == SubSeq(block, D + 1, L)
  <2>1. /\ IsSeq(block) /\ IsSeq(data) /\ D \in Nat /\ Len(data) \in Nat /\ L \in Nat
        /\ L = D + Len(data) /\ \A i \in 1..Len(data) : block[D + i] = data[i]
    BY FileFacts
  <2>2. D <= L /\ L <= L /\ L - D = Len(data)
    <3>. HIDE DEF D, L
    <3>. QED  BY <2>1
  <2>3. /\ IsSeq(t) /\ Len(t) = L - D
        /\ \A i \in 1..(L - D) : t[i] = block[D + i]
    <3>. HIDE DEF D
    <3>. QED  BY <2>1, <2>2, SubSeqIs
  <2>4. Contents(D, L) = t
    BY DEF Contents
  <2>. HIDE DEF t, D, L
  <2>5. t = data
    BY <2>1, <2>2, <2>3, SameSeq
  <2>. QED  BY <2>4, <2>5 DEF D, L
<1>. QED  BY Invariance, <1>1, PTL

\* Two block files that agree up to a place.
LEMMA SamePrefix ==
  ASSUME NEW b1, NEW b2, IsSeq(b1), IsSeq(b2), NEW n \in Nat, n <= Len(b1), n <= Len(b2),
         \A i \in 1..n : b2[i] = b1[i]
  PROVE  SubSeq(b2, 1, n) = SubSeq(b1, 1, n)
<1>1. /\ IsSeq(SubSeq(b1, 1, n)) /\ Len(SubSeq(b1, 1, n)) = n
      /\ \A i \in 1..n : SubSeq(b1, 1, n)[i] = b1[i]
  BY PrefixIs
<1>2. /\ IsSeq(SubSeq(b2, 1, n)) /\ Len(SubSeq(b2, 1, n)) = n
      /\ \A i \in 1..n : SubSeq(b2, 1, n)[i] = b2[i]
  BY PrefixIs
<1>. QED  BY <1>1, <1>2, SameSeq

\* What changes the open file changes nothing in front of its data.
LEMMA FrontKept ==
  ASSUME IInv, InFile,
         \/ block' = block
         \/ \E n \in Nat : block' = Resized(block, DataStart + n)
         \/ \E at \in Nat : \E src : IsSeq(src) /\ block' = WriteAt(block, DataStart + at, src)
  PROVE  SubSeq(block', 1, Top.offset) = SubSeq(block, 1, Top.offset)
<1> DEFINE D == DataStart
           o == Top.offset
<1>1. /\ IsSeq(block) /\ Len(block) \in Nat /\ D \in Nat /\ o \in Nat /\ o < D /\ D <= Len(block)
  BY TopIs DEF InFile, IInv, Sequences
<1>. HIDE DEF D, o
<1>2. CASE block' = block
  BY <1>2
<1>3. ASSUME NEW n \in Nat, block' = Resized(block, D + n)
      PROVE  SubSeq(block', 1, o) = SubSeq(block, 1, o)
  <2>1. D + n \in Nat /\ o <= D + n /\ o <= Len(block)
    BY <1>1
  <2>2. /\ IsSeq(block') /\ Len(block') = D + n
        /\ \A i \in 1..(D + n) : block'[i] = IF i <= Len(block) THEN block[i] ELSE Junk
    BY <1>3, <2>1, ResizedIs
  <2>3. \A i \in 1..o : i \in 1..(D + n) /\ i <= Len(block)
    BY <1>1, <2>1
  <2>. QED  BY <1>1, <2>1, <2>2, <2>3, SamePrefix
<1>4. ASSUME NEW at \in Nat, NEW src, IsSeq(src), block' = WriteAt(block, D + at, src)
      PROVE  SubSeq(block', 1, o) = SubSeq(block, 1, o)
  <2>1. D + at \in Nat /\ Len(src) \in Nat
    BY <1>1, <1>4, SeqIs
  <2>2. /\ IsSeq(block')
        /\ Len(block') = IF (D + at) + Len(src) > Len(block) THEN (D + at) + Len(src) ELSE Len(block)
        /\ \A i \in 1..Len(block') :
             block'[i] = IF i > D + at /\ i <= (D + at) + Len(src) THEN src[i - (D + at)]
                         ELSE IF i <= Len(block) THEN block[i] ELSE Junk
    BY <1>1, <1>4, <2>1, WriteAtIs
  <2>3. o <= Len(block) /\ o <= Len(block')
    BY <1>1, <2>1, <2>2
  <2>4. \A i \in 1..o : i \in 1..Len(block') /\ i <= Len(block) /\ ~(i > D + at)
    BY <1>1, <2>1, <2>3
  <2>5. \A i \in 1..o : block'[i] = block[i]
    BY <2>2, <2>4
  <2>. QED  BY <1>1, <2>2, <2>3, <2>5, SamePrefix
<1>. QED  BY <1>2, <1>3, <1>4 DEF D, o

LEMMA StepKeeps ==
  ASSUME IInv, Next
  PROVE  LET first == IF IsOpen /\ Len(stack) >= Len(stack') THEN Top.offset ELSE Len(block)
         IN  SubSeq(block', 1, first) = SubSeq(block, 1, first)
<1> DEFINE first == IF IsOpen /\ Len(stack) >= Len(stack') THEN Top.offset ELSE Len(block)
<1>1. CASE block' = block
  BY <1>1
<1>2. CASE Close
  <2>1. /\ IsOpen /\ IsSeq(block') /\ Len(block') = AlignUp(Len(block)) /\ stack' = Below(stack)
        /\ \A i \in 1..Len(block) : i <= Top.offset \/ i > DataStart => block'[i] = block[i]
    BY <1>2, CloseBytes
  <2>2. /\ Len(stack) \in Nat /\ Len(stack) >= 1 /\ Len(block) \in Nat /\ Top.offset \in Nat
        /\ Top.offset <= Len(block) /\ IsSeq(block) /\ IsSeq(stack)
    <3>1. DataStart \in Nat /\ Top.offset < DataStart /\ DataStart <= Len(block)
      BY <2>1, TopIs DEF IInv
    <3>. QED  BY <2>1, <3>1, TopIs DEF IInv, Sequences
  <2>3. Len(stack) >= Len(stack')
    <3> DEFINE m == Len(stack) - 1
    <3>1. m \in Nat /\ m <= Len(stack)
      BY <2>2
    <3>2. stack' = SubSeq(stack, 1, m)
      BY <2>1 DEF Below
    <3>. HIDE DEF m
    <3>. QED  BY <2>2, <3>1, <3>2, PrefixIs
  <2>4. Top.offset <= Len(block')
    <3>1. AlignUp(Len(block)) \in Nat /\ Len(block) <= AlignUp(Len(block))
      BY <2>2, Aligned
    <3>. QED  BY <2>1, <2>2, <3>1
  <2>5. \A i \in 1..Top.offset : block'[i] = block[i]
    <3>1. \A i \in 1..Top.offset : i \in 1..Len(block) /\ i <= Top.offset
      BY <2>2
    <3>. QED  BY <2>1, <3>1
  <2>6. SubSeq(block', 1, Top.offset) = SubSeq(block, 1, Top.offset)
    BY <2>1, <2>2, <2>4, <2>5, SamePrefix
  <2>. QED  BY <2>1, <2>3, <2>6
<1>3. ASSUME NEW type \in {"file", "directory"}, NEW name \in Names, Open(type, name)
      PROVE  SubSeq(block', 1, first) = SubSeq(block, 1, first)
  <2>1. /\ Len(block) \in Nat /\ IsSeq(block') /\ Len(block') = Len(block) + HeaderSize[name]
        /\ \A i \in 1..Len(block) : block'[i] = block[i]
        /\ stack' = Append(stack, [offset |-> Len(block), header |-> Header(type, name, 0)])
    BY <1>3, OpenBytes
  <2>2. IsSeq(stack) /\ IsSeq(block) /\ Len(stack) \in Nat
    BY SeqIs DEF IInv, Sequences
  <2>3. ~(Len(stack) >= Len(stack'))
    <3>1. Len(stack') = Len(stack) + 1
      BY <2>1, <2>2, AppendIs
    <3>. QED  BY <2>2, <3>1
  <2>4. Len(block) <= Len(block')
    <3>1. HeaderSize[name] \in Nat
      BY HeaderIs
    <3>. QED  BY <2>1, <3>1
  <2>5. SubSeq(block', 1, Len(block)) = SubSeq(block, 1, Len(block))
    BY <2>1, <2>2, <2>4, SamePrefix
  <2>. QED  BY <2>3, <2>5
<1>4. ASSUME InFile, stack' = stack,
             SubSeq(block', 1, Top.offset) = SubSeq(block, 1, Top.offset)
      PROVE  SubSeq(block', 1, first) = SubSeq(block, 1, first)
  <2>1. IsOpen /\ Len(stack) >= Len(stack')
    <3>1. Len(stack) \in Nat
      BY SeqIs DEF IInv, Sequences
    <3>. QED  BY <1>4, <3>1 DEF InFile
  <2>. QED  BY <1>4, <2>1
<1>. HIDE DEF first
<1>5. CASE \E n \in Lengths : Resize(n) \/ Seek(n)
  <2>1. PICK n \in Lengths : Resize(n) \/ Seek(n)
    BY <1>5
  <2>2. /\ n \in Nat /\ InFile /\ stack' = stack
        /\ block' = block \/ block' = Resized(block, DataStart + n)
    BY <2>1, ArchiveAssumption DEF Resize, Seek
  <2>3. SubSeq(block', 1, Top.offset) = SubSeq(block, 1, Top.offset)
    <3>1. \/ block' = block
          \/ \E k \in Nat : block' = Resized(block, DataStart + k)
      BY <2>2
    <3>. QED  BY <2>2, <3>1, FrontKept
  <2>. QED  BY <1>4, <2>2, <2>3 DEF first
<1>6. CASE \E d \in Data, n \in Lengths \ {0} : Write(d, n)
  <2>1. PICK d \in Data, n \in Lengths \ {0} : Write(d, n)
    BY <1>6
  <2> DEFINE src == [i \in 1..n |-> DataByte(d)]
  <2>2. n \in Nat /\ InFile /\ stack' = stack /\ block' = WriteAt(block, DataStart + offset, src)
    BY <2>1, ArchiveAssumption DEF Write, WriteInto
  <2>3. IsSeq(src)
    <3>1. src = [i \in 1..n |-> src[i]]
      OBVIOUS
    <3>. HIDE DEF src
    <3>. QED  BY <2>2, <3>1, FcnIsSeq
  <2>4. offset \in Nat
    BY <2>2, FileFacts
  <2>. HIDE DEF src
  <2>5. SubSeq(block', 1, Top.offset) = SubSeq(block, 1, Top.offset)
    <3>1. \E at \in Nat : \E s : IsSeq(s) /\ block' = WriteAt(block, DataStart + at, s)
      BY <2>2, <2>3, <2>4
    <3>. QED  BY <2>2, <3>1, FrontKept
  <2>. QED  BY <1>4, <2>2, <2>5 DEF first
<1>7. CASE OpenRefused \/ ResizeRefused \/ CloseRefused \/ ReadRefused \/ Destroy
  BY <1>1, <1>7 DEF OpenRefused, ResizeRefused, CloseRefused, ReadRefused, Destroy, vars, first
<1>8. SubSeq(block', 1, first) = SubSeq(block, 1, first)
  <2>1. CASE Use
    BY <1>2, <1>3, <1>5, <1>6, <1>7, <2>1 DEF Use, first
  <2>. QED  BY <1>2, <1>7, <2>1 DEF Next, DestroyClose, first
<1>. QED  BY <1>8 DEF first

\* No call touches a byte in front of what it is about: archive::open those of
\* the whole ram disk, the others those in front of the innermost header.
THEOREM NothingEarlierChanges == Spec => EarlierBytesKept
<1>1. ASSUME IInv, [Next]_vars
      PROVE  [LET first == IF IsOpen /\ Len(stack) >= Len(stack') THEN Top.offset ELSE Len(block)
              IN  SubSeq(block', 1, first) = SubSeq(block, 1, first)]_vars
  BY <1>1, StepKeeps
<1>. QED  BY Invariance, <1>1, PTL DEF Spec, EarlierBytesKept

-----------------------------------------------------------------------------
(* Walks from header to header.                                            *)

LEMMA LeastNat ==
  ASSUME NEW T, T \subseteq Nat, T # {}
  PROVE  \E n \in T : \A m \in T : n <= m
<1> DEFINE below == {p \in Nat \X Nat : p[1] < p[2]}
<1>1. IsWellFoundedOn(below, Nat)
  BY NatLessThanWellFounded DEF OpToRel
<1>2. \A i, j \in Nat : j < i => <<j, i>> \in below
  OBVIOUS
<1>. HIDE DEF below
<1>3. PICK i \in T : \A j \in T : ~(<<j, i>> \in below)
  BY <1>1, WFMin, Zenon
<1>4. ASSUME NEW j \in T PROVE i <= j
  <2>1. i \in Nat /\ j \in Nat /\ ~(<<j, i>> \in below)
    BY <1>3
  <2>2. ~(j < i)
    BY <1>2, <2>1
  <2>. QED  BY <2>1, <2>2
<1>. QED  BY <1>4

\* What the recursion gives where it is right for the last k places of lo..hi.
RightFor(w, k, lo, hi, Stops, Out, Jump) ==
  /\ w = [at \in lo..hi |-> w[at]]
  /\ \A at \in lo..hi :
       at + k > hi => w[at] = IF at \in Stops THEN Out[at] ELSE w[Jump[at]]

Walks(w, lo, hi, Stops, Out, Jump) ==
  w = [at \in lo..hi |-> IF at \in Stops THEN Out[at] ELSE w[Jump[at]]]

\* A recursion that stops or jumps ahead defines a function.
LEMMA JumpWalk ==
  ASSUME NEW lo \in Nat, NEW hi \in Nat, NEW Stops, NEW Out, NEW Jump,
         \A at \in lo..hi : at \notin Stops => Jump[at] \in lo..hi /\ Jump[at] > at
  PROVE  \E w : Walks(w, lo, hi, Stops, Out, Jump)
<1> DEFINE T == {k \in Nat : ~ \E w : RightFor(w, k, lo, hi, Stops, Out, Jump)}
<1>1. \E w : RightFor(w, 0, lo, hi, Stops, Out, Jump)
  <2> DEFINE w == [at \in lo..hi |-> 0]
  <2>1. w = [at \in lo..hi |-> w[at]] /\ \A at \in lo..hi : ~(at + 0 > hi)
    OBVIOUS
  <2>. HIDE DEF w
  <2>. QED  BY <2>1 DEF RightFor
<1>2. ASSUME NEW k \in Nat, \E w : RightFor(w, k, lo, hi, Stops, Out, Jump)
      PROVE  \E w : RightFor(w, k + 1, lo, hi, Stops, Out, Jump)
  <2>1. PICK w : RightFor(w, k, lo, hi, Stops, Out, Jump)
    BY <1>2
  <2> DEFINE v == [at \in lo..hi |-> IF at + k > hi THEN w[at]
                                     ELSE IF at \in Stops THEN Out[at] ELSE w[Jump[at]]]
  <2>2. v = [at \in lo..hi |-> v[at]]
    OBVIOUS
  <2>3. ASSUME NEW at \in lo..hi, at + (k + 1) > hi
        PROVE  v[at] = IF at \in Stops THEN Out[at] ELSE v[Jump[at]]
    <3>1. v[at] = IF at \in Stops THEN Out[at] ELSE w[Jump[at]]
      BY <2>1 DEF RightFor
    <3>2. ASSUME at \notin Stops PROVE v[Jump[at]] = w[Jump[at]]
      <4>1. Jump[at] \in lo..hi /\ Jump[at] > at
        BY <3>2
      <4>2. Jump[at] + k > hi
        BY <2>3, <4>1
      <4>. QED  BY <4>1, <4>2
    <3>. HIDE DEF v
    <3>. QED  BY <3>1, <3>2
  <2>. HIDE DEF v
  <2>4. RightFor(v, k + 1, lo, hi, Stops, Out, Jump)
    BY <2>2, <2>3 DEF RightFor
  <2>. QED  BY <2>4
<1>3. T = {}
  <2> SUFFICES ASSUME T # {} PROVE FALSE
    OBVIOUS
  <2>1. PICK k \in T : \A m \in T : k <= m
    <3>1. T \subseteq Nat
      OBVIOUS
    <3>. HIDE DEF T
    <3>. QED  BY <3>1, LeastNat
  <2>2. k \in Nat /\ k # 0
    BY <1>1, <2>1
  <2>3. k - 1 \in Nat /\ (k - 1) + 1 = k /\ ~(k <= k - 1)
    BY <2>2
  <2>4. k - 1 \notin T
    <3>. HIDE DEF T
    <3>. QED  BY <2>1, <2>3
  <2>5. \E w : RightFor(w, k - 1, lo, hi, Stops, Out, Jump)
    BY <2>3, <2>4
  <2>6. \E w : RightFor(w, (k - 1) + 1, lo, hi, Stops, Out, Jump)
    BY <1>2, <2>3, <2>5
  <2>. QED  BY <2>1, <2>3, <2>6
<1>4. \E w : RightFor(w, hi + 1, lo, hi, Stops, Out, Jump)
  BY <1>3
<1>5. PICK w : RightFor(w, hi + 1, lo, hi, Stops, Out, Jump)
  BY <1>4
<1>6. \A at \in lo..hi : w[at] = IF at \in Stops THEN Out[at] ELSE w[Jump[at]]
  <2>1. \A at \in lo..hi : at + (hi + 1) > hi
    OBVIOUS
  <2>. QED  BY <1>5, <2>1 DEF RightFor
<1>7. w = [at \in lo..hi |-> w[at]]
  BY <1>5 DEF RightFor
<1>8. w = [at \in lo..hi |-> IF at \in Stops THEN Out[at] ELSE w[Jump[at]]]
  BY <1>6, <1>7
<1>. QED  BY <1>8 DEF Walks

\* Places between which the walk gives the same.
LEMMA SameAlong ==
  ASSUME NEW w, NEW pos, NEW i \in Nat, i >= 1,
         \A j \in 1..(i - 1) : w[pos[j]] = w[pos[j + 1]]
  PROVE  w[pos[1]] = w[pos[i]]
<1> DEFINE T == {j \in 1..i : w[pos[j]] # w[pos[1]]}
<1>1. T = {}
  <2> SUFFICES ASSUME T # {} PROVE FALSE
    OBVIOUS
  <2>1. T \subseteq Nat
    OBVIOUS
  <2>2. PICK j \in T : \A m \in T : j <= m
    <3>. HIDE DEF T
    <3>. QED  BY <2>1, LeastNat
  <2>3. j \in 1..i /\ w[pos[j]] # w[pos[1]]
    BY <2>2
  <2>4. j # 1
    BY <2>3
  <2>5. j - 1 \in 1..i /\ j - 1 \in 1..(i - 1) /\ (j - 1) + 1 = j /\ ~(j <= j - 1)
    BY <2>3, <2>4
  <2>6. j - 1 \notin T
    <3>. HIDE DEF T
    <3>. QED  BY <2>2, <2>5
  <2>7. w[pos[j - 1]] = w[pos[1]]
    BY <2>5, <2>6
  <2>. QED  BY <2>3, <2>5, <2>7
<1>. QED  BY <1>1

LEMMA EndRead ==
  ASSUME IInv, NEW at \in Nat, IsHeader(at)
  PROVE  EndAt(at) \in Nat /\ EndAt(at) <= MaxBlock + Align
<1>1. at + 1 \in 1..Len(block) /\ block[at + 1].tag = "header" /\ (at + 1) - 1 = at
  <2>1. Len(block) \in Nat
    BY SeqIs DEF IInv, Sequences
  <2>. QED  BY <2>1 DEF IsHeader
<1>2. /\ block[at + 1] \in HeaderType
      /\ AlignUp(((at + 1) - 1) + block[at + 1].size) <= MaxBlock + Align
  BY <1>1 DEF IInv, HeadersInv
<1>3. block[at + 1].size \in Nat
  BY <1>2 DEF HeaderType
<1>4. at + block[at + 1].size \in Nat
  BY <1>3
<1>5. EndAt(at) = AlignUp(at + block[at + 1].size)
  BY DEF EndAt, HeaderAt
<1>. QED  BY <1>1, <1>2, <1>4, <1>5, Aligned

\* What the readers see of an entry.
LEMMA EntryRead ==
  ASSUME IInv, NEW nodes, IsSeq(nodes), NEW lo \in Nat, NEW hi \in Nat, hi <= Len(block),
         NEW pos, Places(block, nodes, lo, hi, pos), NEW i \in 1..Len(nodes)
  PROVE  /\ pos[i] \in Nat /\ pos[i + 1] \in Nat
         /\ lo <= pos[i] /\ pos[i] < pos[i + 1] /\ pos[i + 1] <= hi
         /\ pos[i] \in lo..(MaxBlock + Align)
         /\ IsHeader(pos[i]) /\ HeaderAt(pos[i]).name = nodes[i].name
         /\ HeaderAt(pos[i]).type = nodes[i].type /\ EndAt(pos[i]) = pos[i + 1]
         /\ nodes[i].type \in {"file", "directory"}
         /\ BodyAt(pos[i]) = pos[i] + HeaderSize[nodes[i].name]
         /\ BodyAt(pos[i]) \in Nat /\ BodyAt(pos[i]) % Align = 0
         /\ nodes[i].type = "file" =>
              Contents(BodyAt(pos[i]), pos[i] + HeaderAt(pos[i]).size) = nodes[i].data
         /\ nodes[i].type = "directory" => pos[i] + HeaderAt(pos[i]).size = pos[i + 1]
<1> DEFINE a == pos[i]  e == pos[i + 1]
<1>1. i \in 1..(Len(nodes) + 1) /\ i + 1 \in 1..(Len(nodes) + 1)
  BY SeqIs
<1>2. a \in lo..hi /\ e \in lo..hi /\ Entry(block, nodes[i], a, e)
  BY <1>1 DEF Places
<1>3. a \in Nat /\ e \in Nat /\ lo <= a /\ e <= hi /\ a < e /\ a % Align = 0
  BY <1>2 DEF Entry
<1>4. Len(block) \in Nat /\ Len(block) <= MaxBlock + Align /\ MaxBlock \in Nat /\ Align \in Nat
  <2>1. Len(block) \in Nat /\ MaxBlock \in Nat /\ Align \in Nat
    BY SeqIs, ArchiveAssumption DEF IInv, Sequences
  <2>. QED  BY <2>1 DEF IInv, StackInv
<1>. HIDE DEF a, e
<1>5. nodes[i].name \in Names /\ nodes[i].type \in {"file", "directory"}
  BY <1>2 DEF Entry
<1>6. PICK n \in Nat :
        /\ block[a + 1] = Header(nodes[i].type, nodes[i].name, n)
        /\ HeaderSize[nodes[i].name] <= n /\ AlignUp(a + n) = e
        /\ nodes[i].type = "directory" => a + n = e
        /\ nodes[i].type = "file" =>
             SubSeq(block, a + HeaderSize[nodes[i].name] + 1, a + n) = nodes[i].data
  BY <1>2 DEF Entry
<1>7. /\ HeaderAt(a).tag = "header" /\ HeaderAt(a).name = nodes[i].name
      /\ HeaderAt(a).type = nodes[i].type /\ HeaderAt(a).size = n
  BY <1>6 DEF HeaderAt, Header
<1>8. IsHeader(a) /\ a \in lo..(MaxBlock + Align)
  BY <1>3, <1>4, <1>7 DEF IsHeader, HeaderAt
<1>9. EndAt(a) = e /\ BodyAt(a) = a + HeaderSize[nodes[i].name]
  BY <1>6, <1>7 DEF EndAt, BodyAt
<1>10. BodyAt(a) \in Nat /\ BodyAt(a) % Align = 0
  <2> DEFINE h == HeaderSize[nodes[i].name]
  <2>1. h \in Nat /\ h % Align = 0
    BY <1>5, HeaderIs
  <2>. HIDE DEF h
  <2>2. a + h \in Nat /\ (a + h) % Align = 0
    BY <1>3, <2>1, AlignedSum
  <2>. QED  BY <1>9, <2>2 DEF h
<1>11. nodes[i].type = "file" => Contents(BodyAt(a), a + HeaderAt(a).size) = nodes[i].data
  BY <1>6, <1>7, <1>9 DEF Contents
<1>. QED  BY <1>3, <1>5, <1>6, <1>7, <1>8, <1>9, <1>10, <1>11 DEF a, e

\* Where the row ends.
LEMMA RowEnd ==
  ASSUME IInv, NEW nodes, IsSeq(nodes), NEW lo \in Nat, NEW hi \in Nat, hi <= Len(block),
         NEW pos, Places(block, nodes, lo, hi, pos)
  PROVE  /\ pos[1] = lo /\ pos[Len(nodes) + 1] = hi /\ Len(nodes) \in Nat
         /\ lo \in lo..(MaxBlock + Align) /\ hi \in lo..(MaxBlock + Align)
<1>1. Len(block) \in Nat /\ MaxBlock \in Nat /\ Align \in Nat /\ Len(nodes) \in Nat
  BY SeqIs, ArchiveAssumption DEF IInv, Sequences
<1>2. Len(block) <= MaxBlock + Align
  BY <1>1 DEF IInv, StackInv
<1>3. pos[1] = lo /\ pos[Len(nodes) + 1] = hi /\ pos[1] \in lo..hi
  <2>1. 1 \in 1..(Len(nodes) + 1)
    BY <1>1
  <2>. QED  BY <2>1 DEF Places
<1>. QED  BY <1>1, <1>2, <1>3

\* One round of archive_view::find's loop.
FindStep(w, name, at, hi) ==
  IF at >= hi \/ ~IsHeader(at) THEN Missing
  ELSE IF HeaderAt(at).name = name
       THEN [found |-> HeaderAt(at).type, lo |-> BodyAt(at),
             hi |-> Lesser(EndAt(at), hi), end |-> at + HeaderAt(at).size]
  ELSE IF EndAt(at) <= at THEN Stuck
  ELSE w[EndAt(at)]

FindWalk(name, lo, hi) ==
  CHOOSE w : w = [at \in lo..(MaxBlock + Align) |-> FindStep(w, name, at, hi)]

LEMMA FindIsWalk ==
  ASSUME NEW name, NEW lo, NEW hi
  PROVE  FindIn(name, lo, hi) = FindWalk(name, lo, hi)[lo]
BY DEF FindIn, FindWalk, FindStep

LEMMA FindWalkIs ==
  ASSUME IInv, NEW name, NEW lo \in Nat, NEW hi \in Nat, NEW at \in lo..(MaxBlock + Align)
  PROVE  FindWalk(name, lo, hi)[at] = FindStep(FindWalk(name, lo, hi), name, at, hi)
<1> DEFINE M == MaxBlock + Align
           Stops == {a \in lo..M : \/ a >= hi \/ ~IsHeader(a) \/ HeaderAt(a).name = name
                                   \/ EndAt(a) <= a}
           Out == [a \in lo..M |-> FindStep(<<>>, name, a, hi)]
           Jump == [a \in lo..M |-> EndAt(a)]
<1>1. M \in Nat
  BY ArchiveAssumption
<1>2. ASSUME NEW a \in lo..M, a \notin Stops PROVE Jump[a] \in lo..M /\ Jump[a] > a
  <2>1. IsHeader(a) /\ ~(EndAt(a) <= a) /\ a \in Nat
    BY <1>1, <1>2
  <2>2. EndAt(a) \in Nat /\ EndAt(a) <= M
    BY <2>1, EndRead
  <2>3. Jump[a] = EndAt(a)
    OBVIOUS
  <2>. HIDE DEF M, Jump
  <2>. QED  BY <1>1, <2>1, <2>2, <2>3
<1>3. ASSUME NEW w, NEW a \in lo..M
      PROVE  (IF a \in Stops THEN Out[a] ELSE w[Jump[a]]) = FindStep(w, name, a, hi)
  <2>1. Out[a] = FindStep(<<>>, name, a, hi) /\ Jump[a] = EndAt(a)
    OBVIOUS
  <2>2. a \in Stops => FindStep(<<>>, name, a, hi) = FindStep(w, name, a, hi)
    BY DEF FindStep
  <2>3. a \notin Stops => FindStep(w, name, a, hi) = w[EndAt(a)]
    BY DEF FindStep
  <2>. HIDE DEF Stops, Out, Jump
  <2>. QED  BY <2>1, <2>2, <2>3
<1>4. \E w : Walks(w, lo, M, Stops, Out, Jump)
  <2>. HIDE DEF M, Stops, Out, Jump
  <2>1. \A a \in lo..M : a \notin Stops => Jump[a] \in lo..M /\ Jump[a] > a
    BY <1>2
  <2>. QED  BY <1>1, <2>1, JumpWalk
<1>. HIDE DEF Stops, Out, Jump
<1>5. \E w : w = [a \in lo..M |-> FindStep(w, name, a, hi)]
  <2>1. PICK w : w = [a \in lo..M |-> IF a \in Stops THEN Out[a] ELSE w[Jump[a]]]
    BY <1>4 DEF Walks
  <2>2. \A a \in lo..M : (IF a \in Stops THEN Out[a] ELSE w[Jump[a]]) = FindStep(w, name, a, hi)
    BY <1>3
  <2>3. [a \in lo..M |-> IF a \in Stops THEN Out[a] ELSE w[Jump[a]]]
          = [a \in lo..M |-> FindStep(w, name, a, hi)]
    BY <2>2
  <2>4. w = [a \in lo..M |-> FindStep(w, name, a, hi)]
    BY <2>1, <2>3
  <2>. QED  BY <2>4
<1>6. FindWalk(name, lo, hi) = [a \in lo..M |-> FindStep(FindWalk(name, lo, hi), name, a, hi)]
  BY <1>5 DEF FindWalk
<1> DEFINE v == FindWalk(name, lo, hi)
<1>7. v = [a \in lo..M |-> FindStep(v, name, a, hi)]
  BY <1>6
<1>. HIDE DEF v
<1>8. v[at] = FindStep(v, name, at, hi)
  BY <1>7
<1>. QED  BY <1>8 DEF v

\* The first entry of a name, if there is one.
IsFirst(nodes, name, i) ==
  /\ i \in 1..Len(nodes) /\ nodes[i].name = name
  /\ \A j \in 1..(i - 1) : nodes[j].name # name

LEMMA LookupIs ==
  ASSUME NEW nodes, IsSeq(nodes), NEW name
  PROVE  \/ (\A i \in 1..Len(nodes) : nodes[i].name # name) /\ LookupIn(name, nodes) = [type |-> "missing"]
         \/ \E i : IsFirst(nodes, name, i) /\ LookupIn(name, nodes) = nodes[i]
<1>1. CASE \A i \in 1..Len(nodes) : nodes[i].name # name
  BY <1>1 DEF LookupIn
<1>2. CASE ~ \A i \in 1..Len(nodes) : nodes[i].name # name
  <2> DEFINE T == {i \in 1..Len(nodes) : nodes[i].name = name}
             first == CHOOSE i \in 1..Len(nodes) :
                        nodes[i].name = name /\ \A j \in 1..(i - 1) : nodes[j].name # name
  <2>1. T \subseteq Nat /\ T # {} /\ Len(nodes) \in Nat
    BY <1>2, SeqIs
  <2>2. PICK i \in T : \A m \in T : i <= m
    <3>. HIDE DEF T
    <3>. QED  BY <2>1, LeastNat
  <2>3. IsFirst(nodes, name, i)
    <3>1. i \in 1..Len(nodes) /\ nodes[i].name = name
      BY <2>2
    <3>2. ASSUME NEW j \in 1..(i - 1) PROVE nodes[j].name # name
      <4>1. j \in 1..Len(nodes) /\ ~(i <= j)
        BY <2>1, <3>1
      <4>. QED  BY <2>2, <4>1
    <3>. QED  BY <3>1, <3>2 DEF IsFirst
  <2>4. first \in 1..Len(nodes) /\ nodes[first].name = name /\ \A j \in 1..(first - 1) : nodes[j].name # name
    BY <2>3 DEF IsFirst
  <2>5. LookupIn(name, nodes) = nodes[first]
    BY <1>2 DEF LookupIn
  <2>. HIDE DEF first
  <2>6. IsFirst(nodes, name, first)
    BY <2>4 DEF IsFirst
  <2>. QED  BY <2>5, <2>6
<1>. QED  BY <1>1, <1>2

\* What archive_view::find says of it.
LEMMA FindFirst ==
  ASSUME IInv, NEW nodes, IsSeq(nodes), NEW lo \in Nat, NEW hi \in Nat, hi <= Len(block),
         NEW pos, Places(block, nodes, lo, hi, pos), NEW name, NEW i, IsFirst(nodes, name, i)
  PROVE  FindIn(name, lo, hi) = [found |-> nodes[i].type, lo |-> BodyAt(pos[i]),
                                 hi |-> pos[i + 1], end |-> pos[i] + HeaderAt(pos[i]).size]
<1> DEFINE w == FindWalk(name, lo, hi)
<1>1. \A at \in lo..(MaxBlock + Align) : w[at] = FindStep(w, name, at, hi)
  BY FindWalkIs
<1>2. FindIn(name, lo, hi) = w[lo] /\ pos[1] = lo
  BY FindIsWalk, RowEnd
<1>3. i \in 1..Len(nodes) /\ nodes[i].name = name /\ Len(nodes) \in Nat
  BY SeqIs DEF IsFirst
<1>. HIDE DEF w
<1>4. ASSUME NEW j \in 1..(i - 1) PROVE w[pos[j]] = w[pos[j + 1]]
  <2>1. j \in 1..Len(nodes) /\ nodes[j].name # name
    BY <1>3 DEF IsFirst
  <2>2. /\ pos[j] \in Nat /\ pos[j + 1] \in Nat /\ pos[j] < pos[j + 1] /\ pos[j + 1] <= hi
        /\ pos[j] \in lo..(MaxBlock + Align) /\ IsHeader(pos[j])
        /\ HeaderAt(pos[j]).name = nodes[j].name /\ EndAt(pos[j]) = pos[j + 1]
    BY <2>1, EntryRead
  <2>3. ~(pos[j] >= hi) /\ ~(pos[j + 1] <= pos[j])
    BY <2>2
  <2>4. FindStep(w, name, pos[j], hi) = w[pos[j + 1]]
    BY <2>1, <2>2, <2>3 DEF FindStep
  <2>. QED  BY <1>1, <2>2, <2>4
<1>5. w[pos[1]] = w[pos[i]]
  BY <1>3, <1>4, SameAlong
<1>6. /\ pos[i] \in Nat /\ pos[i + 1] \in Nat /\ pos[i] < pos[i + 1] /\ pos[i + 1] <= hi
      /\ pos[i] \in lo..(MaxBlock + Align) /\ IsHeader(pos[i])
      /\ HeaderAt(pos[i]).name = name /\ HeaderAt(pos[i]).type = nodes[i].type
      /\ EndAt(pos[i]) = pos[i + 1]
  BY <1>3, EntryRead
<1>7. ~(pos[i] >= hi) /\ Lesser(EndAt(pos[i]), hi) = pos[i + 1]
  BY <1>6 DEF Lesser
<1>8. FindStep(w, name, pos[i], hi) = [found |-> nodes[i].type, lo |-> BodyAt(pos[i]),
                                       hi |-> pos[i + 1], end |-> pos[i] + HeaderAt(pos[i]).size]
  BY <1>6, <1>7 DEF FindStep
<1>. QED  BY <1>1, <1>2, <1>5, <1>6, <1>8

LEMMA FindNone ==
  ASSUME IInv, NEW nodes, IsSeq(nodes), NEW lo \in Nat, NEW hi \in Nat, hi <= Len(block),
         NEW pos, Places(block, nodes, lo, hi, pos), NEW name,
         \A i \in 1..Len(nodes) : nodes[i].name # name
  PROVE  FindIn(name, lo, hi) = Missing
<1> DEFINE w == FindWalk(name, lo, hi)
           i == Len(nodes) + 1
<1>1. \A at \in lo..(MaxBlock + Align) : w[at] = FindStep(w, name, at, hi)
  BY FindWalkIs
<1>2. FindIn(name, lo, hi) = w[lo] /\ pos[1] = lo /\ pos[i] = hi /\ hi \in lo..(MaxBlock + Align)
  BY FindIsWalk, RowEnd
<1>3. i \in Nat /\ i >= 1 /\ Len(nodes) \in Nat
  BY SeqIs
<1>. HIDE DEF w
<1>4. ASSUME NEW j \in 1..(i - 1) PROVE w[pos[j]] = w[pos[j + 1]]
  <2>1. j \in 1..Len(nodes)
    BY <1>3
  <2>2. /\ pos[j] \in Nat /\ pos[j + 1] \in Nat /\ pos[j] < pos[j + 1] /\ pos[j + 1] <= hi
        /\ pos[j] \in lo..(MaxBlock + Align) /\ IsHeader(pos[j])
        /\ HeaderAt(pos[j]).name = nodes[j].name /\ EndAt(pos[j]) = pos[j + 1]
    BY <2>1, EntryRead
  <2>3. ~(pos[j] >= hi) /\ ~(pos[j + 1] <= pos[j])
    BY <2>2
  <2>4. FindStep(w, name, pos[j], hi) = w[pos[j + 1]]
    BY <2>1, <2>2, <2>3 DEF FindStep
  <2>. QED  BY <1>1, <2>2, <2>4
<1>. HIDE DEF i
<1>5. w[pos[1]] = w[pos[i]]
  BY <1>3, <1>4, SameAlong
<1>6. FindStep(w, name, hi, hi) = Missing
  <2>1. hi >= hi
    OBVIOUS
  <2>. QED  BY <2>1 DEF FindStep
<1>. QED  BY <1>1, <1>2, <1>5, <1>6

\* One round of archive::load's search.
LoadStep(w, name, at, ending) ==
  IF ~IsHeader(at) THEN Missing
  ELSE IF HeaderAt(at).name = name THEN [found |-> HeaderAt(at).type, at |-> at]
  ELSE IF EndAt(at) >= ending THEN Missing
  ELSE IF EndAt(at) <= at THEN Stuck
  ELSE w[EndAt(at)]

LoadWalk(name, lo, ending) ==
  CHOOSE w : w = [at \in lo..(MaxBlock + Align) |-> LoadStep(w, name, at, ending)]

LEMMA LoadIsWalk ==
  ASSUME NEW name, NEW lo, NEW ending
  PROVE  LoadIn(name, lo, ending) = LoadWalk(name, lo, ending)[lo]
BY DEF LoadIn, LoadWalk, LoadStep

LEMMA LoadWalkIs ==
  ASSUME IInv, NEW name, NEW lo \in Nat, NEW hi \in Nat, NEW at \in lo..(MaxBlock + Align)
  PROVE  LoadWalk(name, lo, hi)[at] = LoadStep(LoadWalk(name, lo, hi), name, at, hi)
<1> DEFINE M == MaxBlock + Align
           Stops == {a \in lo..M : \/ ~IsHeader(a) \/ HeaderAt(a).name = name
                                   \/ EndAt(a) >= hi \/ EndAt(a) <= a}
           Out == [a \in lo..M |-> LoadStep(<<>>, name, a, hi)]
           Jump == [a \in lo..M |-> EndAt(a)]
<1>1. M \in Nat
  BY ArchiveAssumption
<1>2. ASSUME NEW a \in lo..M, a \notin Stops PROVE Jump[a] \in lo..M /\ Jump[a] > a
  <2>1. IsHeader(a) /\ ~(EndAt(a) <= a) /\ a \in Nat
    BY <1>1, <1>2
  <2>2. EndAt(a) \in Nat /\ EndAt(a) <= M
    BY <2>1, EndRead
  <2>3. Jump[a] = EndAt(a)
    OBVIOUS
  <2>. HIDE DEF M, Jump
  <2>. QED  BY <1>1, <2>1, <2>2, <2>3
<1>3. ASSUME NEW w, NEW a \in lo..M
      PROVE  (IF a \in Stops THEN Out[a] ELSE w[Jump[a]]) = LoadStep(w, name, a, hi)
  <2>1. Out[a] = LoadStep(<<>>, name, a, hi) /\ Jump[a] = EndAt(a)
    OBVIOUS
  <2>2. a \in Stops => LoadStep(<<>>, name, a, hi) = LoadStep(w, name, a, hi)
    BY DEF LoadStep
  <2>3. a \notin Stops => LoadStep(w, name, a, hi) = w[EndAt(a)]
    BY DEF LoadStep
  <2>. HIDE DEF Stops, Out, Jump
  <2>. QED  BY <2>1, <2>2, <2>3
<1>4. \E w : Walks(w, lo, M, Stops, Out, Jump)
  <2>. HIDE DEF M, Stops, Out, Jump
  <2>1. \A a \in lo..M : a \notin Stops => Jump[a] \in lo..M /\ Jump[a] > a
    BY <1>2
  <2>. QED  BY <1>1, <2>1, JumpWalk
<1>. HIDE DEF Stops, Out, Jump
<1>5. \E w : w = [a \in lo..M |-> LoadStep(w, name, a, hi)]
  <2>1. PICK w : w = [a \in lo..M |-> IF a \in Stops THEN Out[a] ELSE w[Jump[a]]]
    BY <1>4 DEF Walks
  <2>2. \A a \in lo..M : (IF a \in Stops THEN Out[a] ELSE w[Jump[a]]) = LoadStep(w, name, a, hi)
    BY <1>3
  <2>3. [a \in lo..M |-> IF a \in Stops THEN Out[a] ELSE w[Jump[a]]]
          = [a \in lo..M |-> LoadStep(w, name, a, hi)]
    BY <2>2
  <2>4. w = [a \in lo..M |-> LoadStep(w, name, a, hi)]
    BY <2>1, <2>3
  <2>. QED  BY <2>4
<1>6. LoadWalk(name, lo, hi) = [a \in lo..M |-> LoadStep(LoadWalk(name, lo, hi), name, a, hi)]
  BY <1>5 DEF LoadWalk
<1> DEFINE v == LoadWalk(name, lo, hi)
<1>7. v = [a \in lo..M |-> LoadStep(v, name, a, hi)]
  BY <1>6
<1>. HIDE DEF v
<1>8. v[at] = LoadStep(v, name, at, hi)
  BY <1>7
<1>. QED  BY <1>8 DEF v

\* And what it says of the first entry of a name.
LEMMA LoadFirst ==
  ASSUME IInv, NEW nodes, IsSeq(nodes), NEW lo \in Nat, NEW hi \in Nat, hi <= Len(block),
         NEW pos, Places(block, nodes, lo, hi, pos), NEW name, NEW i, IsFirst(nodes, name, i)
  PROVE  LoadIn(name, lo, hi) = [found |-> nodes[i].type, at |-> pos[i]]
<1> DEFINE w == LoadWalk(name, lo, hi)
<1>1. \A at \in lo..(MaxBlock + Align) : w[at] = LoadStep(w, name, at, hi)
  BY LoadWalkIs
<1>2. LoadIn(name, lo, hi) = w[lo] /\ pos[1] = lo
  BY LoadIsWalk, RowEnd
<1>3. i \in 1..Len(nodes) /\ nodes[i].name = name /\ Len(nodes) \in Nat
  BY SeqIs DEF IsFirst
<1>. HIDE DEF w
<1>4. ASSUME NEW j \in 1..(i - 1) PROVE w[pos[j]] = w[pos[j + 1]]
  <2>1. j \in 1..Len(nodes) /\ nodes[j].name # name /\ j + 1 \in 1..Len(nodes)
    BY <1>3 DEF IsFirst
  <2>2. /\ pos[j] \in Nat /\ pos[j + 1] \in Nat /\ pos[j] < pos[j + 1]
        /\ pos[j] \in lo..(MaxBlock + Align) /\ IsHeader(pos[j])
        /\ HeaderAt(pos[j]).name = nodes[j].name /\ EndAt(pos[j]) = pos[j + 1]
    BY <2>1, EntryRead
  <2>3. pos[(j + 1) + 1] \in Nat /\ pos[j + 1] < pos[(j + 1) + 1] /\ pos[(j + 1) + 1] <= hi
    BY <2>1, EntryRead
  <2>4. ~(pos[j + 1] >= hi) /\ ~(pos[j + 1] <= pos[j])
    BY <2>2, <2>3
  <2>5. LoadStep(w, name, pos[j], hi) = w[pos[j + 1]]
    BY <2>1, <2>2, <2>4 DEF LoadStep
  <2>. QED  BY <1>1, <2>2, <2>5
<1>5. w[pos[1]] = w[pos[i]]
  BY <1>3, <1>4, SameAlong
<1>6. /\ pos[i] \in lo..(MaxBlock + Align) /\ IsHeader(pos[i])
      /\ HeaderAt(pos[i]).name = name /\ HeaderAt(pos[i]).type = nodes[i].type
  BY <1>3, EntryRead
<1>7. LoadStep(w, name, pos[i], hi) = [found |-> nodes[i].type, at |-> pos[i]]
  BY <1>6 DEF LoadStep
<1>. QED  BY <1>1, <1>2, <1>5, <1>6, <1>7

-----------------------------------------------------------------------------
(* What the readers find is what was written.                              *)

Reads(node, result) ==
  /\ node.type \in {"missing", "file", "directory"}
  /\ node.type \in {"missing", "directory"} => result = [found |-> node.type]
  /\ node.type = "file" => result = [found |-> "file", data |-> node.data]

LEMMA FindReads ==
  ASSUME IInv, NEW nodes, IsSeq(nodes), NEW lo \in Nat, NEW hi \in Nat, hi <= Len(block),
         Row(block, nodes, lo, hi), NEW name
  PROVE  Reads(LookupIn(name, nodes), FoundData(FindIn(name, lo, hi)))
<1>1. PICK pos : Places(block, nodes, lo, hi, pos)
  BY DEF Row
<1>2. CASE /\ \A i \in 1..Len(nodes) : nodes[i].name # name
           /\ LookupIn(name, nodes) = [type |-> "missing"]
  <2>1. FindIn(name, lo, hi) = Missing
    BY <1>1, <1>2, FindNone
  <2>2. FoundData(FindIn(name, lo, hi)) = [found |-> "missing"]
    BY <2>1 DEF FoundData, Missing
  <2>3. LookupIn(name, nodes).type = "missing"
    BY <1>2
  <2>. QED  BY <2>2, <2>3 DEF Reads
<1>3. CASE \E i : IsFirst(nodes, name, i) /\ LookupIn(name, nodes) = nodes[i]
  <2>1. PICK i : IsFirst(nodes, name, i) /\ LookupIn(name, nodes) = nodes[i]
    BY <1>3
  <2>2. i \in 1..Len(nodes)
    BY <2>1 DEF IsFirst
  <2> DEFINE f == [found |-> nodes[i].type, lo |-> BodyAt(pos[i]), hi |-> pos[i + 1],
                   end |-> pos[i] + HeaderAt(pos[i]).size]
  <2>3. FindIn(name, lo, hi) = f
    BY <1>1, <2>1, FindFirst
  <2>4. /\ nodes[i].type \in {"file", "directory"}
        /\ nodes[i].type = "file" =>
             Contents(BodyAt(pos[i]), pos[i] + HeaderAt(pos[i]).size) = nodes[i].data
    BY <1>1, <2>2, EntryRead
  <2>5. /\ f.found = nodes[i].type /\ f.lo = BodyAt(pos[i])
        /\ f.end = pos[i] + HeaderAt(pos[i]).size
    OBVIOUS
  <2>. HIDE DEF f
  <2>6. nodes[i].type = "file" => FoundData(f) = [found |-> "file", data |-> nodes[i].data]
    BY <2>4, <2>5 DEF FoundData
  <2>7. nodes[i].type = "directory" => FoundData(f) = [found |-> nodes[i].type]
    BY <2>5 DEF FoundData
  <2>8. Reads(nodes[i], FoundData(f))
    BY <2>4, <2>6, <2>7 DEF Reads
  <2>. QED  BY <2>1, <2>3, <2>8
<1>. QED  BY <1>2, <1>3, LookupIs

LEMMA LoadReads ==
  ASSUME IInv, NEW nodes, IsSeq(nodes), NEW lo \in Nat, NEW hi \in Nat, hi <= Len(block),
         Row(block, nodes, lo, hi), NEW name, LookupIn(name, nodes).type = "file"
  PROVE  LoadedData(LoadIn(name, lo, hi)) = [found |-> "file", data |-> LookupIn(name, nodes).data]
<1>1. PICK pos : Places(block, nodes, lo, hi, pos)
  BY DEF Row
<1>2. PICK i : IsFirst(nodes, name, i) /\ LookupIn(name, nodes) = nodes[i]
  <2>1. LookupIn(name, nodes) # [type |-> "missing"]
    OBVIOUS
  <2>. QED  BY <2>1, LookupIs
<1>3. i \in 1..Len(nodes)
  BY <1>2 DEF IsFirst
<1>4. LoadIn(name, lo, hi) = [found |-> "file", at |-> pos[i]]
  <2>1. LoadIn(name, lo, hi) = [found |-> nodes[i].type, at |-> pos[i]]
    BY <1>1, <1>2, LoadFirst
  <2>. QED  BY <1>2, <2>1
<1>5. Contents(BodyAt(pos[i]), pos[i] + HeaderAt(pos[i]).size) = nodes[i].data
  BY <1>1, <1>2, <1>3, EntryRead
<1>. QED  BY <1>2, <1>4, <1>5 DEF LoadedData

\* The whole ram disk, when nothing is open.
LEMMA WholeDisk ==
  ASSUME IInv, ~IsOpen
  PROVE  /\ Len(block) \in Nat /\ IsSeq(kids[1]) /\ Rows(block, kids[1], 0, Len(block))
         /\ Row(block, kids[1], 0, Len(block))
<1>1. /\ stack = <<>> /\ Len(stack) = 0 /\ Len(block) \in Nat /\ IsSeq(kids[1])
  <2>1. stack = <<>> /\ Len(stack) = 0 /\ Len(block) \in Nat
    BY SeqIs, EmptyIsSeq DEF IsOpen, IInv, Sequences
  <2>2. 1 \in 1..Len(kids)
    BY <2>1 DEF IInv, Sequences
  <2>. QED  BY <2>1, <2>2 DEF IInv, Sequences
<1>2. Rows(block, kids[1], 0, Len(block))
  <2>1. End(1) = Len(block)
    BY <1>1 DEF End
  <2>. QED  BY <2>1 DEF IInv, TreeInv
<1>. QED  BY <1>1, <1>2 DEF Rows, Row

\* A directory among the entries of the root.
LEMMA DirectoryRead ==
  ASSUME IInv, ~IsOpen, NEW name, LookupIn(name, kids[1]).type = "directory"
  PROVE  LET dir == LookupIn(name, kids[1])
             f == FindIn(name, 0, Len(block))
             l == LoadIn(name, 0, Len(block))
         IN  /\ f.found = "directory" /\ f.lo \in Nat /\ f.hi \in Nat /\ f.hi <= Len(block)
             /\ IsSeq(dir.kids) /\ Row(block, dir.kids, f.lo, f.hi)
             /\ l.found = "directory" /\ AlignUp(BodyAt(l.at)) = f.lo
             /\ l.at + HeaderAt(l.at).size = f.hi
<1> DEFINE L == Len(block)  nodes == kids[1]
<1>1. L \in Nat /\ L <= Len(block) /\ 0 \in Nat /\ IsSeq(nodes) /\ Rows(block, nodes, 0, L)
  BY WholeDisk
<1>2. PICK pos :
        /\ Places(block, nodes, 0, L, pos)
        /\ \A i \in 1..Len(nodes) :
             nodes[i].type = "directory" =>
               /\ IsSeq(nodes[i].kids)
               /\ Row(block, nodes[i].kids, pos[i] + HeaderSize[nodes[i].name], pos[i + 1])
  BY <1>1 DEF Rows
<1>3. PICK i : IsFirst(nodes, name, i) /\ LookupIn(name, nodes) = nodes[i]
  <2>1. LookupIn(name, nodes) # [type |-> "missing"]
    OBVIOUS
  <2>. QED  BY <1>1, <2>1, LookupIs
<1>4. i \in 1..Len(nodes) /\ nodes[i].type = "directory"
  BY <1>3 DEF IsFirst
<1>. HIDE DEF L, nodes
<1>5. /\ FindIn(name, 0, L) = [found |-> nodes[i].type, lo |-> BodyAt(pos[i]), hi |-> pos[i + 1],
                               end |-> pos[i] + HeaderAt(pos[i]).size]
      /\ LoadIn(name, 0, L) = [found |-> nodes[i].type, at |-> pos[i]]
  BY <1>1, <1>2, <1>3, FindFirst, LoadFirst
<1>6. /\ pos[i + 1] \in Nat /\ pos[i + 1] <= L
      /\ BodyAt(pos[i]) = pos[i] + HeaderSize[nodes[i].name]
      /\ BodyAt(pos[i]) \in Nat /\ BodyAt(pos[i]) % Align = 0
      /\ pos[i] + HeaderAt(pos[i]).size = pos[i + 1]
  BY <1>1, <1>2, <1>4, EntryRead
<1>7. IsSeq(nodes[i].kids) /\ Row(block, nodes[i].kids, BodyAt(pos[i]), pos[i + 1])
  BY <1>2, <1>4, <1>6
<1>8. AlignUp(BodyAt(pos[i])) = BodyAt(pos[i])
  BY <1>6, Aligned
<1>. QED  BY <1>1, <1>3, <1>4, <1>5, <1>6, <1>7, <1>8 DEF L, nodes

LEMMA PathIs ==
  ASSUME NEW path \in Paths
  PROVE  Len(path) = 1 \/ Len(path) = 2
BY DEF Paths

\* archive_view::find gives, for every path, what the calls that made the ram
\* disk put there, byte for byte.
THEOREM FindIsRight == Spec => []FindsWhatWasWritten
<1>1. IInv => FindsWhatWasWritten
  <2> SUFFICES ASSUME IInv, ~IsOpen, NEW path \in Paths
               PROVE  /\ Lookup(path).type \in {"missing", "directory"} =>
                           Find(path) = [found |-> Lookup(path).type]
                      /\ Lookup(path).type = "file" =>
                           Find(path) = [found |-> "file", data |-> Lookup(path).data]
    BY DEF FindsWhatWasWritten
  <2> DEFINE first == LookupIn(path[1], kids[1])
             f == FindIn(path[1], 0, Len(block))
  <2>1. Reads(first, FoundData(f))
    <3>1. 0 \in Nat /\ Len(block) <= Len(block)
      BY WholeDisk
    <3>. QED  BY <3>1, WholeDisk, FindReads
  <2>2. CASE Len(path) = 1
    <3>1. Lookup(path) = first
      BY <2>2 DEF Lookup
    <3>2. Find(path) = FoundData(f)
      BY <2>2 DEF Find
    <3>. HIDE DEF first, f
    <3>. QED  BY <2>1, <3>1, <3>2 DEF Reads
  <2>3. CASE Len(path) = 2 /\ first.type = "directory"
    <3>1. /\ f.found = "directory" /\ f.lo \in Nat /\ f.hi \in Nat /\ f.hi <= Len(block)
          /\ IsSeq(first.kids) /\ Row(block, first.kids, f.lo, f.hi)
      BY <2>3, DirectoryRead
    <3>2. Lookup(path) = LookupIn(path[2], first.kids)
      BY <2>3 DEF Lookup
    <3>3. Find(path) = FoundData(FindIn(path[2], f.lo, f.hi))
      BY <2>3, <3>1 DEF Find
    <3>. HIDE DEF first, f
    <3>4. Reads(LookupIn(path[2], first.kids), FoundData(FindIn(path[2], f.lo, f.hi)))
      BY <3>1, FindReads
    <3>. QED  BY <3>2, <3>3, <3>4 DEF Reads
  <2>4. CASE Len(path) = 2 /\ first.type = "missing"
    <3>1. Lookup(path).type = "missing"
      BY <2>4 DEF Lookup
    <3>2. FoundData(f) = [found |-> "missing"]
      <4>. HIDE DEF first, f
      <4>. QED  BY <2>1, <2>4 DEF Reads
    <3>3. f.found = "missing"
      <4>. HIDE DEF f
      <4>1. f.found = FoundData(f).found
        BY DEF FoundData
      <4>. QED  BY <3>2, <4>1
    <3>4. Find(path) = FoundData(f)
      BY <2>4, <3>3 DEF Find
    <3>. HIDE DEF first, f
    <3>. QED  BY <3>1, <3>2, <3>4
  <2>5. CASE Len(path) = 2 /\ first.type = "file"
    <3>1. Lookup(path).type = "not a directory"
      BY <2>5 DEF Lookup
    <3>. QED  BY <3>1
  <2>6. first.type \in {"missing", "file", "directory"}
    BY <2>1 DEF Reads
  <2>. QED  BY <2>2, <2>3, <2>4, <2>5, <2>6, PathIs
<1>. QED  BY Invariance, <1>1, PTL

\* archive::load, which does not know where the ram disk ends, gives the same
\* for every file there is.
THEOREM LoadIsRight == Spec => []LoadsWhatWasWritten
<1>1. IInv => LoadsWhatWasWritten
  <2> SUFFICES ASSUME IInv, ~IsOpen, NEW path \in Paths, Lookup(path).type = "file"
               PROVE  Load(path) = [found |-> "file", data |-> Lookup(path).data]
    BY DEF LoadsWhatWasWritten
  <2> DEFINE first == LookupIn(path[1], kids[1])
             l == LoadIn(path[1], 0, Len(block))
             f == FindIn(path[1], 0, Len(block))
  <2>1. CASE Len(path) = 1
    <3>1. Lookup(path) = first
      BY <2>1 DEF Lookup
    <3>2. Load(path) = LoadedData(l)
      BY <2>1 DEF Load
    <3>3. first.type = "file" => LoadedData(l) = [found |-> "file", data |-> first.data]
      <4>1. 0 \in Nat /\ Len(block) <= Len(block)
        BY WholeDisk
      <4>. QED  BY <4>1, WholeDisk, LoadReads
    <3>. HIDE DEF first, l
    <3>. QED  BY <3>1, <3>2, <3>3
  <2>2. CASE Len(path) = 2
    <3>1. first.type = "directory" /\ Lookup(path) = LookupIn(path[2], first.kids)
      <4>1. Len(path) # 1
        BY <2>2
      <4>2. CASE first.type = "directory"
        BY <4>1, <4>2 DEF Lookup
      <4>3. CASE first.type # "directory"
        <5>1. CASE first.type = "file"
          <6>1. Lookup(path).type = "not a directory"
            BY <4>1, <5>1 DEF Lookup
          <6>. QED  BY <6>1
        <5>2. CASE first.type # "file"
          <6>1. Lookup(path).type = "missing"
            BY <4>1, <4>3, <5>2 DEF Lookup
          <6>. QED  BY <6>1
        <5>. QED  BY <5>1, <5>2
      <4>. QED  BY <4>2, <4>3
    <3>2. /\ f.lo \in Nat /\ f.hi \in Nat /\ f.hi <= Len(block)
          /\ IsSeq(first.kids) /\ Row(block, first.kids, f.lo, f.hi)
          /\ l.found = "directory" /\ AlignUp(BodyAt(l.at)) = f.lo
          /\ l.at + HeaderAt(l.at).size = f.hi
      BY <3>1, DirectoryRead
    <3>3. Load(path) = LoadedData(LoadIn(path[2], f.lo, f.hi))
      BY <2>2, <3>2 DEF Load
    <3>. HIDE DEF first, l, f
    <3>4. LoadedData(LoadIn(path[2], f.lo, f.hi))
            = [found |-> "file", data |-> LookupIn(path[2], first.kids).data]
      BY <3>1, <3>2, LoadReads
    <3>. QED  BY <3>1, <3>3, <3>4
  <2>. QED  BY <2>1, <2>2, PathIs
<1>. QED  BY Invariance, <1>1, PTL
=============================================================================
