-------------------------- MODULE SerialLinkProofs --------------------------
(***************************************************************************)
(* What is encoded is decoded, whatever the bytes and the largest group;   *)
(* and every packet that no fault was done to arrives, for every set of    *)
(* packets, every limit of their size, every line and any number of        *)
(* faults that LinkAssumption admits.                                      *)
(*                                                                         *)
(* The inductive invariant is LinkInv: the bytes that recv has and those   *)
(* on the line are one stream, in which the frames of packets that nothing *)
(* was done to are still whole, each behind a mark.                        *)
(***************************************************************************)
EXTENDS SerialLink, SequenceTheorems, WellFoundedInduction, TLAPS

-----------------------------------------------------------------------------
(* Recursion over the places of a sequence.                                *)

LEMMA LeastNat ==
  ASSUME NEW T, T \subseteq Nat, T # {}
  PROVE  \E n \in T : \A m \in T : n <= m
<1> DEFINE below == {p \in Nat \X Nat : p[1] < p[2]}
<1>1. IsWellFoundedOn(below, Nat)
  BY NatLessThanWellFounded DEF OpToRel
<1>2. \A i, j \in Nat : j < i => <<j, i>> \in below
  OBVIOUS
<1> HIDE DEF below
<1>3. PICK i \in T : \A j \in T : ~(<<j, i>> \in below)
  BY <1>1, WFMin, Zenon
<1>4. ASSUME NEW j \in T PROVE i <= j
  <2>1. i \in Nat /\ j \in Nat /\ ~(<<j, i>> \in below)
    BY <1>3
  <2>2. ~(j < i)
    BY <1>2, <2>1
  <2> QED BY <2>1, <2>2
<1> QED BY <1>4

\* A set that has the first place, and each with the one before it, has all.
LEMMA Upward ==
  ASSUME NEW P, NEW n \in Nat, 0 \in P, \A i \in 1..n : i - 1 \in P => i \in P
  PROVE  \A i \in 0..n : i \in P
<1> DEFINE T == {i \in 0..n : i \notin P}
<1>1. SUFFICES ASSUME T # {} PROVE FALSE
  OBVIOUS
<1>2. T \subseteq Nat
  OBVIOUS
<1>3. PICK k \in T : \A m \in T : k <= m
  <2> HIDE DEF T
  <2> QED BY <1>1, <1>2, LeastNat
<1>4. k \in 1..n /\ k \notin P
  BY <1>3
<1>5. k - 1 \in 0..n /\ ~(k <= k - 1)
  BY <1>4
<1>6. k - 1 \in P
  BY <1>3, <1>5
<1> QED BY <1>4, <1>6

\* The same from the last place down.
LEMMA Downward ==
  ASSUME NEW P, NEW n \in Nat, n \in P, \A i \in 1..n : i \in P => i - 1 \in P
  PROVE  \A i \in 0..n : i \in P
<1> DEFINE Q == {i \in 0..n : n - i \in P}
<1>1. 0 \in Q
  OBVIOUS
<1>2. ASSUME NEW i \in 1..n, i - 1 \in Q PROVE i \in Q
  <2>1. n - (i - 1) \in P /\ n - (i - 1) \in 1..n /\ (n - (i - 1)) - 1 = n - i
    BY <1>2
  <2>2. (n - (i - 1)) - 1 \in P
    BY <2>1
  <2> QED BY <2>1, <2>2
<1>3. \A i \in 0..n : i \in Q
  <2> HIDE DEF Q
  <2> QED BY <1>1, <1>2, Upward
<1>4. ASSUME NEW i \in 0..n PROVE i \in P
  <2>1. n - i \in 0..n /\ n - (n - i) = i
    OBVIOUS
  <2>2. n - i \in Q
    BY <1>3, <2>1
  <2> QED BY <2>1, <2>2
<1> QED BY <1>4

Unfolds(f, n, X, first, Step) ==
  /\ f \in [0..n -> X]
  /\ f[0] = first /\ \A i \in 1..n : f[i] = Step[<<f[i - 1], i>>]

\* What a recursion from the first place up defines is a function.
LEMMA UpwardFunction ==
  ASSUME NEW n \in Nat, NEW X, NEW first \in X, NEW Step \in [X \X (1..n) -> X]
  PROVE  \E f : Unfolds(f, n, X, first, Step)
<1> DEFINE Right(f, k) == f[0] = first /\ \A i \in 1..n : i <= k => f[i] = Step[<<f[i - 1], i>>]
           P == {k \in 0..n : \E f \in [0..n -> X] : Right(f, k)}
<1>1. 0 \in P
  <2> DEFINE f == [i \in 0..n |-> first]
  <2>1. f \in [0..n -> X] /\ f[0] = first
    OBVIOUS
  <2> HIDE DEF f
  <2>2. Right(f, 0)
    BY <2>1
  <2> QED BY <2>1, <2>2
<1>2. ASSUME NEW k \in 1..n, k - 1 \in P PROVE k \in P
  <2>1. PICK f \in [0..n -> X] : Right(f, k - 1)
    BY <1>2
  <2> DEFINE g == [f EXCEPT ![k] = Step[<<f[k - 1], k>>]]
  <2>2. k - 1 \in 0..n /\ k \in 0..n /\ 0 \in 0..n /\ k # 0 /\ f[k - 1] \in X
    OBVIOUS
  <2>3. Step[<<f[k - 1], k>>] \in X
    BY <2>2
  <2>4. g \in [0..n -> X] /\ g[k] = Step[<<f[k - 1], k>>] /\ \A i \in 0..n : i # k => g[i] = f[i]
    BY <2>2, <2>3
  <2> HIDE DEF g
  <2>5. g[0] = first
    BY <2>1, <2>2, <2>4
  <2>6. ASSUME NEW i \in 1..n, i <= k PROVE g[i] = Step[<<g[i - 1], i>>]
    <3>1. i - 1 \in 0..n /\ i \in 0..n /\ i - 1 # k
      BY <2>6
    <3>2. g[i - 1] = f[i - 1]
      BY <2>4, <3>1
    <3>3. CASE i = k
      BY <2>4, <3>2, <3>3
    <3>4. CASE i # k
      <4>1. i <= k - 1 /\ g[i] = f[i]
        BY <2>4, <2>6, <3>1, <3>4
      <4>2. f[i] = Step[<<f[i - 1], i>>]
        BY <2>1, <4>1
      <4> QED BY <3>2, <4>1, <4>2
    <3> QED BY <3>3, <3>4
  <2>7. Right(g, k)
    BY <2>5, <2>6
  <2> HIDE DEF Right
  <2> QED BY <2>2, <2>4, <2>7
<1>3. \A k \in 0..n : k \in P
  <2> HIDE DEF P
  <2> QED BY <1>1, <1>2, Upward
<1>4. n \in P
  <2> HIDE DEF P
  <2> QED BY <1>3
<1>5. PICK f \in [0..n -> X] : Right(f, n)
  BY <1>4
<1> QED BY <1>5 DEF Unfolds

-----------------------------------------------------------------------------
(* Writing.                                                                *)

\* The bytes that a packet is made of between marks.
Marked == Nat \ {COBS_MARK}

States == {s \in [buffer : Seq(Marked), ahead : Seq(Marked)] : Len(s.ahead) < MaxCode - 1}
Nothing == [buffer |-> <<>>, ahead |-> <<>>]

\* The state after each byte.
After(bytes) ==
  CHOOSE f : f = [i \in 0..Len(bytes) |-> IF i = 0 THEN Nothing ELSE Write(f[i - 1], bytes[i])]

LEMMA EncodedIs == ASSUME NEW bytes PROVE Encoded(bytes) = Done(After(bytes)[Len(bytes)])
BY DEF Encoded, After, Nothing

LEMMA CodeIs ==
  ASSUME NEW n \in Nat, n < MaxCode
  PROVE  n + 1 \in Marked /\ MaxCode \in Marked /\ MaxCode \in Nat
BY CobsAssumption DEF Marked, COBS_MARK

Joins(j, s, t) ==
  /\ Len(j) = Len(s) + Len(t)
  /\ \A i \in 1..Len(s) : j[i] = s[i]
  /\ \A i \in 1..Len(t) : j[Len(s) + i] = t[i]

LEMMA Shifted ==
  ASSUME NEW j, NEW s, NEW t, NEW m \in Nat, NEW n \in Nat,
         \A i \in 1..m + n : j[i] = IF i <= m THEN s[i] ELSE t[i - m]
  PROVE  /\ \A i \in 1..m : j[i] = s[i]
         /\ \A i \in 1..n : j[m + i] = t[i]
<1>1. \A i \in 1..m : i \in 1..m + n /\ i <= m
  OBVIOUS
<1>2. \A i \in 1..n : m + i \in 1..m + n /\ ~(m + i <= m) /\ (m + i) - m = i
  OBVIOUS
<1> QED BY <1>1, <1>2

LEMMA JoinIs ==
  ASSUME NEW U, NEW s \in Seq(U), NEW t \in Seq(U)
  PROVE  s \o t \in Seq(U) /\ Len(s) \in Nat /\ Len(t) \in Nat /\ Joins(s \o t, s, t)
<1>1. /\ s \o t \in Seq(U) /\ Len(s \o t) = Len(s) + Len(t)
      /\ \A i \in 1..Len(s) + Len(t) : (s \o t)[i] = IF i <= Len(s) THEN s[i] ELSE t[i - Len(s)]
  BY ConcatProperties
<1>2. Len(s) \in Nat /\ Len(t) \in Nat
  BY LenProperties
<1>3. PICK j : j = s \o t
  OBVIOUS
<1>4. PICK m, n : m = Len(s) /\ n = Len(t)
  OBVIOUS
<1>5. \A i \in 1..m + n : j[i] = IF i <= m THEN s[i] ELSE t[i - m]
  BY <1>1, <1>3, <1>4
<1>6. m \in Nat /\ n \in Nat
  BY <1>2, <1>4
<1>7. /\ \A i \in 1..m : j[i] = s[i]
      /\ \A i \in 1..n : j[m + i] = t[i]
  BY <1>5, <1>6, Shifted
<1>8. Len(j) = Len(s) + Len(t)
  BY <1>1, <1>3
<1>9. Joins(j, s, t)
  BY <1>4, <1>7, <1>8 DEF Joins
<1> QED BY <1>1, <1>2, <1>3, <1>9

\* A group with its code, behind what was there.
Grouped(g, b, code, a) ==
  /\ Len(g) = Len(b) + 1 + Len(a)
  /\ \A j \in 1..Len(b) : g[j] = b[j]
  /\ g[Len(b) + 1] = code
  /\ \A j \in 1..Len(a) : g[Len(b) + 1 + j] = a[j]

LEMMA FlushedIs ==
  ASSUME NEW b \in Seq(Marked), NEW a \in Seq(Marked), NEW code \in Marked, NEW g,
         g = Flushed([buffer |-> b, ahead |-> a], code)
  PROVE  /\ g \in [buffer : Seq(Marked), ahead : Seq(Marked)] /\ g.ahead = <<>>
         /\ g.buffer \in Seq(Marked) /\ Grouped(g.buffer, b, code, a)
<1> DEFINE c == <<code>>
<1>1. c \in Seq(Marked) /\ Len(c) = 1 /\ c[1] = code
  OBVIOUS
<1>2. g = [buffer |-> (b \o c) \o a, ahead |-> <<>>]
  BY DEF Flushed
<1> HIDE DEF c
<1>3. PICK bc : bc = b \o c
  OBVIOUS
<1>4. PICK bca : bca = bc \o a
  OBVIOUS
<1>5. bc \in Seq(Marked) /\ Joins(bc, b, c) /\ Len(b) \in Nat
  BY <1>1, <1>3, JoinIs
<1>6. Len(bc) = Len(b) + 1 /\ bc[Len(b) + 1] = code /\ \A j \in 1..Len(b) : bc[j] = b[j]
  BY <1>1, <1>5 DEF Joins
<1>7. bca \in Seq(Marked) /\ Joins(bca, bc, a) /\ Len(a) \in Nat
  BY <1>4, <1>5, JoinIs
<1>15. /\ Len(bca) = Len(bc) + Len(a)
       /\ \A j \in 1..Len(bc) : bca[j] = bc[j]
       /\ \A j \in 1..Len(a) : bca[Len(bc) + j] = a[j]
  BY <1>7 DEF Joins
<1>8. Len(bca) = Len(b) + 1 + Len(a)
  BY <1>5, <1>6, <1>7, <1>15
<1>9. \A j \in 1..Len(b) : bca[j] = b[j]
  BY <1>5, <1>6, <1>7, <1>15
<1>10. bca[Len(b) + 1] = code
  BY <1>5, <1>6, <1>7, <1>15
<1>11. \A j \in 1..Len(a) : bca[Len(b) + 1 + j] = a[j]
  BY <1>5, <1>6, <1>7, <1>15
<1>12. g = [buffer |-> bca, ahead |-> <<>>]
  BY <1>2, <1>3, <1>4
<1>13. g.buffer = bca /\ g.ahead = <<>>
  BY <1>12
<1>14. g \in [buffer : Seq(Marked), ahead : Seq(Marked)]
  <2>1. bca \in Seq(Marked) /\ <<>> \in Seq(Marked)
    BY <1>7, EmptySeq
  <2>2. PICK e : e = <<>>
    OBVIOUS
  <2>3. [buffer |-> bca, ahead |-> e] \in [buffer : Seq(Marked), ahead : Seq(Marked)]
    BY <2>1, <2>2
  <2> QED BY <1>12, <2>2, <2>3
<1>16. Grouped(bca, b, code, a)
  BY <1>8, <1>9, <1>10, <1>11 DEF Grouped
<1> QED BY <1>7, <1>13, <1>14, <1>16

\* The state that a group just written leaves.
LEMMA FlushedState ==
  ASSUME NEW s \in [buffer : Seq(Marked), ahead : Seq(Marked)], NEW code \in Marked
  PROVE  Flushed(s, code) \in States
<1>1. PICK g : g = Flushed([buffer |-> s.buffer, ahead |-> s.ahead], code)
  OBVIOUS
<1>2. s.buffer \in Seq(Marked) /\ s.ahead \in Seq(Marked)
  OBVIOUS
<1>3. g \in [buffer : Seq(Marked), ahead : Seq(Marked)] /\ g.ahead = <<>>
  BY <1>1, <1>2, FlushedIs
<1>4. g = Flushed(s, code)
  BY <1>1 DEF Flushed
<1>5. Len(g.ahead) = 0 /\ 0 < MaxCode - 1
  BY <1>3, EmptySeq, CobsAssumption
<1> QED BY <1>3, <1>4, <1>5 DEF States

\* What a byte written makes of the state: it ends a group if it is zero or fills
\* one, and waits otherwise.
LEMMA WriteIs ==
  ASSUME NEW s \in States, NEW value \in Nat
  PROVE  /\ Write(s, value) \in States
         /\ \/ value = COBS_MARK /\ Write(s, value) = Flushed(s, Len(s.ahead) + 1)
            \/ /\ value # COBS_MARK /\ Len(s.ahead) + 1 = MaxCode - 1
               /\ Write(s, value) = Flushed([s EXCEPT !.ahead = Append(@, value)], MaxCode)
            \/ /\ value # COBS_MARK /\ Len(s.ahead) + 1 < MaxCode - 1
               /\ Write(s, value) = [s EXCEPT !.ahead = Append(@, value)]
<1> DEFINE t == [s EXCEPT !.ahead = Append(@, value)]
<1>1. /\ s \in [buffer : Seq(Marked), ahead : Seq(Marked)] /\ Len(s.ahead) \in Nat
      /\ Len(s.ahead) < MaxCode - 1 /\ MaxCode \in Nat \ {0, 1}
  BY CobsAssumption, LenProperties DEF States
<1>2. CASE value = COBS_MARK
  <2>1. Write(s, value) = Flushed(s, Len(s.ahead) + 1)
    BY <1>2 DEF Write
  <2>2. Len(s.ahead) + 1 \in Marked
    BY <1>1, CodeIs
  <2>3. Flushed(s, Len(s.ahead) + 1) \in States
    BY <1>1, <2>2, FlushedState
  <2> QED BY <1>2, <2>1, <2>3
<1>3. CASE value # COBS_MARK
  <2>1. value \in Marked
    BY <1>3 DEF Marked
  <2>2. /\ t.ahead = Append(s.ahead, value) /\ t.buffer = s.buffer
        /\ t \in [buffer : Seq(Marked), ahead : Seq(Marked)] /\ Len(t.ahead) = Len(s.ahead) + 1
    <3>1. Append(s.ahead, value) \in Seq(Marked) /\ Len(Append(s.ahead, value)) = Len(s.ahead) + 1
      BY <1>1, <2>1, AppendProperties
    <3> QED BY <1>1, <3>1
  <2>3. Write(s, value) = IF Len(t.ahead) = MaxCode - 1 THEN Flushed(t, MaxCode) ELSE t
    BY <1>3 DEF Write
  <2> HIDE DEF t
  <2>4. CASE Len(t.ahead) = MaxCode - 1
    <3>1. MaxCode \in Marked
      BY <1>1 DEF Marked, COBS_MARK
    <3>2. Flushed(t, MaxCode) \in States
      BY <2>2, <3>1, FlushedState
    <3>3. Len(s.ahead) + 1 = MaxCode - 1 /\ Write(s, value) = Flushed(t, MaxCode)
      BY <2>2, <2>3, <2>4
    <3> QED BY <1>3, <3>2, <3>3 DEF t
  <2>5. CASE Len(t.ahead) # MaxCode - 1
    <3>1. Len(s.ahead) + 1 < MaxCode - 1
      BY <1>1, <2>2, <2>5
    <3>2. Write(s, value) = t /\ t \in States
      BY <1>1, <2>2, <2>3, <2>5, <3>1 DEF States
    <3> QED BY <1>3, <3>1, <3>2 DEF t
  <2> QED BY <2>4, <2>5
<1> QED BY <1>2, <1>3

LEMMA AfterIs ==
  ASSUME NEW bytes \in Seq(Nat)
  PROVE  /\ After(bytes)[0] = Nothing
         /\ \A i \in 1..Len(bytes) : After(bytes)[i] = Write(After(bytes)[i - 1], bytes[i])
         /\ \A i \in 0..Len(bytes) : After(bytes)[i] \in States
<1> DEFINE n == Len(bytes)
           Step == [x \in States \X (1..n) |-> Write(x[1], bytes[x[2]])]
<1>1. n \in Nat /\ \A i \in 1..n : bytes[i] \in Nat
  BY LenProperties, ElementOfSeq
<1>2. Nothing \in States
  BY CobsAssumption, EmptySeq DEF Nothing, States
<1>3. Step \in [States \X (1..n) -> States]
  BY <1>1, WriteIs
<1>4. \A s \in States, i \in 1..n : Step[<<s, i>>] = Write(s, bytes[i])
  OBVIOUS
<1> HIDE DEF Step
<1>5. PICK f \in [0..n -> States] : f[0] = Nothing /\ \A i \in 1..n : f[i] = Step[<<f[i - 1], i>>]
  <2>1. PICK m, step : m = n /\ step = Step
    OBVIOUS
  <2>2. m \in Nat /\ step \in [States \X (1..m) -> States]
    BY <1>1, <1>3, <2>1
  <2>3. \E f : Unfolds(f, m, States, Nothing, step)
    BY <1>2, <2>2, UpwardFunction
  <2> QED BY <2>1, <2>3 DEF Unfolds
<1>6. f = [i \in 0..n |-> IF i = 0 THEN Nothing ELSE Write(f[i - 1], bytes[i])]
  <2>1. ASSUME NEW i \in 0..n
        PROVE  f[i] = IF i = 0 THEN Nothing ELSE Write(f[i - 1], bytes[i])
    <3>1. CASE i = 0
      BY <1>5, <3>1
    <3>2. CASE i # 0
      <4>1. i \in 1..n /\ i - 1 \in 0..n
        BY <3>2, <1>1
      <4>2. f[i - 1] \in States /\ f[i] = Step[<<f[i - 1], i>>]
        BY <1>5, <4>1
      <4> QED BY <1>4, <3>2, <4>1, <4>2
    <3> QED BY <3>1, <3>2
  <2> QED BY <1>5, <2>1
<1> DEFINE h == After(bytes)
<1>7. h = [i \in 0..n |-> IF i = 0 THEN Nothing ELSE Write(h[i - 1], bytes[i])]
  BY <1>6 DEF After
<1> HIDE DEF h, n
<1>8. h[0] = Nothing /\ \A i \in 1..n : h[i] = Write(h[i - 1], bytes[i])
  <2>1. 0 \in 0..n /\ \A i \in 1..n : i \in 0..n /\ i # 0
    BY <1>1
  <2>2. \A i \in 0..n : h[i] = IF i = 0 THEN Nothing ELSE Write(h[i - 1], bytes[i])
    BY <1>7
  <2> QED BY <2>1, <2>2
<1>9. \A i \in 0..n : h[i] \in States
  <2> DEFINE P == {i \in 0..n : h[i] \in States}
  <2>1. 0 \in P
    BY <1>1, <1>2, <1>8
  <2>2. ASSUME NEW i \in 1..n, i - 1 \in P PROVE i \in P
    <3>1. h[i - 1] \in States /\ bytes[i] \in Nat /\ h[i] = Write(h[i - 1], bytes[i])
      BY <1>1, <1>8, <2>2
    <3>2. h[i] \in States
      BY <3>1, WriteIs
    <3> QED BY <1>1, <3>2
  <2>3. \A i \in 0..n : i \in P
    <3> HIDE DEF P
    <3> QED BY <1>1, <2>1, <2>2, Upward
  <2> QED BY <2>3
<1> QED BY <1>8, <1>9 DEF h, n

-----------------------------------------------------------------------------
(* Reading.                                                                *)

\* What reading gives from a place on, f being what it gives behind it.
GroupFrom(f, bytes, i) ==
  IF i > Len(bytes) THEN [ok |-> TRUE, bytes |-> <<>>]
  ELSE LET next == i + bytes[i]
           zero == IF bytes[i] < MaxCode /\ next <= Len(bytes) THEN <<COBS_MARK>> ELSE <<>>
           rest == f[next]
       IN  IF next > Len(bytes) + 1 THEN Undecodable
           ELSE IF ~rest.ok THEN Undecodable
           ELSE [ok |-> TRUE, bytes |-> SubSeq(bytes, i + 1, next - 1) \o zero \o rest.bytes]

From(bytes) == CHOOSE f : f = [i \in 1..(Len(bytes) + 1) |-> GroupFrom(f, bytes, i)]

LEMMA DecodedIs == ASSUME NEW bytes PROVE Decoded(bytes) = From(bytes)[1]
BY DEF Decoded, From, GroupFrom

\* A code leads on, so that the recursion ends.
LEMMA FromIs ==
  ASSUME NEW bytes \in Seq(Marked)
  PROVE  \A i \in 1..(Len(bytes) + 1) : From(bytes)[i] = GroupFrom(From(bytes), bytes, i)
<1>1. PICK n : n = Len(bytes) + 1
  OBVIOUS
<1>2. n \in Nat /\ Len(bytes) = n - 1 /\ n >= 1
  BY <1>1, LenProperties
<1>3. \A i \in 1..n : i <= Len(bytes) => bytes[i] \in Nat /\ bytes[i] >= 1
  BY <1>2, ElementOfSeq DEF Marked, COBS_MARK
<1>4. ASSUME NEW f, NEW g, NEW i \in 1..n, \A j \in 1..n : j > i => f[j] = g[j]
      PROVE  GroupFrom(f, bytes, i) = GroupFrom(g, bytes, i)
  <2>1. CASE i > Len(bytes)
    BY <2>1 DEF GroupFrom
  <2>2. CASE i <= Len(bytes)
    <3>1. PICK next : next = i + bytes[i]
      OBVIOUS
    <3>2. next \in Nat /\ next > i
      BY <1>3, <2>2, <3>1
    <3>3. CASE next > Len(bytes) + 1
      <4>1. GroupFrom(f, bytes, i) = Undecodable /\ GroupFrom(g, bytes, i) = Undecodable
        BY <1>2, <2>2, <3>1, <3>3 DEF GroupFrom
      <4> QED BY <4>1
    <3>4. CASE ~(next > Len(bytes) + 1)
      <4>1. next \in 1..n
        BY <1>2, <3>2, <3>4
      <4>2. f[next] = g[next]
        BY <1>4, <3>2, <4>1
      <4> QED BY <3>1, <4>2 DEF GroupFrom
    <3> QED BY <3>3, <3>4
  <2> QED BY <1>2, <2>1, <2>2
<1> DEFINE Right(f, k) == /\ f = [i \in 1..n |-> f[i]]
                          /\ \A i \in 1..n : i + k > n => f[i] = GroupFrom(f, bytes, i)
           P == {k \in 0..n : \E f : Right(f, k)}
<1>5. 0 \in P
  <2> DEFINE f == [i \in 1..n |-> 0]
  <2>1. f = [i \in 1..n |-> f[i]]
    OBVIOUS
  <2> HIDE DEF f
  <2>2. \A i \in 1..n : ~(i + 0 > n)
    BY <1>2
  <2>3. Right(f, 0)
    BY <2>1, <2>2
  <2> QED BY <1>2, <2>3
<1>6. ASSUME NEW k \in 1..n, k - 1 \in P PROVE k \in P
  <2>1. PICK f : Right(f, k - 1)
    BY <1>6
  <2>2. PICK at : at = n + 1 - k
    OBVIOUS
  <2>3. at \in 1..n /\ k \in 0..n
    BY <1>2, <2>2
  <2> DEFINE g == [i \in 1..n |-> IF i = at THEN GroupFrom(f, bytes, at) ELSE f[i]]
  <2>4. /\ g = [i \in 1..n |-> g[i]] /\ g[at] = GroupFrom(f, bytes, at)
        /\ \A i \in 1..n : i # at => g[i] = f[i]
    BY <2>3
  <2> HIDE DEF g
  <2>5. ASSUME NEW i \in 1..n, i + k > n PROVE g[i] = GroupFrom(g, bytes, i)
    <3>1. i >= at
      BY <1>2, <2>2, <2>5
    <3>2. \A j \in 1..n : j > i => f[j] = g[j]
      BY <2>3, <2>4, <3>1
    <3>3. GroupFrom(f, bytes, i) = GroupFrom(g, bytes, i)
      BY <1>4, <3>2
    <3>4. CASE i = at
      BY <2>4, <3>3, <3>4
    <3>5. CASE i # at
      <4>1. i + (k - 1) > n /\ g[i] = f[i]
        BY <1>2, <2>2, <2>4, <3>1, <3>5
      <4>2. f[i] = GroupFrom(f, bytes, i)
        BY <2>1, <4>1
      <4> QED BY <3>3, <4>1, <4>2
    <3> QED BY <3>4, <3>5
  <2>6. Right(g, k)
    BY <2>4, <2>5
  <2> HIDE DEF Right
  <2> QED BY <2>3, <2>6
<1>7. n \in P
  <2> HIDE DEF P
  <2>1. \A k \in 0..n : k \in P
    BY <1>2, <1>5, <1>6, Upward
  <2> QED BY <1>2, <2>1
<1>8. PICK f : Right(f, n)
  BY <1>7
<1>9. \A i \in 1..n : f[i] = GroupFrom(f, bytes, i)
  <2>1. \A i \in 1..n : i + n > n
    BY <1>2
  <2> QED BY <1>8, <2>1
<1>10. f = [i \in 1..n |-> GroupFrom(f, bytes, i)]
  <2>1. [i \in 1..n |-> f[i]] = [i \in 1..n |-> GroupFrom(f, bytes, i)]
    BY <1>9
  <2> QED BY <1>8, <2>1
<1>11. PICK h : h = From(bytes)
  OBVIOUS
<1>12. h = [i \in 1..n |-> GroupFrom(h, bytes, i)]
  <2>1. \E g : g = [i \in 1..n |-> GroupFrom(g, bytes, i)]
    BY <1>10
  <2>2. From(bytes) = [i \in 1..n |-> GroupFrom(From(bytes), bytes, i)]
    BY <1>1, <2>1 DEF From
  <2> QED BY <1>11, <2>2
<1>13. \A i \in 1..n : h[i] = GroupFrom(h, bytes, i)
  BY <1>12
<1> QED BY <1>1, <1>11, <1>13

\* A whole group, as it is read.
GroupAt(e, p, a) ==
  /\ p \in 1..Len(e) /\ e[p] = Len(a) + 1 /\ p + Len(a) <= Len(e)
  /\ \A j \in 1..Len(a) : e[p + j] = a[j]

\* What is read from a place on.
Gives(e, p, bytes) == From(e)[p] = [ok |-> TRUE, bytes |-> bytes]

LEMMA GroupIs ==
  ASSUME NEW e \in Seq(Marked), NEW p, NEW a \in Seq(Marked), GroupAt(e, p, a),
         NEW next, next = p + e[p],
         NEW zero, zero = IF e[p] < MaxCode /\ next <= Len(e) THEN <<COBS_MARK>> ELSE <<>>,
         NEW rest, Gives(e, next, rest)
  PROVE  Gives(e, p, a \o zero \o rest)
<1>9. /\ p \in 1..Len(e) /\ e[p] = Len(a) + 1 /\ p + Len(a) <= Len(e)
      /\ \A j \in 1..Len(a) : e[p + j] = a[j]
  BY DEF GroupAt
<1>1. /\ Len(e) \in Nat /\ Len(a) \in Nat /\ p \in 1..(Len(e) + 1) /\ ~(p > Len(e))
      /\ ~(p + e[p] > Len(e) + 1) /\ (p + e[p]) - 1 = p + Len(a)
  <2>1. Len(e) \in Nat /\ Len(a) \in Nat
    BY LenProperties
  <2>2. PICK l, m, c : l = Len(e) /\ m = Len(a) /\ c = e[p]
    OBVIOUS
  <2>3. l \in Nat /\ m \in Nat /\ c = m + 1 /\ p \in 1..l /\ p + m <= l
    BY <1>9, <2>1, <2>2
  <2>5. p \in Nat /\ p >= 1 /\ p <= l
    BY <2>3
  <2>4. p \in 1..(l + 1) /\ ~(p > l) /\ ~(p + c > l + 1) /\ (p + c) - 1 = p + m
    <3>1. p \in 1..(l + 1) /\ ~(p > l)
      BY <2>3, <2>5
    <3>2. ~(p + c > l + 1) /\ (p + c) - 1 = p + m
      BY <2>3, <2>5
    <3> QED BY <3>1, <3>2
  <2> QED BY <2>1, <2>2, <2>4
<1>2. SubSeq(e, p + 1, p + Len(a)) = a
  <2>1. PICK s, m : s = SubSeq(e, p + 1, p + m) /\ m = Len(a)
    OBVIOUS
  <2>2. m \in Nat /\ p \in Nat /\ \A i \in (p + 1)..(p + m) : e[i] \in Marked
    <3>1. m \in Nat /\ p \in Nat
      BY <1>1, <2>1
    <3>2. ASSUME NEW i \in (p + 1)..(p + m) PROVE i \in 1..Len(e)
      BY <1>1, <1>9, <2>1, <3>1, <3>2
    <3> QED BY <3>1, <3>2, ElementOfSeq
  <2>3. /\ p + 1 \in Int /\ p + m \in Int /\ (p + m) - (p + 1) + 1 = m
        /\ (IF p + 1 <= p + m THEN (p + m) - (p + 1) + 1 ELSE 0) = m
        /\ \A i \in 1..m : (p + 1) + i - 1 = p + i
    BY <2>2
  <2>4. /\ s \in Seq(Marked)
        /\ Len(s) = IF p + 1 <= p + m THEN (p + m) - (p + 1) + 1 ELSE 0
        /\ \A i \in 1..(p + m) - (p + 1) + 1 : s[i] = e[(p + 1) + i - 1]
    BY <2>1, <2>2, <2>3, SubSeqProperties
  <2>5. Len(s) = m /\ \A i \in 1..m : s[i] = e[p + i]
    BY <2>3, <2>4
  <2>6. \A i \in 1..Len(s) : s[i] = a[i]
    BY <1>9, <2>1, <2>5
  <2>7. s = a
    BY <2>1, <2>4, <2>5, <2>6, SeqEqual
  <2> QED BY <2>1, <2>7
<1>3. From(e)[p] = GroupFrom(From(e), e, p)
  BY <1>1, FromIs
<1>4. PICK r : r = From(e)[next]
  OBVIOUS
<1>5. r = [ok |-> TRUE, bytes |-> rest]
  BY <1>4 DEF Gives
<1>6. r.ok /\ r.bytes = rest
  BY <1>5
<1>7. GroupFrom(From(e), e, p)
        = [ok |-> TRUE, bytes |-> SubSeq(e, p + 1, next - 1) \o zero \o r.bytes]
  <2>1. zero = IF e[p] < MaxCode /\ next <= Len(e) THEN <<COBS_MARK>> ELSE <<>>
    BY <1>4
  <2>2. ~(next > Len(e) + 1) /\ next - 1 = p + Len(a)
    BY <1>1, <1>4
  <2> QED BY <1>1, <1>4, <1>6, <2>1, <2>2 DEF GroupFrom
<1>8. next - 1 = p + Len(a)
  BY <1>1, <1>4
<1> QED BY <1>2, <1>3, <1>6, <1>7, <1>8 DEF Gives

-----------------------------------------------------------------------------
(* What is written is read.                                                *)

LEMMA MarkedBytes == ASSUME NEW a \in Seq(Marked) PROVE a \in Seq(Nat)
<1>1. Len(a) \in Nat /\ a \in [1..Len(a) -> Marked]
  BY LenProperties
<1>2. a \in [1..Len(a) -> Nat]
  BY <1>1 DEF Marked
<1> QED BY <1>1, <1>2, SeqDef

\* The rest of a packet begins with its first byte.
LEMMA RestIs ==
  ASSUME NEW bytes \in Seq(Nat), NEW n, n = Len(bytes), NEW i \in 1..n, NEW v, v = bytes[i]
  PROVE  SubSeq(bytes, i + 1, n) \in Seq(Nat) /\ <<v>> \o SubSeq(bytes, i + 1, n) = SubSeq(bytes, i, n)
<1>1. n \in Nat /\ i \in Nat /\ v \in Nat /\ \A j \in i..n : bytes[j] \in Nat
  <2>1. n \in Nat
    BY LenProperties
  <2>2. \A j \in i..n : j \in 1..n
    BY <2>1
  <2> QED BY <2>1, <2>2, ElementOfSeq
<1>2. PICK s, t, h : s = SubSeq(bytes, i, n) /\ t = SubSeq(bytes, i + 1, n) /\ h = <<v>>
  OBVIOUS
<1>3. /\ s \in Seq(Nat) /\ Len(s) = n - i + 1
      /\ \A j \in 1..n - i + 1 : s[j] = bytes[i + j - 1]
  <2>1. i <= n /\ i \in Int /\ n \in Int
    BY <1>1
  <2> QED BY <1>1, <1>2, <2>1, SubSeqProperties
<1>4. /\ t \in Seq(Nat) /\ Len(t) = n - i
      /\ \A j \in 1..n - i : t[j] = bytes[i + j]
  <2>1. i + 1 \in Int /\ n \in Int /\ \A j \in (i + 1)..n : bytes[j] \in Nat
    BY <1>1
  <2>2. PICK k : k = i + 1
    OBVIOUS
  <2>3. /\ t \in Seq(Nat) /\ Len(t) = IF k <= n THEN n - k + 1 ELSE 0
        /\ \A j \in 1..n - k + 1 : t[j] = bytes[k + j - 1]
    BY <1>2, <2>1, <2>2, SubSeqProperties
  <2>4. /\ (IF k <= n THEN n - k + 1 ELSE 0) = n - i /\ n - k + 1 = n - i
        /\ \A j \in 1..n - i : k + j - 1 = i + j
    BY <1>1, <2>2
  <2> QED BY <2>3, <2>4
<1>5. h \in Seq(Nat) /\ Len(h) = 1 /\ h[1] = v
  BY <1>1, <1>2
<1>6. PICK r : r = h \o t
  OBVIOUS
<1>7. r \in Seq(Nat) /\ Joins(r, h, t)
  BY <1>4, <1>5, <1>6, JoinIs
<1>8. Len(r) = n - i + 1 /\ r[1] = v /\ \A j \in 1..n - i : r[1 + j] = t[j]
  BY <1>1, <1>4, <1>5, <1>7 DEF Joins
<1>9. \A j \in 1..Len(r) : r[j] = s[j]
  <2> SUFFICES ASSUME NEW j \in 1..(n - i + 1) PROVE r[j] = s[j]
    BY <1>8
  <2>1. CASE j = 1
    <3>1. s[1] = bytes[i]
      <4>1. 1 \in 1..n - i + 1 /\ i + 1 - 1 = i
        BY <1>1
      <4> QED BY <1>3, <4>1
    <3> QED BY <1>8, <2>1, <3>1
  <2>2. CASE j # 1
    <3>1. j - 1 \in 1..n - i /\ 1 + (j - 1) = j /\ i + (j - 1) = i + j - 1
      BY <1>1, <2>2
    <3> QED BY <1>3, <1>4, <1>8, <3>1
  <2> QED BY <2>1, <2>2
<1>10. r = s
  BY <1>3, <1>7, <1>8, <1>9, SeqEqual
<1> QED BY <1>2, <1>4, <1>6, <1>10

Packed(bytes) == Flushed(After(bytes)[Len(bytes)], Len(After(bytes)[Len(bytes)].ahead) + 1).buffer

\* What was written first, and what reading gives from its end.
ReadsAt(e, b, bytes) ==
  /\ Len(b) < Len(e) /\ \A j \in 1..Len(b) : e[j] = b[j]
  /\ Gives(e, Len(b) + 1, bytes)

\* Reading from the end of what was written up to a byte gives what waited and
\* the bytes behind it.
ReadsFrom(bytes, e, i) ==
  ReadsAt(e, After(bytes)[i].buffer, After(bytes)[i].ahead \o SubSeq(bytes, i + 1, Len(bytes)))

\* A group that ends with a byte is read as what waited, that byte, and the rest.
LEMMA GroupReadsFrom ==
  ASSUME NEW bytes \in Seq(Nat), NEW e \in Seq(Marked), NEW i \in 1..Len(bytes),
         NEW s \in States, NEW a \in Seq(Marked), NEW code \in Marked, code = Len(a) + 1,
         NEW zero \in Seq(Nat), zero = IF code < MaxCode THEN <<COBS_MARK>> ELSE <<>>,
         NEW w, w = Flushed([buffer |-> s.buffer, ahead |-> a], code), w = After(bytes)[i],
         ReadsFrom(bytes, e, i)
  PROVE  ReadsAt(e, s.buffer, a \o zero \o SubSeq(bytes, i + 1, Len(bytes)))
<1>1. PICK b, g, t : b = s.buffer /\ g = w.buffer /\ t = SubSeq(bytes, i + 1, Len(bytes))
  OBVIOUS
<1>2. b \in Seq(Marked)
  BY <1>1 DEF States
<1>3. /\ w.ahead = <<>> /\ g \in Seq(Marked) /\ Len(g) = Len(b) + 1 + Len(a)
      /\ \A j \in 1..Len(b) : g[j] = b[j]
      /\ g[Len(b) + 1] = code
      /\ \A j \in 1..Len(a) : g[Len(b) + 1 + j] = a[j]
  <2>1. w = Flushed([buffer |-> b, ahead |-> a], code)
    BY <1>1
  <2>2. w.ahead = <<>> /\ w.buffer \in Seq(Marked) /\ Grouped(w.buffer, b, code, a)
    <3>1. code \in Marked
      OBVIOUS
    <3> QED BY <1>2, <2>1, <3>1, FlushedIs
  <2> QED BY <1>1, <2>2 DEF Grouped
<1>4. /\ Len(g) < Len(e) /\ \A j \in 1..Len(g) : e[j] = g[j]
      /\ Gives(e, Len(g) + 1, <<>> \o t)
  BY <1>1, <1>3 DEF ReadsFrom, ReadsAt
<1>5. t \in Seq(Nat) /\ <<>> \o t = t
  <2>1. t \in Seq(Nat)
    <3>1. PICK n : n = Len(bytes)
      OBVIOUS
    <3>2. i \in 1..n /\ bytes[i] = bytes[i]
      BY <3>1
    <3>3. SubSeq(bytes, i + 1, n) \in Seq(Nat)
      BY <3>1, <3>2, RestIs
    <3> QED BY <1>1, <3>1, <3>3
  <2> QED BY <2>1, ConcatEmptySeq
<1>6. PICK lb, la, le, lg : lb = Len(b) /\ la = Len(a) /\ le = Len(e) /\ lg = Len(g)
  OBVIOUS
<1>7. lb \in Nat /\ la \in Nat /\ le \in Nat /\ lg = lb + 1 + la /\ lg < le /\ code = la + 1
  <2>1. lb \in Nat /\ la \in Nat /\ le \in Nat
    BY <1>2, <1>6, LenProperties
  <2> QED BY <1>3, <1>4, <1>6, <2>1
<1>8. PICK p : p = lb + 1
  OBVIOUS
<1>9. /\ p \in 1..le /\ p + la <= le /\ p + code <= le /\ p + code = lg + 1
      /\ lb < le
      /\ p \in 1..lg /\ \A j \in 1..la : p + j \in 1..lg
      /\ \A j \in 1..lb : j \in 1..lg
  <2>1. p \in Nat /\ lg = p + la /\ lg < le /\ code = la + 1 /\ p >= 1 /\ lb <= lg
    BY <1>7, <1>8
  <2>2. \A j \in 1..la : p + j \in 1..lg
    BY <1>7, <2>1
  <2>3. \A j \in 1..lb : j \in 1..lg
    BY <1>7, <2>1
  <2>4. p + la <= le /\ p + code <= le /\ p + code = lg + 1
    <3>1. PICK c : c = code
      OBVIOUS
    <3>2. p + la <= le /\ p + c <= le /\ p + c = lg + 1
      BY <1>7, <2>1, <3>1
    <3> QED BY <3>1, <3>2
  <2>5. p \in 1..le /\ p \in 1..lg
    BY <1>7, <2>1
  <2> QED BY <1>7, <2>1, <2>2, <2>3, <2>4, <2>5
<1>10. e[p] = code /\ \A j \in 1..la : e[p + j] = a[j]
  <2>1. \A j \in 1..lg : e[j] = g[j]
    BY <1>4, <1>6
  <2>2. g[p] = code /\ \A j \in 1..la : g[p + j] = a[j]
    BY <1>3, <1>6, <1>8
  <2> QED BY <1>9, <2>1, <2>2
<1>11. \A j \in 1..lb : e[j] = b[j]
  <2>1. \A j \in 1..lg : e[j] = g[j]
    BY <1>4, <1>6
  <2>2. \A j \in 1..lb : g[j] = b[j]
    BY <1>3, <1>6
  <2> QED BY <1>9, <2>1, <2>2
<1>16. PICK next : next = p + e[p]
  OBVIOUS
<1>12. next = lg + 1 /\ Gives(e, next, t)
  BY <1>4, <1>5, <1>6, <1>9, <1>10, <1>16
<1>13. zero = IF e[p] < MaxCode /\ next <= Len(e) THEN <<COBS_MARK>> ELSE <<>>
  BY <1>6, <1>7, <1>10, <1>12
<1>14. GroupAt(e, p, a)
  BY <1>6, <1>7, <1>9, <1>10 DEF GroupAt
<1>15. Gives(e, p, a \o zero \o t)
  BY <1>12, <1>13, <1>14, <1>16, GroupIs
<1> QED BY <1>1, <1>6, <1>8, <1>9, <1>11, <1>15 DEF ReadsAt

LEMMA PackedIs ==
  ASSUME NEW bytes \in Seq(Nat), NEW s, s = After(bytes)[Len(bytes)]
  PROVE  /\ s \in States /\ Packed(bytes) \in Seq(Marked)
         /\ Grouped(Packed(bytes), s.buffer, Len(s.ahead) + 1, s.ahead)
         /\ Encoded(bytes) = Append(Packed(bytes), COBS_MARK)
<1>1. s \in States
  <2>1. Len(bytes) \in 0..Len(bytes)
    BY LenProperties
  <2> QED BY <2>1, AfterIs
<1>2. s.buffer \in Seq(Marked) /\ s.ahead \in Seq(Marked) /\ Len(s.ahead) + 1 \in Marked
  <2>1. s.buffer \in Seq(Marked) /\ s.ahead \in Seq(Marked) /\ Len(s.ahead) < MaxCode - 1
    BY <1>1 DEF States
  <2>2. Len(s.ahead) \in Nat /\ MaxCode \in Nat
    BY <2>1, LenProperties, CobsAssumption
  <2>3. Len(s.ahead) < MaxCode
    BY <2>1, <2>2
  <2> QED BY <2>1, <2>2, <2>3, CodeIs
<1>3. PICK g : g = Flushed([buffer |-> s.buffer, ahead |-> s.ahead], Len(s.ahead) + 1)
  OBVIOUS
<1>4. g.buffer \in Seq(Marked) /\ Grouped(g.buffer, s.buffer, Len(s.ahead) + 1, s.ahead)
  BY <1>2, <1>3, FlushedIs
<1>5. g = Flushed(s, Len(s.ahead) + 1)
  BY <1>3 DEF Flushed
<1>6. Packed(bytes) = g.buffer
  BY <1>5 DEF Packed
<1>7. Encoded(bytes) = Append(Packed(bytes), COBS_MARK)
  BY EncodedIs DEF Done, Packed
<1> QED BY <1>1, <1>4, <1>6, <1>7

LEMMA NothingJoined ==
  ASSUME NEW s \in Seq(Nat)
  PROVE  s \o <<>> = s /\ <<>> \o s = s /\ <<>> \in Seq(Nat)
BY ConcatEmptySeq, EmptySeq

LEMMA ReadsLast ==
  ASSUME NEW bytes \in Seq(Nat)
  PROVE  ReadsFrom(bytes, Packed(bytes), Len(bytes))
<1>1. PICK s, e : s = After(bytes)[Len(bytes)] /\ e = Packed(bytes)
  OBVIOUS
<1>2. s \in States /\ e \in Seq(Marked) /\ Grouped(e, s.buffer, Len(s.ahead) + 1, s.ahead)
  BY <1>1, PackedIs
<1>3. PICK b, a : b = s.buffer /\ a = s.ahead
  OBVIOUS
<1>4. b \in Seq(Marked) /\ a \in Seq(Marked)
  BY <1>2, <1>3 DEF States
<1>5. Len(b) \in Nat /\ Len(a) \in Nat /\ Len(e) \in Nat
  BY <1>2, <1>4, LenProperties
<1>6. /\ Len(e) = Len(b) + 1 + Len(a) /\ \A j \in 1..Len(b) : e[j] = b[j]
      /\ e[Len(b) + 1] = Len(a) + 1 /\ \A j \in 1..Len(a) : e[Len(b) + 1 + j] = a[j]
  BY <1>2, <1>3 DEF Grouped
<1>7. PICK p, next : p = Len(b) + 1 /\ next = p + e[p]
  OBVIOUS
<1>8. GroupAt(e, p, a) /\ next = Len(e) + 1 /\ Len(b) < Len(e)
  BY <1>5, <1>6, <1>7 DEF GroupAt
<1>9. Gives(e, next, <<>>)
  <2>1. next \in 1..(Len(e) + 1) /\ next > Len(e)
    BY <1>5, <1>8
  <2>2. From(e)[next] = GroupFrom(From(e), e, next)
    BY <1>2, <2>1, FromIs
  <2> QED BY <2>1, <2>2 DEF Gives, GroupFrom
<1>10. PICK zero : zero = IF e[p] < MaxCode /\ next <= Len(e) THEN <<COBS_MARK>> ELSE <<>>
  OBVIOUS
<1>11. zero = <<>>
  BY <1>5, <1>8, <1>10
<1>12. PICK nil : nil = <<>>
  OBVIOUS
<1>13. Gives(e, p, a \o zero \o nil)
  BY <1>2, <1>4, <1>7, <1>8, <1>9, <1>10, <1>12, GroupIs
<1>14. a \o zero \o nil = a \o SubSeq(bytes, Len(bytes) + 1, Len(bytes))
  <2>1. Len(bytes) \in Nat
    BY LenProperties
  <2>2. SubSeq(bytes, Len(bytes) + 1, Len(bytes)) = <<>>
    <3>1. PICK m, n : n = Len(bytes) /\ m = n + 1
      OBVIOUS
    <3>2. m \in Int /\ n \in Int /\ n < m
      BY <2>1, <3>1
    <3>3. SubSeq(bytes, m, n) = <<>>
      BY <3>2, SubSeqEmpty
    <3> QED BY <3>1, <3>3
  <2>3. a \in Seq(Nat)
    BY <1>4, MarkedBytes
  <2>4. a \o <<>> = a
    BY <2>3, NothingJoined
  <2> QED BY <1>11, <1>12, <2>2, <2>4
<1>15. Gives(e, p, a \o SubSeq(bytes, Len(bytes) + 1, Len(bytes)))
  BY <1>13, <1>14
<1> QED BY <1>1, <1>3, <1>6, <1>7, <1>8, <1>15 DEF ReadsFrom, ReadsAt

LEMMA Joined ==
  ASSUME NEW r \in Seq(Nat), NEW s \in Seq(Nat), NEW t \in Seq(Nat)
  PROVE  (r \o s) \o t = r \o (s \o t)
BY ConcatAssociative

\* The rest of the packet behind what has waited, whether its first byte has
\* ended the group, filled it, or waits too.
Continues(a, v, rest, whole) ==
  /\ a \o <<v>> \o rest = whole
  /\ Append(a, v) \o rest = whole
  /\ Append(a, v) \o <<>> \o rest = whole

LEMMA SameRest ==
  ASSUME NEW a \in Seq(Nat), NEW v \in Nat, NEW rest \in Seq(Nat)
  PROVE  Continues(a, v, rest, a \o (<<v>> \o rest))
<1>1. \A h \in Seq(Nat) : (a \o h) \o rest = a \o (h \o rest)
  BY Joined
<1>2. <<v>> \in Seq(Nat)
  OBVIOUS
<1>3. (a \o <<v>>) \o rest = a \o (<<v>> \o rest)
  BY <1>1, <1>2
<1>4. Append(a, v) = a \o <<v>>
  BY AppendIsConcat
<1>5. Append(a, v) \in Seq(Nat)
  BY AppendProperties
<1>6. Append(a, v) \o <<>> = Append(a, v)
  BY <1>5, NothingJoined
<1> QED BY <1>3, <1>4, <1>6 DEF Continues

LEMMA ReadsBefore ==
  ASSUME NEW bytes \in Seq(Nat), NEW e \in Seq(Marked), NEW i \in 1..Len(bytes),
         ReadsFrom(bytes, e, i)
  PROVE  ReadsFrom(bytes, e, i - 1)
<1>1. PICK n, s, v, w, b, a : /\ n = Len(bytes) /\ s = After(bytes)[i - 1] /\ v = bytes[i]
                              /\ w = After(bytes)[i] /\ b = s.buffer /\ a = s.ahead
  OBVIOUS
<1>2. n \in Nat /\ i - 1 \in 0..n /\ (i - 1) + 1 = i
  BY <1>1, LenProperties
<1>3. s \in States /\ w = Write(s, v)
  <2>1. /\ \A j \in 1..Len(bytes) : After(bytes)[j] = Write(After(bytes)[j - 1], bytes[j])
        /\ \A j \in 0..Len(bytes) : After(bytes)[j] \in States
    BY AfterIs
  <2> QED BY <1>1, <1>2, <2>1
<1>4. /\ b \in Seq(Marked) /\ a \in Seq(Marked) /\ s = [buffer |-> b, ahead |-> a]
      /\ Len(a) < MaxCode - 1 /\ Len(a) \in Nat /\ MaxCode \in Nat \ {0, 1}
  <2>1. b \in Seq(Marked) /\ a \in Seq(Marked) /\ s = [buffer |-> b, ahead |-> a] /\ Len(a) < MaxCode - 1
    BY <1>1, <1>3 DEF States
  <2> QED BY <2>1, LenProperties, CobsAssumption
<1>5. v \in Nat /\ a \in Seq(Nat)
  BY <1>1, <1>4, ElementOfSeq, MarkedBytes
<1>6. PICK rest : rest = SubSeq(bytes, i + 1, n)
  OBVIOUS
<1>7. PICK whole : whole = a \o SubSeq(bytes, i, n)
  OBVIOUS
<1>13. Continues(a, v, rest, whole)
  <2>1. rest \in Seq(Nat) /\ <<v>> \o rest = SubSeq(bytes, i, n)
    BY <1>1, <1>6, RestIs
  <2>2. Continues(a, v, rest, a \o (<<v>> \o rest))
    BY <1>5, <2>1, SameRest
  <2> QED BY <1>7, <2>1, <2>2
<1>14. /\ a \o <<v>> \o rest = whole
       /\ Append(a, v) \o rest = whole
       /\ Append(a, v) \o <<>> \o rest = whole
  BY <1>13 DEF Continues
<1>8. SUFFICES ReadsAt(e, b, whole)
  BY <1>1, <1>2, <1>7 DEF ReadsFrom
<1>9. CASE v = COBS_MARK /\ w = Flushed(s, Len(a) + 1)
  <2>1. PICK code, zero : code = Len(a) + 1 /\ zero = IF code < MaxCode THEN <<COBS_MARK>> ELSE <<>>
    OBVIOUS
  <2>2. code < MaxCode /\ zero = <<v>>
    BY <1>4, <1>9, <2>1
  <2>3. code \in Marked /\ zero \in Seq(Nat)
    BY <1>4, <1>5, <2>1, <2>2 DEF Marked, COBS_MARK
  <2>4. w = Flushed([buffer |-> s.buffer, ahead |-> a], code)
    BY <1>1, <1>4, <1>9, <2>1
  <2>5. ReadsAt(e, s.buffer, a \o zero \o SubSeq(bytes, i + 1, Len(bytes)))
    BY <1>1, <1>3, <1>4, <2>1, <2>3, <2>4, GroupReadsFrom
  <2> QED BY <1>1, <1>6, <1>14, <2>2, <2>5
<1>10. ASSUME v # COBS_MARK
       PROVE  /\ Append(a, v) \in Seq(Marked) /\ Len(Append(a, v)) = Len(a) + 1
              /\ [s EXCEPT !.ahead = Append(@, v)] = [buffer |-> b, ahead |-> Append(a, v)]
  <2>1. v \in Marked
    BY <1>5, <1>10 DEF Marked
  <2>2. Append(a, v) \in Seq(Marked) /\ Len(Append(a, v)) = Len(a) + 1
    BY <1>4, <2>1, AppendProperties
  <2>3. PICK more : more = Append(a, v)
    OBVIOUS
  <2>4. [s EXCEPT !.ahead = more] = [buffer |-> b, ahead |-> more] /\ s.ahead = a
    BY <1>4
  <2> QED BY <2>2, <2>3, <2>4
<1>11. CASE /\ v # COBS_MARK /\ Len(a) + 1 = MaxCode - 1
            /\ w = Flushed([s EXCEPT !.ahead = Append(@, v)], MaxCode)
  <2>1. PICK code, zero, more : /\ code = MaxCode /\ more = Append(a, v)
                                /\ zero = IF code < MaxCode THEN <<COBS_MARK>> ELSE <<>>
    OBVIOUS
  <2>2. zero = <<>> /\ zero \in Seq(Nat)
    <3>1. ~(code < MaxCode)
      BY <1>4, <2>1
    <3> QED BY <2>1, <3>1, EmptySeq
  <2>3. more \in Seq(Marked) /\ code = Len(more) + 1 /\ code \in Marked
    BY <1>4, <1>10, <1>11, <2>1 DEF Marked, COBS_MARK
  <2>4. w = Flushed([buffer |-> s.buffer, ahead |-> more], code)
    BY <1>1, <1>10, <1>11, <2>1
  <2>5. ReadsAt(e, s.buffer, more \o zero \o SubSeq(bytes, i + 1, Len(bytes)))
    BY <1>1, <1>3, <2>1, <2>2, <2>3, <2>4, GroupReadsFrom
  <2> QED BY <1>1, <1>6, <1>14, <2>1, <2>2, <2>5
<1>12. CASE /\ v # COBS_MARK
            /\ w = [s EXCEPT !.ahead = Append(@, v)]
  <2>1. w.buffer = b /\ w.ahead = Append(a, v)
    BY <1>10, <1>12
  <2>2. ReadsAt(e, b, Append(a, v) \o SubSeq(bytes, i + 1, Len(bytes)))
    BY <1>1, <2>1 DEF ReadsFrom
  <2> QED BY <1>1, <1>6, <1>14, <2>2
<1> QED BY <1>1, <1>3, <1>5, <1>9, <1>11, <1>12, WriteIs

\* A packet read from what was written of it is the packet, whatever its bytes
\* and however long its groups may be.
LEMMA ReadBack ==
  ASSUME NEW bytes \in Seq(Nat)
  PROVE  Decoded(Packed(bytes)) = [ok |-> TRUE, bytes |-> bytes]
<1>1. PICK n, e : n = Len(bytes) /\ e = Packed(bytes)
  OBVIOUS
<1>2. n \in Nat /\ e \in Seq(Marked)
  BY <1>1, LenProperties, PackedIs
<1> DEFINE P == {i \in 0..n : ReadsFrom(bytes, e, i)}
<1>3. n \in P
  BY <1>1, <1>2, ReadsLast
<1>4. ASSUME NEW i \in 1..n, i \in P PROVE i - 1 \in P
  <2>1. ReadsFrom(bytes, e, i) /\ i \in 1..Len(bytes) /\ i - 1 \in 0..n
    BY <1>1, <1>2, <1>4
  <2>2. ReadsFrom(bytes, e, i - 1)
    BY <1>2, <2>1, ReadsBefore
  <2> QED BY <2>1, <2>2
<1>5. 0 \in P
  <2> HIDE DEF P
  <2>1. \A i \in 0..n : i \in P
    BY <1>2, <1>3, <1>4, Downward
  <2> QED BY <1>2, <2>1
<1>6. ReadsFrom(bytes, e, 0) /\ After(bytes)[0] = Nothing
  BY <1>5, AfterIs
<1>7. Gives(e, Len(Nothing.buffer) + 1, Nothing.ahead \o SubSeq(bytes, 0 + 1, Len(bytes)))
  BY <1>6 DEF ReadsFrom, ReadsAt
<1>8. Len(Nothing.buffer) + 1 = 1 /\ Nothing.ahead = <<>>
  BY EmptySeq DEF Nothing
<1>9. SubSeq(bytes, 0 + 1, Len(bytes)) = bytes
  BY SubSeqFull
<1>10. <<>> \o bytes = bytes
  BY NothingJoined
<1>11. Gives(e, 1, bytes)
  BY <1>7, <1>8, <1>9, <1>10
<1> QED BY <1>1, <1>11, DecodedIs DEF Gives

\* Whatever a packet is, its encoding has one mark, at its end, and what is in front
\* of it decodes to the packet: cobs_encoder and cobs_decoder agree.
THEOREM RoundTrip ==
  \A bytes \in Seq(Nat) :
    \E e \in Seq(Nat \ {COBS_MARK}) :
      Encoded(bytes) = Append(e, COBS_MARK) /\ Decoded(e) = [ok |-> TRUE, bytes |-> bytes]
<1> SUFFICES ASSUME NEW bytes \in Seq(Nat)
             PROVE  \E e \in Seq(Nat \ {COBS_MARK}) :
                      Encoded(bytes) = Append(e, COBS_MARK) /\ Decoded(e) = [ok |-> TRUE, bytes |-> bytes]
  OBVIOUS
<1>1. PICK e : e = Packed(bytes)
  OBVIOUS
<1>2. e \in Seq(Marked) /\ Encoded(bytes) = Append(e, COBS_MARK) /\ Decoded(e) = [ok |-> TRUE, bytes |-> bytes]
  BY <1>1, PackedIs, ReadBack
<1> QED BY <1>2 DEF Marked

-----------------------------------------------------------------------------
(* Frames.                                                                 *)

LEMMA ChecksumIs == ASSUME NEW d \in Seq(Nat) PROVE Checksum(d) \in Nat
<1>1. PICK n : n = Len(d)
  OBVIOUS
<1>2. n \in Nat /\ \A i \in 1..n : d[i] \in Nat
  BY <1>1, LenProperties, ElementOfSeq
<1> DEFINE Step == [x \in Nat \X (1..n) |-> 3 * x[1] + d[x[2]] + 1]
<1>3. Step \in [Nat \X (1..n) -> Nat] /\ \A s \in Nat, i \in 1..n : Step[<<s, i>>] = 3 * s + d[i] + 1
  <2>1. \A x \in Nat \X (1..n) : x[1] \in Nat /\ x[2] \in 1..n /\ d[x[2]] \in Nat
    BY <1>2
  <2>2. \A x \in Nat \X (1..n) : 3 * x[1] + d[x[2]] + 1 \in Nat
    BY <2>1
  <2>3. Step \in [Nat \X (1..n) -> Nat]
    BY <2>2
  <2>4. \A s \in Nat, i \in 1..n : Step[<<s, i>>] = 3 * s + d[i] + 1
    OBVIOUS
  <2> QED BY <2>3, <2>4
<1> HIDE DEF Step
<1>4. PICK step : step = Step
  OBVIOUS
<1>5. PICK f : Unfolds(f, n, Nat, 16, step)
  <2>1. 16 \in Nat /\ step \in [Nat \X (1..n) -> Nat]
    BY <1>3, <1>4
  <2> QED BY <1>2, <2>1, UpwardFunction
<1>6. f = [i \in 0..n |-> IF i = 0 THEN 16 ELSE 3 * f[i - 1] + d[i] + 1]
  <2>1. f \in [0..n -> Nat] /\ f[0] = 16 /\ \A i \in 1..n : f[i] = step[<<f[i - 1], i>>]
    BY <1>5 DEF Unfolds
  <2>2. ASSUME NEW i \in 0..n
        PROVE  f[i] = IF i = 0 THEN 16 ELSE 3 * f[i - 1] + d[i] + 1
    <3>1. CASE i = 0
      BY <2>1, <3>1
    <3>2. CASE i # 0
      <4>1. i \in 1..n /\ i - 1 \in 0..n
        BY <1>2, <3>2
      <4>2. f[i - 1] \in Nat /\ f[i] = step[<<f[i - 1], i>>]
        BY <2>1, <4>1
      <4> QED BY <1>3, <1>4, <3>2, <4>1, <4>2
    <3> QED BY <3>1, <3>2
  <2> QED BY <2>1, <2>2
<1> DEFINE h == CHOOSE h : h = [i \in 0..n |-> IF i = 0 THEN 16 ELSE 3 * h[i - 1] + d[i] + 1]
<1>7. h = [i \in 0..n |-> IF i = 0 THEN 16 ELSE 3 * h[i - 1] + d[i] + 1]
  BY <1>6
<1>8. Checksum(d) = h[n]
  BY <1>1 DEF Checksum
<1> HIDE DEF h
<1>9. \A i \in 0..n : h[i] = IF i = 0 THEN 16 ELSE 3 * h[i - 1] + d[i] + 1
  BY <1>7
<1> DEFINE P == {i \in 0..n : h[i] \in Nat}
<1>10. 0 \in P
  BY <1>2, <1>9
<1>11. ASSUME NEW i \in 1..n, i - 1 \in P PROVE i \in P
  <2>1. i \in 0..n /\ i # 0 /\ h[i - 1] \in Nat /\ d[i] \in Nat
    BY <1>2, <1>11
  <2>2. h[i] = 3 * h[i - 1] + d[i] + 1
    BY <1>9, <2>1
  <2> QED BY <2>1, <2>2
<1>12. n \in P
  <2> HIDE DEF P
  <2>1. \A i \in 0..n : i \in P
    BY <1>2, <1>10, <1>11, Upward
  <2> QED BY <1>2, <2>1
<1> QED BY <1>8, <1>12

\* Packets that are sent are not empty and not above the limit.
LEMMA PieceFits ==
  ASSUME NEW l \in Nat, NEW s \in Nat \ {0}, NEW i \in 1..(l \div s)
  PROVE  /\ (i - 1) * s + 1 \in Nat /\ (i - 1) * s + 1 >= 1 /\ i * s \in Nat /\ i * s <= l
         /\ i * s - ((i - 1) * s + 1) + 1 = s /\ (i - 1) * s + 1 <= i * s
<1>1. PICK q : q = l \div s
  OBVIOUS
<1>2. q \in Nat /\ q * s <= l
  BY <1>1
<1>3. i \in Nat /\ i >= 1 /\ i <= q
  BY <1>1, <1>2
<1>4. i * s <= q * s
  BY <1>2, <1>3
<1>5. (i - 1) * s = i * s - s /\ i * s \in Nat /\ (i - 1) * s \in Nat
  BY <1>3
<1>6. PICK a, b, c : a = i * s /\ b = (i - 1) * s /\ c = q * s
  OBVIOUS
<1>7. a \in Nat /\ b \in Nat /\ b = a - s /\ a <= c /\ c <= l
  BY <1>2, <1>4, <1>5, <1>6
<1>8. b + 1 \in Nat /\ b + 1 >= 1 /\ a <= l /\ a - (b + 1) + 1 = s /\ b + 1 <= a
  <2>1. c \in Int
    BY <1>2, <1>3, <1>6
  <2> QED BY <1>7, <2>1
<1> QED BY <1>6, <1>7, <1>8

LEMMA SendableIs ==
  ASSUME NEW d \in Sendable
  PROVE  d \in Seq(Nat) /\ Len(d) \in 1..SizeLimit
<1>1. SizeLimit \in Nat \ {0} /\ \A e \in Data : e \in Seq(Nat) /\ Len(e) \in Nat \ {0}
  <2>1. ASSUME NEW e \in Data PROVE e \in Seq(Nat) /\ Len(e) \in Nat \ {0}
    <3>1. e \in Seq(Nat) /\ e # <<>>
      BY LinkAssumption
    <3> QED BY <3>1, EmptySeq
  <2> QED BY <2>1, LinkAssumption
<1>2. CASE d \in Small
  BY <1>1, <1>2 DEF Small
<1>3. ASSUME NEW e \in Data \ Small, NEW i \in DOMAIN Split(e), d = Split(e)[i]
      PROVE  d \in Seq(Nat) /\ Len(d) = SizeLimit
  <2>1. PICK l, s, q : l = Len(e) /\ s = SizeLimit /\ q = l \div s
    OBVIOUS
  <2>2. i \in 1..q /\ d = SubSeq(e, (i - 1) * s + 1, i * s)
    BY <1>3, <2>1 DEF Split
  <2>3. PICK m, n : m = (i - 1) * s + 1 /\ n = i * s
    OBVIOUS
  <2>4. m \in Nat /\ m >= 1 /\ n \in Nat /\ n <= l /\ n - m + 1 = s /\ m <= n
    BY <1>1, <2>1, <2>2, <2>3, PieceFits
  <2>5. \A j \in m..n : e[j] \in Nat
    <3>1. l \in Nat /\ \A j \in 1..l : e[j] \in Nat
      BY <1>1, <2>1, ElementOfSeq
    <3>2. \A j \in m..n : j \in 1..l
      BY <2>4, <3>1
    <3> QED BY <3>1, <3>2
  <2>6. SubSeq(e, m, n) \in Seq(Nat) /\ Len(SubSeq(e, m, n)) = n - m + 1
    BY <2>4, <2>5, SubSeqProperties
  <2> QED BY <2>1, <2>2, <2>3, <2>4, <2>6
<1> QED BY <1>1, <1>2, <1>3 DEF Sendable

\* What is encoded of a packet.
Content(d) == <<Signature, Len(d) % SizeLimit, Checksum(d)>> \o d

LEMMA ContentIs ==
  ASSUME NEW d \in Sendable, NEW c, c = Content(d)
  PROVE  /\ c \in Seq(Nat) /\ Len(c) = 3 + Len(d)
         /\ c[1] = Signature /\ c[2] = Len(d) % SizeLimit /\ c[3] = Checksum(d)
         /\ SubSeq(c, 4, Len(c)) = d
<1>1. d \in Seq(Nat) /\ Len(d) \in Nat /\ SizeLimit \in Nat \ {0}
  BY SendableIs, LenProperties, LinkAssumption
<1>2. PICK h, size, sum : h = <<Signature, size, sum>> /\ size = Len(d) % SizeLimit /\ sum = Checksum(d)
  OBVIOUS
<1>3. size \in Nat /\ sum \in Nat /\ Signature \in Nat
  BY <1>1, <1>2, ChecksumIs DEF Signature
<1>4. h \in Seq(Nat) /\ Len(h) = 3 /\ h[1] = Signature /\ h[2] = size /\ h[3] = sum
  BY <1>2, <1>3
<1>5. c = h \o d
  BY <1>2 DEF Content
<1>6. c \in Seq(Nat) /\ Joins(c, h, d)
  BY <1>1, <1>4, <1>5, JoinIs
<1>7. PICK n, l : n = Len(d) /\ l = Len(c)
  OBVIOUS
<1>8. /\ l = 3 + n /\ n \in Nat
      /\ \A j \in 1..3 : c[j] = h[j]
      /\ \A j \in 1..n : c[3 + j] = d[j]
  BY <1>1, <1>4, <1>6, <1>7 DEF Joins
<1>9. SubSeq(c, 4, l) = d
  <2>1. PICK s : s = SubSeq(c, 4, l)
    OBVIOUS
  <2>2. \A j \in 4..l : c[j] \in Nat
    <3>1. \A j \in 4..l : j \in 1..l
      BY <1>8
    <3> QED BY <1>6, <1>7, <3>1, ElementOfSeq
  <2>3. 4 \in Int /\ l \in Int
    BY <1>8
  <2>4. /\ s \in Seq(Nat) /\ Len(s) = IF 4 <= l THEN l - 4 + 1 ELSE 0
        /\ \A j \in 1..l - 4 + 1 : s[j] = c[4 + j - 1]
    BY <2>1, <2>2, <2>3, SubSeqProperties
  <2>5. /\ (IF 4 <= l THEN l - 4 + 1 ELSE 0) = n /\ l - 4 + 1 = n
        /\ \A j \in 1..n : 4 + j - 1 = 3 + j
    BY <1>8
  <2>6. Len(s) = n /\ \A j \in 1..n : s[j] = c[3 + j]
    BY <2>4, <2>5
  <2>7. \A j \in 1..Len(s) : s[j] = d[j]
    BY <1>8, <2>6
  <2>8. s = d
    BY <1>1, <1>7, <2>4, <2>6, <2>7, SeqEqual
  <2> QED BY <2>1, <2>8
<1>10. c[1] = Signature /\ c[2] = size /\ c[3] = sum
  <2>1. 1 \in 1..3 /\ 2 \in 1..3 /\ 3 \in 1..3
    OBVIOUS
  <2> QED BY <1>4, <1>8, <2>1
<1> QED BY <1>2, <1>6, <1>7, <1>8, <1>9, <1>10

Unmarked(t, f) == t = [j \in 1..(Len(f) - 1) |-> f[j]]

ReadAs(t, d) ==
  LET p == Decoded(t)
  IN  /\ Len(d) # SizeLimit => Accepted(p)
      /\ SubSeq(p.bytes, 4, Len(p.bytes)) = d

\* A frame ends with the only mark in it; what is in front of it is read as the
\* packet, and accepted unless its size is sent as zero.
LEMMA FrameIs ==
  ASSUME NEW d \in Sendable, NEW f, f = Frame[d], NEW n, n = Len(f)
  PROVE  /\ n \in Nat /\ n >= 1 /\ f[n] = COBS_MARK
         /\ \A j \in 1..n : f[j] \in Nat
         /\ \A j \in 1..n : j < n => f[j] # COBS_MARK
         /\ \A t : Unmarked(t, f) => ReadAs(t, d)
<1>1. PICK c, e : c = Content(d) /\ e = Packed(c)
  OBVIOUS
<1>2. /\ c \in Seq(Nat) /\ Len(c) = 3 + Len(d)
      /\ c[1] = Signature /\ c[2] = Len(d) % SizeLimit /\ c[3] = Checksum(d)
      /\ SubSeq(c, 4, Len(c)) = d
  BY <1>1, ContentIs
<1>3. f = Encoded(c)
  BY <1>1 DEF Frame, Content
<1>4. e \in Seq(Marked) /\ Encoded(c) = Append(e, COBS_MARK) /\ Decoded(e) = [ok |-> TRUE, bytes |-> c]
  BY <1>1, <1>2, PackedIs, ReadBack
<1>5. Len(e) \in Nat /\ \A j \in 1..Len(e) : e[j] \in Nat /\ e[j] # COBS_MARK
  BY <1>4, LenProperties, ElementOfSeq DEF Marked
<1>6. PICK l : l = Len(e)
  OBVIOUS
<1>7. /\ n = l + 1 /\ f[l + 1] = COBS_MARK
      /\ \A j \in 1..l : f[j] = e[j]
  <2>1. e \in Seq(Nat) /\ COBS_MARK \in Nat
    BY <1>4, MarkedBytes DEF COBS_MARK
  <2>2. /\ Len(Append(e, COBS_MARK)) = Len(e) + 1
        /\ \A j \in 1..Len(e) : Append(e, COBS_MARK)[j] = e[j]
        /\ Append(e, COBS_MARK)[Len(e) + 1] = COBS_MARK
    BY <2>1, AppendProperties
  <2> QED BY <1>3, <1>4, <1>6, <2>2
<1>8. l \in Nat /\ \A j \in 1..l : e[j] \in Nat /\ e[j] # COBS_MARK
  BY <1>5, <1>6
<1>9. n \in Nat /\ n >= 1 /\ n - 1 = l /\ f[n] = COBS_MARK
  BY <1>7, <1>8
<1>10. ASSUME NEW j \in 1..n PROVE f[j] \in Nat /\ (j < n => f[j] # COBS_MARK)
  <2>1. CASE j = n
    BY <1>9, <2>1 DEF COBS_MARK
  <2>2. CASE j # n
    <3>1. j \in 1..l
      BY <1>7, <1>8, <2>2
    <3> QED BY <1>7, <1>8, <3>1
  <2> QED BY <2>1, <2>2
<1>11. [j \in 1..(n - 1) |-> f[j]] = e
  <2>1. e = [j \in 1..l |-> e[j]]
    BY <1>4, <1>6, LenProperties
  <2>2. [j \in 1..l |-> f[j]] = [j \in 1..l |-> e[j]]
    BY <1>7
  <2> QED BY <1>9, <2>1, <2>2
<1>12. ReadAs(e, d)
  <2> SUFFICES ASSUME NEW p, p = Decoded(e)
               PROVE  /\ Len(d) # SizeLimit => Accepted(p)
                      /\ SubSeq(p.bytes, 4, Len(p.bytes)) = d
    BY DEF ReadAs
  <2>1. p.ok /\ p.bytes = c
    BY <1>4
  <2>2. Len(d) # SizeLimit => Len(d) % SizeLimit = Len(c) - 3 /\ Len(c) >= 3
    <3>1. PICK a, s, l2 : a = Len(d) /\ s = SizeLimit /\ l2 = Len(c)
      OBVIOUS
    <3>2. a \in 1..s /\ s \in Nat \ {0} /\ l2 = 3 + a
      BY <1>2, <3>1, SendableIs, LinkAssumption
    <3>3. a # s => a % s = l2 - 3 /\ l2 >= 3
      BY <3>2
    <3> QED BY <3>1, <3>3
  <2> QED BY <1>2, <2>1, <2>2 DEF Accepted
<1>13. ASSUME NEW t, Unmarked(t, f) PROVE ReadAs(t, d)
  <2>1. t = e
    BY <1>11, <1>13 DEF Unmarked
  <2> QED BY <1>12, <2>1
<1> QED BY <1>9, <1>10, <1>13

-----------------------------------------------------------------------------
(* What the line carries.                                                  *)

Sendings == [byte : Nat, of : Nat]

\* The bytes that recv has got and those that it will get.
stream == temp \o line

FrameOf(n) == Frame[packets[n]]

\* How much of a packet has been put on the line, if nothing was done to it.
Put(n) == IF n = Current /\ sending THEN written ELSE Len(FrameOf(n))

LinkType ==
  /\ packets \in Seq(Sendable) /\ pieces \in Seq(Sendable)
  /\ sending \in BOOLEAN /\ timed \in BOOLEAN
  /\ temp \in Seq(Sendings) /\ line \in Seq(Sendings)
  /\ got \in Seq([of : Nat, data : Seq(Nat)])
  /\ sending => Current >= 1 /\ written \in 0..Len(FrameOf(Current))

\* Marks divide packets, and what recv returns is behind what is on the way.
Order ==
  /\ \A i \in 2..Len(got) : got[i - 1].of < got[i].of
  /\ \A i \in 1..Len(got) : got[i].of <= Current
  /\ \A k \in 1..Len(stream) : stream[k].of <= Current
  /\ \A i \in 1..Len(got), k \in 1..Len(stream) : got[i].of < stream[k].of
  /\ \A j, k \in 1..Len(stream) :
       j < k /\ stream[j].byte = COBS_MARK => stream[j].of < stream[k].of

\* A packet that has not been written to its end has no mark.
Unended ==
  sending /\ written < Len(FrameOf(Current)) =>
    /\ \A i \in 1..Len(got) : got[i].of < Current
    /\ \A k \in 1..Len(stream) : stream[k].byte = COBS_MARK => stream[k].of < Current

NoMarkYet == \A k \in 1..Len(temp) : temp[k].byte # COBS_MARK

\* The last byte on the line is the one written last.
LastWritten ==
  sending /\ written > 0 /\ line # <<>> =>
    line[Len(line)] = [byte |-> FrameOf(Current)[written], of |-> Current]

\* Nothing is in front of the next packet that has no mark at its end.
Clear ==
  (~sending \/ written = Len(FrameOf(Current))) /\ Current + 1 \notin hurt =>
    stream = <<>> \/ stream[Len(stream)].byte = COBS_MARK

\* The first w bytes of a packet's frame f, behind p others that end with a mark.
Spans(s, f, n, w, p) ==
  /\ p \in Nat /\ p + w <= Len(s)
  /\ \A k \in 1..w : s[p + k] = [byte |-> f[k], of |-> n]
  /\ p = 0 \/ s[p].byte = COBS_MARK

OnTheWay(n) ==
  \E p \in Nat : /\ Spans(stream, FrameOf(n), n, Put(n), p)
                 /\ n = Current /\ sending => p + Put(n) = Len(stream)

Come(n) ==
  /\ Put(n) = Len(FrameOf(n))
  /\ \/ Len(packets[n]) = SizeLimit
     \/ \E i \in 1..Len(got) : got[i] = [of |-> n, data |-> packets[n]]

\* What a packet is that nothing was done to.
Arrives == \A n \in 1..Current : n \notin hurt => Come(n) \/ OnTheWay(n)

LinkInv ==
  /\ LinkType /\ Order /\ Unended /\ NoMarkYet /\ LastWritten /\ Clear /\ Arrives

\* A packet's bytes stay where they are, or move to the front, when a byte is
\* put behind them, those in front of them go, or one goes that is none of them
\* nor the mark they come behind.
LEMMA SpansMore ==
  ASSUME NEW s \in Seq(Sendings), NEW x \in Sendings, NEW f, NEW n, NEW w \in Nat, NEW p,
         Spans(s, f, n, w, p), NEW t, t = Append(s, x)
  PROVE  /\ Spans(t, f, n, w, p) /\ Len(t) = Len(s) + 1
         /\ p + w = Len(s) /\ x = [byte |-> f[w + 1], of |-> n] => Spans(t, f, n, w + 1, p)
<1>1. PICK l : l = Len(s)
  OBVIOUS
<1>2. l \in Nat /\ Len(t) = l + 1 /\ t[l + 1] = x /\ \A k \in 1..l : t[k] = s[k]
  BY <1>1, AppendProperties, LenProperties
<1>3. /\ p \in Nat /\ p + w <= l /\ (p = 0 \/ s[p].byte = COBS_MARK)
      /\ \A k \in 1..w : s[p + k] = [byte |-> f[k], of |-> n]
  BY <1>1 DEF Spans
<1>4. p \in Nat /\ p + w <= l + 1 /\ p <= l
  BY <1>2, <1>3
<1>5. p = 0 \/ t[p].byte = COBS_MARK
  BY <1>2, <1>3, <1>4
<1>6. \A k \in 1..w : p + k \in 1..l
  BY <1>2, <1>3
<1>7. \A k \in 1..w : t[p + k] = [byte |-> f[k], of |-> n]
  BY <1>2, <1>3, <1>6
<1>8. Spans(t, f, n, w, p)
  BY <1>2, <1>4, <1>5, <1>7 DEF Spans
<1>9. ASSUME p + w = l, x = [byte |-> f[w + 1], of |-> n] PROVE Spans(t, f, n, w + 1, p)
  <2>1. p + (w + 1) <= l + 1 /\ p + (w + 1) = l + 1
    <3>1. p + w = l
      BY <1>9
    <3>2. p \in Nat /\ l \in Nat
      BY <1>2, <1>3
    <3> QED BY <3>1, <3>2
  <2>2. ASSUME NEW k \in 1..(w + 1) PROVE t[p + k] = [byte |-> f[k], of |-> n]
    <3>1. CASE k = w + 1
      BY <1>2, <1>9, <2>1, <3>1
    <3>2. CASE k # w + 1
      <4>1. k \in 1..w
        BY <3>2
      <4> QED BY <1>7, <4>1
    <3> QED BY <3>1, <3>2
  <2> QED BY <1>2, <1>3, <1>5, <2>1, <2>2 DEF Spans
<1> QED BY <1>1, <1>2, <1>8, <1>9

\* What is left of s without its first q elements.
Rests(t, s, q) ==
  /\ Len(t) = Len(s) - q
  /\ \A k \in 1..Len(t) : t[k] = s[k + q]

LEMMA SpansBehind ==
  ASSUME NEW s, NEW t, Len(s) \in Nat, Len(t) \in Nat, NEW q \in Nat, Rests(t, s, q),
         NEW f, NEW n, NEW w \in Nat, NEW p, q <= p, Spans(s, f, n, w, p)
  PROVE  Spans(t, f, n, w, p - q)
<1>1. PICK l, m : l = Len(s) /\ m = Len(t)
  OBVIOUS
<1>2. l \in Nat /\ m = l - q /\ m \in Nat /\ \A k \in 1..m : t[k] = s[k + q]
  BY <1>1 DEF Rests
<1>3. /\ p \in Nat /\ p + w <= l /\ (p = 0 \/ s[p].byte = COBS_MARK)
      /\ \A k \in 1..w : s[p + k] = [byte |-> f[k], of |-> n]
  BY <1>1 DEF Spans
<1>4. p - q \in Nat /\ (p - q) + w <= m
  BY <1>2, <1>3
<1>5. p - q = 0 \/ t[p - q].byte = COBS_MARK
  <2> SUFFICES ASSUME p - q # 0 PROVE t[p - q].byte = COBS_MARK
    OBVIOUS
  <2>1. p - q \in 1..m /\ (p - q) + q = p /\ p # 0
    BY <1>2, <1>3, <1>4
  <2> QED BY <1>2, <1>3, <2>1
<1>6. ASSUME NEW k \in 1..w PROVE t[(p - q) + k] = [byte |-> f[k], of |-> n]
  <2>1. (p - q) + k \in 1..m /\ ((p - q) + k) + q = p + k
    BY <1>2, <1>3, <1>4
  <2> QED BY <1>2, <1>3, <2>1
<1> QED BY <1>1, <1>4, <1>5, <1>6 DEF Spans

\* What is left of s without the element at q.
Without(t, s, q) ==
  /\ q \in 1..Len(s) /\ Len(t) = Len(s) - 1
  /\ \A k \in 1..Len(t) : t[k] = IF k < q THEN s[k] ELSE s[k + 1]

LEMMA SpansWithout ==
  ASSUME NEW s, NEW t, Len(s) \in Nat, Len(t) \in Nat, NEW q, Without(t, s, q),
         NEW f, NEW n, NEW w \in Nat, NEW p, Spans(s, f, n, w, p), q < p \/ q > p + w
  PROVE  Spans(t, f, n, w, IF q < p THEN p - 1 ELSE p)
<1>1. PICK l, m : l = Len(s) /\ m = Len(t)
  OBVIOUS
<1>2. /\ l \in Nat /\ m = l - 1 /\ m \in Nat /\ q \in 1..l
      /\ \A k \in 1..m : t[k] = IF k < q THEN s[k] ELSE s[k + 1]
  BY <1>1 DEF Without
<1>3. /\ p \in Nat /\ p + w <= l /\ (p = 0 \/ s[p].byte = COBS_MARK)
      /\ \A k \in 1..w : s[p + k] = [byte |-> f[k], of |-> n]
  BY <1>1 DEF Spans
<1>4. CASE q < p
  <2>1. p - 1 \in 1..m /\ (p - 1) + w <= m /\ p # 0 /\ (p - 1) + 1 = p /\ ~(p - 1 < q)
    BY <1>2, <1>3, <1>4
  <2>2. t[p - 1].byte = COBS_MARK
    BY <1>2, <1>3, <2>1
  <2>3. ASSUME NEW k \in 1..w PROVE t[(p - 1) + k] = [byte |-> f[k], of |-> n]
    <3>1. (p - 1) + k \in 1..m /\ ((p - 1) + k) + 1 = p + k /\ ~((p - 1) + k < q)
      BY <1>2, <1>3, <1>4, <2>1
    <3> QED BY <1>2, <1>3, <3>1
  <2>4. p - 1 \in Nat
    BY <2>1
  <2> QED BY <1>1, <1>4, <2>1, <2>2, <2>3, <2>4 DEF Spans
<1>5. CASE q > p + w /\ ~(q < p)
  <2>1. p + w <= m /\ p < q
    BY <1>2, <1>3, <1>5
  <2>2. p = 0 \/ t[p].byte = COBS_MARK
    <3> SUFFICES ASSUME p # 0 PROVE t[p].byte = COBS_MARK
      OBVIOUS
    <3>1. p \in 1..m
      BY <1>3, <2>1, <1>2
    <3> QED BY <1>2, <1>3, <2>1, <3>1
  <2>3. ASSUME NEW k \in 1..w PROVE t[p + k] = [byte |-> f[k], of |-> n]
    <3>1. p + k \in 1..m /\ p + k < q
      BY <1>2, <1>3, <1>5, <2>1
    <3> QED BY <1>2, <1>3, <3>1
  <2> QED BY <1>1, <1>3, <1>5, <2>1, <2>2, <2>3 DEF Spans
<1> QED BY <1>2, <1>3, <1>4, <1>5

-----------------------------------------------------------------------------
(* The steps.                                                              *)

\* What the type says of the stream and of frames.
Follows(s, t, l) ==
  /\ s \in Seq(Sendings) /\ Len(s) = Len(t) + Len(l)
  /\ Len(t) \in Nat /\ Len(l) \in Nat /\ Len(s) \in Nat
  /\ \A k \in 1..Len(t) : s[k] = t[k]
  /\ \A k \in 1..Len(l) : s[Len(t) + k] = l[k]
  /\ \A k \in 1..Len(s) : s[k].byte \in Nat /\ s[k].of \in Nat

LEMMA StreamIs ==
  ASSUME NEW t \in Seq(Sendings), NEW l \in Seq(Sendings), NEW s, s = t \o l
  PROVE  Follows(s, t, l)
<1>1. s \in Seq(Sendings) /\ Len(t) \in Nat /\ Len(l) \in Nat /\ Joins(s, t, l)
  BY JoinIs
<1>2. Len(s) \in Nat /\ \A k \in 1..Len(s) : s[k] \in Sendings
  BY <1>1, LenProperties, ElementOfSeq
<1> QED BY <1>1, <1>2 DEF Joins, Sendings, Follows

LEMMA CurrentFacts ==
  ASSUME LinkType, NEW n \in 1..Current
  PROVE  /\ Current \in Nat /\ n \in Nat /\ packets[n] \in Sendable
         /\ Len(FrameOf(n)) \in Nat /\ Len(FrameOf(n)) >= 1
         /\ FrameOf(n)[Len(FrameOf(n))] = COBS_MARK
         /\ \A j \in 1..Len(FrameOf(n)) :
              FrameOf(n)[j] \in Nat /\ (j < Len(FrameOf(n)) => FrameOf(n)[j] # COBS_MARK)
<1>1. Current \in Nat /\ packets[n] \in Sendable
  BY LenProperties, ElementOfSeq DEF LinkType, Current
<1>2. PICK f, l : f = FrameOf(n) /\ l = Len(f)
  OBVIOUS
<1>3. /\ l \in Nat /\ l >= 1 /\ f[l] = COBS_MARK
      /\ \A j \in 1..l : f[j] \in Nat
      /\ \A j \in 1..l : j < l => f[j] # COBS_MARK
  BY <1>1, <1>2, FrameIs DEF FrameOf
<1> QED BY <1>1, <1>2, <1>3

LEMMA PutIs ==
  ASSUME LinkType, NEW n \in 1..Current
  PROVE  Put(n) \in Nat /\ Put(n) <= Len(FrameOf(n))
<1>1. Len(FrameOf(n)) \in Nat
  BY CurrentFacts
<1>2. CASE n = Current /\ sending
  BY <1>1, <1>2 DEF Put, LinkType
<1>3. CASE ~(n = Current /\ sending)
  BY <1>1, <1>3 DEF Put
<1> QED BY <1>2, <1>3

LEMMA GotIs ==
  ASSUME LinkType
  PROVE  Len(got) \in Nat /\ \A i \in 1..Len(got) : got[i].of \in Nat
<1>1. Len(got) \in Nat
  BY LenProperties DEF LinkType
<1>2. ASSUME NEW i \in 1..Len(got) PROVE got[i].of \in Nat
  <2>1. got[i] \in [of : Nat, data : Seq(Nat)]
    BY ElementOfSeq DEF LinkType
  <2> QED BY <2>1
<1> QED BY <1>1, <1>2

LEMMA OnStream == ASSUME LinkType PROVE Follows(stream, temp, line)
<1>1. PICK s : s = stream
  OBVIOUS
<1>2. temp \in Seq(Sendings) /\ line \in Seq(Sendings) /\ s = temp \o line
  BY <1>1 DEF LinkType, stream
<1>3. Follows(s, temp, line)
  BY <1>2, StreamIs
<1> QED BY <1>1, <1>3

\* Where the next packet begins.
LEMMA NextIsClear ==
  ASSUME LinkType, Clear, ~sending \/ written = Len(FrameOf(Current)), Current + 1 \notin hurt,
         NEW f
  PROVE  Spans(stream, f, Current + 1, 0, Len(stream))
<1>1. Len(stream) \in Nat
  BY OnStream DEF Follows
<1>2. stream = <<>> => Len(stream) = 0
  BY EmptySeq
<1>3. Len(stream) = 0 \/ stream[Len(stream)].byte = COBS_MARK
  BY <1>2 DEF Clear
<1>4. PICK l : l = Len(stream)
  OBVIOUS
<1>5. l + 0 <= l
  BY <1>1, <1>4
<1> QED BY <1>1, <1>3, <1>4, <1>5 DEF Spans

\* Steps in which nothing is read or written.
Idle == UNCHANGED <<line, temp, got>>

LEMMA IdleKeeps ==
  ASSUME Idle, LinkType
  PROVE  stream' = stream /\ (NoMarkYet => NoMarkYet')
<1>1. line' = line /\ temp' = temp
  BY DEF Idle
<1> QED BY <1>1 DEF stream, NoMarkYet

\* A new packet.
LEMMA BeginKeeps ==
  ASSUME LinkInv, NEW d \in Sendable, packets' = Append(packets, d), ~sending, sending' = TRUE,
         written' = 0, timed' \in BOOLEAN, pieces' \in Seq(Sendable), hurt' = hurt, Idle
  PROVE  LinkInv'
<1>1. /\ Current \in Nat /\ Current' = Current + 1
      /\ packets' \in Seq(Sendable) /\ packets'[Current + 1] = d
      /\ \A n \in 1..Current : packets'[n] = packets[n]
  BY LenProperties, AppendProperties DEF LinkInv, LinkType, Current
<1>2. \A n \in 1..Current : FrameOf(n)' = FrameOf(n) /\ n # Current + 1 /\ n \in 1..(Current + 1)
  <2> SUFFICES ASSUME NEW n \in 1..Current
               PROVE  FrameOf(n)' = FrameOf(n) /\ n # Current + 1 /\ n \in 1..(Current + 1)
    OBVIOUS
  <2>1. packets'[n] = packets[n]
    BY <1>1
  <2>2. n # Current + 1 /\ n \in 1..(Current + 1)
    BY <1>1
  <2> QED BY <2>1, <2>2 DEF FrameOf
<1>3. FrameOf(Current)' = Frame[d]
  BY <1>1 DEF FrameOf
<1>4. PICK f, l : f = Frame[d] /\ l = Len(f)
  OBVIOUS
<1>5. l \in Nat /\ l >= 1
  BY <1>4, FrameIs
<1>6. stream' = stream /\ got' = got /\ line' = line /\ temp' = temp
  BY IdleKeeps DEF LinkInv, Idle
<1>7. LinkType'
  <2>1. Len(f) \in Nat /\ 0 \in 0..Len(f)
    BY <1>4, <1>5
  <2>2. Current' >= 1 /\ written' \in 0..Len(FrameOf(Current)')
    BY <1>1, <1>3, <1>4, <2>1
  <2> QED BY <1>1, <1>6, <2>2 DEF LinkInv, LinkType
<1>8. Order'
  <2>1. Order
    BY DEF LinkInv
  <2>2. Len(stream) \in Nat /\ \A k \in 1..Len(stream) : stream[k].of \in Nat
    BY OnStream DEF LinkInv, Follows
  <2>3. \A i \in 1..Len(got) : got[i].of \in Nat
    BY GotIs DEF LinkInv
  <2>4. \A i \in 1..Len(got) : got[i].of <= Current + 1
    BY <1>1, <2>1, <2>3 DEF Order
  <2>5. \A k \in 1..Len(stream) : stream[k].of <= Current + 1
    BY <1>1, <2>1, <2>2 DEF Order
  <2> QED BY <1>1, <1>6, <2>1, <2>4, <2>5 DEF Order
<1>9. Unended'
  <2>1. Len(stream) \in Nat /\ \A k \in 1..Len(stream) : stream[k].of \in Nat
    BY OnStream DEF LinkInv, Follows
  <2>2. \A i \in 1..Len(got) : got[i].of \in Nat
    BY GotIs DEF LinkInv
  <2>3. \A i \in 1..Len(got) : got[i].of < Current + 1
    BY <1>1, <2>2 DEF LinkInv, Order
  <2>4. \A k \in 1..Len(stream) : stream[k].of < Current + 1
    BY <1>1, <2>1 DEF LinkInv, Order
  <2> QED BY <1>1, <1>6, <2>3, <2>4 DEF Unended
<1>10. NoMarkYet'
  BY IdleKeeps DEF LinkInv
<1>11. LastWritten'
  BY DEF LastWritten
<1>12. Clear'
  <2>1. ~(0 = l)
    BY <1>5
  <2> QED BY <1>3, <1>4, <2>1 DEF Clear
<1>13. Arrives'
  <2> SUFFICES ASSUME NEW n \in 1..(Current + 1), n \notin hurt PROVE Come(n)' \/ OnTheWay(n)'
    BY <1>1 DEF Arrives
  <2>1. CASE n = Current + 1
    <3>1. Spans(stream, FrameOf(n)', n, 0, Len(stream)) /\ Len(stream) \in Nat
      BY <2>1, NextIsClear, OnStream DEF LinkInv, Follows
    <3>2. Put(n)' = 0 /\ Len(stream) + 0 = Len(stream)
      BY <1>1, <2>1, <3>1 DEF Put
    <3> QED BY <1>6, <3>1, <3>2 DEF OnTheWay
  <2>2. CASE n # Current + 1
    <3>1. n \in 1..Current
      BY <1>1, <2>2
    <3>2. Come(n) \/ OnTheWay(n)
      BY <3>1 DEF LinkInv, Arrives
    <3>3. Put(n)' = Put(n) /\ FrameOf(n)' = FrameOf(n) /\ ~(n = Current') /\ packets'[n] = packets[n]
      BY <1>1, <1>2, <2>2, <3>1 DEF Put
    <3>4. Come(n) => Come(n)'
      BY <1>6, <3>3 DEF Come
    <3>5. OnTheWay(n) => OnTheWay(n)'
      BY <1>6, <3>3 DEF OnTheWay
    <3> QED BY <3>2, <3>4, <3>5
  <2> QED BY <2>1, <2>2
<1> QED BY <1>7, <1>8, <1>9, <1>10, <1>11, <1>12, <1>13 DEF LinkInv

\* A packet that a step leaves where it is.
LEMMA SameArrives ==
  ASSUME NEW n, Come(n) \/ OnTheWay(n), got' = got, stream' = stream,
         FrameOf(n)' = FrameOf(n), packets'[n] = packets[n], Put(n)' = Put(n),
         n = Current' /\ sending' => n = Current /\ sending
  PROVE  Come(n)' \/ OnTheWay(n)'
<1>1. Come(n) => Come(n)'
  BY DEF Come
<1>2. OnTheWay(n) => OnTheWay(n)'
  BY DEF OnTheWay
<1> QED BY <1>1, <1>2

\* The pieces of a large packet are packets to send.
LEMMA LargeKeeps == ASSUME LinkInv, SendLarge PROVE LinkInv'
<1>1. UNCHANGED <<packets, sending, timed, written, line, temp, got, hurt>>
  BY DEF SendLarge
<1>2. pieces' \in Seq(Sendable)
  <2>1. PICK d \in Data \ Small : pieces' = Split(d) \/ pieces' = pieces
    BY DEF SendLarge
  <2>2. CASE pieces' = Split(d)
    <3>1. PICK q : q = Len(d) \div SizeLimit
      OBVIOUS
    <3>2. d \in Seq(Nat) /\ Len(d) \in Nat /\ SizeLimit \in Nat \ {0}
      BY LinkAssumption, LenProperties
    <3>3. q \in Nat
      BY <3>1, <3>2
    <3>4. PICK s : s = Split(d)
      OBVIOUS
    <3>5. DOMAIN s = 1..q /\ s = [i \in 1..q |-> s[i]]
      BY <3>1, <3>4 DEF Split
    <3>6. ASSUME NEW i \in 1..q PROVE s[i] \in Sendable
      <4>1. i \in DOMAIN Split(d) /\ s[i] = Split(d)[i]
        BY <3>4, <3>5
      <4>2. s[i] \in {Split(d)[j] : j \in DOMAIN Split(d)}
        BY <4>1
      <4> QED BY <4>2 DEF Sendable
    <3>7. s \in [1..q -> Sendable]
      BY <3>5, <3>6
    <3> QED BY <2>2, <3>3, <3>4, <3>7, SeqDef
  <2>3. CASE pieces' = pieces
    BY <2>3 DEF LinkInv, LinkType
  <2> QED BY <2>1, <2>2, <2>3
<1>3. stream' = stream /\ Current' = Current /\ \A n : FrameOf(n)' = FrameOf(n) /\ Put(n)' = Put(n)
  BY <1>1 DEF stream, Current, FrameOf, Put
<1>4. LinkType'
  BY <1>1, <1>2, <1>3 DEF LinkInv, LinkType
<1>5. Order' /\ NoMarkYet'
  BY <1>1, <1>3 DEF LinkInv, Order, NoMarkYet
<1>6. Unended' /\ LastWritten' /\ Clear'
  BY <1>1, <1>3 DEF LinkInv, Unended, LastWritten, Clear
<1>7. Arrives'
  <2> SUFFICES ASSUME NEW n \in 1..Current, n \notin hurt PROVE Come(n)' \/ OnTheWay(n)'
    BY <1>1, <1>3 DEF Arrives
  <2>1. Come(n) \/ OnTheWay(n)
    BY DEF LinkInv, Arrives
  <2> QED BY <1>1, <1>3, <2>1, SameArrives
<1> QED BY <1>4, <1>5, <1>6, <1>7 DEF LinkInv

LEMMA SentKeeps == ASSUME LinkInv, Sent PROVE LinkInv'
<1>1. /\ UNCHANGED <<packets, timed, pieces, written, line, temp, got, hurt>>
      /\ sending /\ sending' = FALSE /\ written = Len(FrameOf(Current))
  BY DEF Sent, FrameOf
<1>2. stream' = stream /\ Current' = Current /\ \A n : FrameOf(n)' = FrameOf(n)
  BY <1>1 DEF stream, Current, FrameOf
<1>3. LinkType'
  BY <1>1 DEF LinkInv, LinkType
<1>4. Order' /\ NoMarkYet'
  BY <1>1, <1>2 DEF LinkInv, Order, NoMarkYet
<1>5. Unended' /\ LastWritten'
  BY <1>1 DEF Unended, LastWritten
<1>6. Clear'
  BY <1>1, <1>2 DEF LinkInv, Clear
<1>7. Arrives'
  <2> SUFFICES ASSUME NEW n \in 1..Current, n \notin hurt PROVE Come(n)' \/ OnTheWay(n)'
    BY <1>1, <1>2 DEF Arrives
  <2>1. Come(n) \/ OnTheWay(n)
    BY DEF LinkInv, Arrives
  <2>2. Put(n)' = Put(n)
    BY <1>1, <1>2 DEF Put
  <2> QED BY <1>1, <1>2, <2>1, <2>2, SameArrives
<1> QED BY <1>3, <1>4, <1>5, <1>6, <1>7 DEF LinkInv

\* A frame that is begun again, and one that is given up: the packet is hurt.
LEMMA CutKeeps ==
  ASSUME LinkInv, UNCHANGED <<packets, timed, pieces, line, temp, got>>,
         sending, written < Len(FrameOf(Current)), NEW more, hurt' = (hurt \cup {Current}) \cup more,
         (sending' = TRUE /\ written' = 0) \/ (sending' = FALSE /\ written' = written)
  PROVE  /\ LinkType' /\ Order' /\ Unended' /\ NoMarkYet' /\ LastWritten' /\ Arrives'
         /\ stream' = stream /\ Current' = Current
<1>1. stream' = stream /\ Current' = Current /\ \A n : FrameOf(n)' = FrameOf(n)
  BY DEF stream, Current, FrameOf
<1>2. Current \in Nat /\ Current \in 1..Current
  BY LenProperties DEF LinkInv, LinkType, Current
<1>3. Len(FrameOf(Current)) \in Nat /\ Len(FrameOf(Current)) >= 1
  BY <1>2, CurrentFacts DEF LinkInv
<1>4. PICK f, l : f = FrameOf(Current) /\ l = Len(f)
  OBVIOUS
<1>5. l \in Nat /\ l >= 1 /\ 0 \in 0..l
  BY <1>3, <1>4
<1>6. FrameOf(Current)' = f
  BY <1>1, <1>4
<1>7. LinkType'
  BY <1>1, <1>2, <1>4, <1>5, <1>6 DEF LinkInv, LinkType
<1>8. Order' /\ NoMarkYet'
  BY <1>1 DEF LinkInv, Order, NoMarkYet
<1>9. Unended'
  BY <1>1 DEF LinkInv, Unended
<1>10. LastWritten'
  BY <1>1 DEF LinkInv, LastWritten
<1>11. Arrives'
  <2> SUFFICES ASSUME NEW n \in 1..Current, n \notin hurt' PROVE Come(n)' \/ OnTheWay(n)'
    BY <1>1 DEF Arrives
  <2>1. (Come(n) \/ OnTheWay(n)) /\ n # Current
    BY DEF LinkInv, Arrives
  <2>2. Put(n)' = Put(n)
    BY <1>1, <2>1 DEF Put
  <2> QED BY <1>1, <2>1, <2>2, SameArrives
<1> QED BY <1>1, <1>7, <1>8, <1>9, <1>10, <1>11

LEMMA AgainKeeps == ASSUME LinkInv, WriteAgain PROVE LinkInv'
<1>1. /\ UNCHANGED <<packets, sending, timed, pieces, line, temp, got>>
      /\ sending /\ written' = 0 /\ hurt' = hurt \cup {Current}
      /\ written \in 1..(Len(FrameOf(Current)) - 1)
  BY DEF WriteAgain, Fault, FrameOf
<1>2. Current \in 1..Current
  BY <1>1, LenProperties DEF LinkInv, LinkType, Current
<1>3. Len(FrameOf(Current)) \in Nat /\ Len(FrameOf(Current)) >= 1
  BY <1>2, CurrentFacts DEF LinkInv
<1>4. PICK l : l = Len(FrameOf(Current))
  OBVIOUS
<1>5. written < l /\ ~(0 = l)
  BY <1>1, <1>3, <1>4
<1>6. PICK more : hurt' = (hurt \cup {Current}) \cup more
  BY <1>1
<1>7. sending' = TRUE
  BY <1>1 DEF LinkInv, LinkType
<1>8. /\ LinkType' /\ Order' /\ Unended' /\ NoMarkYet' /\ LastWritten' /\ Arrives'
      /\ Current' = Current
  <2>1. written < Len(FrameOf(Current))
    BY <1>4, <1>5
  <2>2. UNCHANGED <<packets, timed, pieces, line, temp, got>>
    BY <1>1
  <2>3. sending /\ sending' = TRUE /\ written' = 0
    BY <1>1, <1>7
  <2> QED BY <1>6, <2>1, <2>2, <2>3, CutKeeps
<1>9. Clear'
  <2>1. FrameOf(Current)' = FrameOf(Current)
    BY <1>1, <1>8 DEF FrameOf
  <2> QED BY <1>1, <1>4, <1>5, <1>7, <1>8, <2>1 DEF Clear
<1> QED BY <1>8, <1>9 DEF LinkInv

\* Nothing of the packet given up is in front of the next one, unless that is hurt.
LEMMA TimeoutKeeps == ASSUME LinkInv, SendTimeout PROVE LinkInv'
<1> DEFINE more == IF written > 0 \/ Current \in hurt THEN {Current + 1} ELSE {}
<1>1. /\ UNCHANGED <<packets, timed, pieces, written, line, temp, got>>
      /\ sending /\ sending' = FALSE /\ hurt' = (hurt \cup {Current}) \cup more
      /\ written < Len(FrameOf(Current))
  BY DEF SendTimeout, Fault, FrameOf
<1>2. /\ LinkType' /\ Order' /\ Unended' /\ NoMarkYet' /\ LastWritten' /\ Arrives'
      /\ stream' = stream /\ Current' = Current
  <2> HIDE DEF more
  <2> QED BY <1>1, CutKeeps
<1>3. Clear'
  <2> SUFFICES ASSUME Current + 1 \notin hurt'
               PROVE  stream = <<>> \/ stream[Len(stream)].byte = COBS_MARK
    BY <1>2 DEF Clear
  <2>1. ~(written > 0) /\ Current \notin hurt
    BY <1>1
  <2>2. Current \in 1..Current
    BY <1>1, LenProperties DEF LinkInv, LinkType, Current
  <2>3. Len(FrameOf(Current)) \in Nat /\ Put(Current) = written /\ written \in Nat
    BY <1>1, <2>2, CurrentFacts DEF LinkInv, LinkType, Put
  <2>4. written = 0
    BY <2>1, <2>3
  <2>5. OnTheWay(Current)
    <3>1. Put(Current) # Len(FrameOf(Current))
      BY <1>1, <2>3
    <3> QED BY <2>1, <2>2, <3>1 DEF LinkInv, Arrives, Come
  <2>6. PICK p \in Nat : p + 0 = Len(stream) /\ (p = 0 \/ stream[p].byte = COBS_MARK)
    BY <1>1, <2>3, <2>4, <2>5 DEF OnTheWay, Spans
  <2>7. p = Len(stream)
    BY <2>6
  <2>8. CASE p = 0
    BY <2>7, <2>8, EmptySeq, OnStream DEF LinkInv, Follows
  <2> QED BY <2>6, <2>7, <2>8
<1> QED BY <1>2, <1>3 DEF LinkInv

-----------------------------------------------------------------------------
(* What the sender writes.                                                 *)

LEMMA LineGrows ==
  ASSUME NEW t \in Seq(Sendings), NEW l \in Seq(Sendings), NEW x \in Sendings, NEW s, s = t \o l,
         NEW m, m = Append(l, x), NEW u, u = t \o m
  PROVE  m \in Seq(Sendings) /\ u = Append(s, x)
<1>1. m \in Seq(Sendings) /\ Len(m) = Len(l) + 1 /\ m[Len(l) + 1] = x /\ \A k \in 1..Len(l) : m[k] = l[k]
  BY AppendProperties
<1>2. Follows(s, t, l) /\ Follows(u, t, m)
  BY <1>1, StreamIs
<1>3. PICK v : v = Append(s, x)
  OBVIOUS
<1>4. /\ v \in Seq(Sendings) /\ Len(v) = Len(s) + 1 /\ v[Len(s) + 1] = x
      /\ \A k \in 1..Len(s) : v[k] = s[k]
  BY <1>2, <1>3, AppendProperties DEF Follows
<1>5. PICK a, b, c : a = Len(t) /\ b = Len(l) /\ c = Len(s)
  OBVIOUS
<1>6. /\ a \in Nat /\ b \in Nat /\ c = a + b /\ Len(m) = b + 1 /\ Len(u) = c + 1 /\ Len(v) = c + 1
      /\ \A k \in 1..a : s[k] = t[k] /\ u[k] = t[k]
      /\ \A k \in 1..b : s[a + k] = l[k]
      /\ \A k \in 1..(b + 1) : u[a + k] = m[k]
  <2>1. /\ Len(m) = Len(l) + 1 /\ Len(u) = Len(t) + Len(m) /\ Len(s) = Len(t) + Len(l)
        /\ Len(t) \in Nat /\ Len(l) \in Nat
    BY <1>1, <1>2 DEF Follows
  <2>2. a \in Nat /\ b \in Nat /\ c = a + b /\ Len(m) = b + 1 /\ Len(u) = c + 1 /\ Len(v) = c + 1
    BY <1>4, <1>5, <2>1
  <2> QED BY <1>2, <1>5, <2>2 DEF Follows
<1>7. ASSUME NEW k \in 1..(c + 1) PROVE u[k] = v[k]
  <2>1. CASE k = c + 1
    <3>1. b + 1 \in 1..(b + 1) /\ k = a + (b + 1)
      BY <1>6, <2>1
    <3>2. u[k] = m[b + 1] /\ m[b + 1] = x
      BY <1>1, <1>5, <1>6, <3>1
    <3> QED BY <1>4, <1>5, <2>1, <3>2
  <2>2. CASE k \in 1..a
    <3>1. k \in 1..c
      BY <1>6, <2>2
    <3> QED BY <1>4, <1>5, <1>6, <2>2, <3>1
  <2>3. CASE k # c + 1 /\ k \notin 1..a
    <3>1. k \in 1..c /\ k - a \in 1..b /\ k - a \in 1..(b + 1) /\ k = a + (k - a)
      BY <1>6, <2>3
    <3>2. PICK j : j = k - a
      OBVIOUS
    <3>3. s[a + j] = l[j] /\ u[a + j] = m[j] /\ m[j] = l[j]
      BY <1>1, <1>5, <1>6, <3>1, <3>2
    <3>4. a + j = k
      BY <3>1, <3>2
    <3> QED BY <1>4, <1>5, <3>1, <3>3, <3>4
  <2> QED BY <2>1, <2>2, <2>3
<1>8. u \in Seq(Sendings) /\ Len(u) = Len(v) /\ \A k \in 1..Len(u) : u[k] = v[k]
  BY <1>2, <1>6, <1>7 DEF Follows
<1>9. u = v
  BY <1>4, <1>8, SeqEqual
<1> QED BY <1>1, <1>3, <1>9

\* The byte that is written is the next of the frame, on top of the stream.
LEMMA WritingIs ==
  ASSUME LinkInv, WriteByte, NEW x, x = [byte |-> FrameOf(Current)[written + 1], of |-> Current]
  PROVE  /\ UNCHANGED <<packets, sending, timed, pieces, temp, got, hurt>>
         /\ sending /\ written \in Nat /\ written < Len(FrameOf(Current)) /\ written' = written + 1
         /\ x \in Sendings /\ x.of = Current
         /\ x.byte = COBS_MARK <=> written + 1 = Len(FrameOf(Current))
         /\ line' = Append(line, x) /\ line' \in Seq(Sendings) /\ stream' = Append(stream, x)
<1>1. /\ UNCHANGED <<packets, sending, timed, pieces, temp, got, hurt>>
      /\ sending /\ written < Len(FrameOf(Current)) /\ written' = written + 1
      /\ line' = Append(line, x)
  BY DEF WriteByte, FrameOf
<1>2. Current \in 1..Current /\ written \in 0..Len(FrameOf(Current))
  BY <1>1, LenProperties DEF LinkInv, LinkType, Current
<1>3. PICK f, l : f = FrameOf(Current) /\ l = Len(f)
  OBVIOUS
<1>4. /\ Current \in Nat /\ l \in Nat /\ f[l] = COBS_MARK
      /\ \A j \in 1..l : f[j] \in Nat /\ (j < l => f[j] # COBS_MARK)
  BY <1>2, <1>3, CurrentFacts DEF LinkInv
<1>5. written \in Nat /\ written < l /\ written + 1 \in 1..l /\ (written + 1 < l \/ written + 1 = l)
  BY <1>1, <1>2, <1>3, <1>4
<1>6. /\ f[written + 1] \in Nat
      /\ f[written + 1] = COBS_MARK <=> written + 1 = l
  BY <1>4, <1>5
<1>7. x \in Sendings /\ x.of = Current /\ x.byte = f[written + 1]
  BY <1>3, <1>4, <1>6 DEF Sendings
<1>8. line' \in Seq(Sendings) /\ stream' = Append(stream, x)
  <2>1. PICK s, u, m : s = stream /\ u = stream' /\ m = line'
    OBVIOUS
  <2>2. s = temp \o line /\ u = temp \o m /\ m = Append(line, x)
    BY <1>1, <2>1 DEF stream
  <2>3. temp \in Seq(Sendings) /\ line \in Seq(Sendings)
    BY DEF LinkInv, LinkType
  <2>4. m \in Seq(Sendings) /\ u = Append(s, x)
    BY <1>7, <2>2, <2>3, LineGrows
  <2> QED BY <2>1, <2>4
<1> QED BY <1>1, <1>3, <1>5, <1>6, <1>7, <1>8

LEMMA WriteKeeps == ASSUME LinkInv, WriteByte PROVE LinkInv'
<1>1. PICK x : x = [byte |-> FrameOf(Current)[written + 1], of |-> Current]
  OBVIOUS
<1>2. /\ UNCHANGED <<packets, sending, timed, pieces, temp, got, hurt>>
      /\ sending /\ written \in Nat /\ written < Len(FrameOf(Current)) /\ written' = written + 1
      /\ x \in Sendings /\ x.of = Current
      /\ x.byte = COBS_MARK <=> written + 1 = Len(FrameOf(Current))
      /\ line' = Append(line, x) /\ line' \in Seq(Sendings) /\ stream' = Append(stream, x)
  BY <1>1, WritingIs
<1>3. Current' = Current /\ \A n : FrameOf(n)' = FrameOf(n)
  BY <1>2 DEF Current, FrameOf
<1>4. Current \in Nat /\ Current \in 1..Current /\ Len(FrameOf(Current)) \in Nat
  <2>1. Current \in Nat /\ Current \in 1..Current
    BY <1>2, LenProperties DEF LinkInv, LinkType, Current
  <2> QED BY <2>1, CurrentFacts DEF LinkInv
<1>5. PICK f, l : f = FrameOf(Current) /\ l = Len(f)
  OBVIOUS
<1>6. FrameOf(Current)' = f
  BY <1>3, <1>5
<1>7. PICK s, u, c : s = stream /\ u = stream' /\ c = Len(s)
  OBVIOUS
<1>8. /\ c \in Nat /\ s \in Seq(Sendings) /\ \A k \in 1..c : s[k].of \in Nat
      /\ Len(u) = c + 1 /\ u[c + 1] = x /\ \A k \in 1..c : u[k] = s[k]
  <2>1. s \in Seq(Sendings) /\ c \in Nat /\ \A k \in 1..c : s[k].of \in Nat
    BY <1>7, OnStream DEF LinkInv, Follows
  <2>2. u = Append(s, x)
    BY <1>2, <1>7
  <2>3. Len(u) = c + 1 /\ u[c + 1] = x /\ \A k \in 1..c : u[k] = s[k]
    BY <1>2, <1>7, <2>1, <2>2, AppendProperties
  <2> QED BY <2>1, <2>3
<1>9. /\ \A i \in 1..Len(got) : got[i].of \in Nat /\ got[i].of < Current
      /\ \A k \in 1..c : s[k].byte = COBS_MARK => s[k].of < Current
      /\ \A k \in 1..c : s[k].of <= Current
      /\ \A i \in 1..Len(got), k \in 1..c : got[i].of < s[k].of
      /\ \A j, k \in 1..c : j < k /\ s[j].byte = COBS_MARK => s[j].of < s[k].of
      /\ \A i \in 2..Len(got) : got[i - 1].of < got[i].of
      /\ \A i \in 1..Len(got) : got[i].of <= Current
  BY <1>2, <1>7, GotIs DEF LinkInv, Order, Unended
<1>10. LinkType'
  <2>1. written' \in 0..l
    BY <1>2, <1>4, <1>5
  <2>2. Current' >= 1
    BY <1>3, <1>4
  <2> QED BY <1>2, <1>5, <1>6, <2>1, <2>2, <1>3 DEF LinkInv, LinkType
<1>11. Order'
  <2>1. ASSUME NEW k \in 1..(c + 1) PROVE u[k].of <= Current
    <3>1. CASE k = c + 1
      BY <1>2, <1>4, <1>8, <3>1
    <3>2. CASE k # c + 1
      <4>1. k \in 1..c
        BY <1>8, <3>2
      <4> QED BY <1>8, <1>9, <4>1
    <3> QED BY <3>1, <3>2
  <2>2. ASSUME NEW i \in 1..Len(got), NEW k \in 1..(c + 1) PROVE got[i].of < u[k].of
    <3>1. CASE k = c + 1
      BY <1>2, <1>8, <1>9, <3>1
    <3>2. CASE k # c + 1
      <4>1. k \in 1..c
        BY <1>8, <3>2
      <4> QED BY <1>8, <1>9, <4>1
    <3> QED BY <3>1, <3>2
  <2>3. ASSUME NEW j \in 1..(c + 1), NEW k \in 1..(c + 1), j < k, u[j].byte = COBS_MARK
        PROVE  u[j].of < u[k].of
    <3>1. j \in 1..c /\ u[j] = s[j]
      BY <1>8, <2>3
    <3>2. CASE k = c + 1
      BY <1>2, <1>8, <1>9, <2>3, <3>1, <3>2
    <3>3. CASE k # c + 1
      <4>1. k \in 1..c
        BY <1>8, <3>3
      <4> QED BY <1>8, <1>9, <2>3, <3>1, <4>1
    <3> QED BY <3>2, <3>3
  <2>4. got' = got /\ stream' = u /\ Len(u) = c + 1
    BY <1>2, <1>7, <1>8
  <2> QED BY <1>3, <1>9, <2>1, <2>2, <2>3, <2>4 DEF Order
<1>12. Unended'
  <2> SUFFICES ASSUME written + 1 < l
               PROVE  /\ \A i \in 1..Len(got) : got[i].of < Current
                      /\ \A k \in 1..(c + 1) : u[k].byte = COBS_MARK => u[k].of < Current
    <3>1. got' = got /\ stream' = u /\ Len(u) = c + 1 /\ Len(FrameOf(Current)') = l
      BY <1>2, <1>5, <1>6, <1>7, <1>8
    <3> QED BY <1>2, <1>3, <3>1 DEF Unended
  <2>1. x.byte # COBS_MARK
    BY <1>2, <1>4, <1>5
  <2> QED BY <1>8, <1>9, <2>1
<1>13. NoMarkYet'
  BY <1>2 DEF LinkInv, NoMarkYet
<1>14. LastWritten'
  <2>1. PICK m, w : m = line' /\ w = written'
    OBVIOUS
  <2>2. m[Len(m)] = x
    <3>1. line \in Seq(Sendings)
      BY DEF LinkInv, LinkType
    <3>2. m = Append(line, x)
      BY <1>2, <2>1
    <3> QED BY <1>2, <3>1, <3>2, AppendProperties
  <2>3. x = [byte |-> FrameOf(Current)'[w], of |-> Current']
    BY <1>1, <1>2, <1>3, <2>1
  <2> QED BY <2>1, <2>2, <2>3 DEF LastWritten
<1>15. Clear'
  <2> SUFFICES ASSUME written + 1 = l PROVE u[c + 1].byte = COBS_MARK
    BY <1>2, <1>5, <1>6, <1>3, <1>7, <1>8 DEF Clear, LinkInv, LinkType
  <2> QED BY <1>2, <1>5, <1>8
<1>16. Arrives'
  <2> SUFFICES ASSUME NEW n \in 1..Current, n \notin hurt PROVE Come(n)' \/ OnTheWay(n)'
    BY <1>2, <1>3 DEF Arrives
  <2>1. Come(n) \/ OnTheWay(n)
    BY DEF LinkInv, Arrives
  <2>2. FrameOf(n)' = FrameOf(n) /\ packets' = packets /\ got' = got
    BY <1>2, <1>3
  <2>3. CASE n = Current
    <3>1. Put(n) = written /\ ~(Put(n) = Len(FrameOf(n)))
      BY <1>2, <1>4, <2>3 DEF Put
    <3>2. PICK p \in Nat : Spans(s, f, n, written, p) /\ p + written = c
      BY <1>2, <1>5, <1>7, <2>1, <2>3, <3>1 DEF OnTheWay, Come
    <3>3. u = Append(s, x) /\ x = [byte |-> f[written + 1], of |-> n] /\ p + written = Len(s)
      BY <1>1, <1>2, <1>5, <1>7, <2>3, <3>2
    <3>4. Spans(u, f, n, written + 1, p)
      BY <1>2, <1>8, <3>2, <3>3, SpansMore
    <3>5. p + (written + 1) = c + 1
      BY <1>2, <1>8, <3>2
    <3>6. Put(n)' = written + 1 /\ FrameOf(n)' = f /\ stream' = u /\ Len(u) = c + 1
      BY <1>2, <1>3, <1>6, <1>7, <1>8, <2>3 DEF Put
    <3> QED BY <3>4, <3>5, <3>6 DEF OnTheWay
  <2>4. CASE n # Current
    <3>1. Put(n)' = Put(n) /\ n # Current'
      BY <1>3, <2>4 DEF Put
    <3>2. Come(n) => Come(n)'
      BY <2>2, <3>1 DEF Come
    <3>3. OnTheWay(n) => OnTheWay(n)'
      <4> SUFFICES ASSUME OnTheWay(n) PROVE OnTheWay(n)'
        OBVIOUS
      <4>1. PICK g, w : g = FrameOf(n) /\ w = Put(n)
        OBVIOUS
      <4>2. PICK p \in Nat : Spans(s, g, n, w, p)
        BY <1>7, <4>1 DEF OnTheWay
      <4>3. w \in Nat
        BY <4>1, PutIs DEF LinkInv
      <4>4. u = Append(s, x)
        BY <1>2, <1>7
      <4>5. Spans(u, g, n, w, p)
        BY <1>2, <1>8, <4>2, <4>3, <4>4, SpansMore
      <4>6. Spans(stream', FrameOf(n)', n, Put(n)', p)
        BY <1>7, <2>2, <3>1, <4>1, <4>5
      <4> QED BY <3>1, <4>2, <4>6 DEF OnTheWay
    <3> QED BY <2>1, <3>2, <3>3
  <2> QED BY <2>3, <2>4
<1> QED BY <1>10, <1>11, <1>12, <1>13, <1>14, <1>15, <1>16 DEF LinkInv

-----------------------------------------------------------------------------
(* The line and recv: the sender stays as it is.                           *)

SenderStays == UNCHANGED <<packets, sending, timed, pieces, written>>

LEMMA StaysSame ==
  ASSUME SenderStays
  PROVE  Current' = Current /\ \A n : FrameOf(n)' = FrameOf(n) /\ Put(n)' = Put(n)
  BY DEF SenderStays, Current, FrameOf, Put

\* What follows from bytes being taken from the stream, whichever they are.
Thins(t, s) ==
  \E at \in [1..Len(t) -> 1..Len(s)] :
    /\ \A k \in 1..Len(t) : t[k] = s[at[k]]
    /\ \A j, k \in 1..Len(t) : j < k => at[j] < at[k]

LEMMA RestsThin ==
  ASSUME NEW s, NEW t, Len(s) \in Nat, Len(t) \in Nat, NEW q \in Nat, Rests(t, s, q)
  PROVE  Thins(t, s)
<1>1. PICK l, m : l = Len(s) /\ m = Len(t)
  OBVIOUS
<1>2. l \in Nat /\ m = l - q /\ m \in Nat /\ \A k \in 1..m : t[k] = s[k + q]
  BY <1>1 DEF Rests
<1> DEFINE at == [k \in 1..m |-> k + q]
<1>3. at \in [1..m -> 1..l]
  BY <1>2
<1>4. /\ \A k \in 1..m : t[k] = s[at[k]]
      /\ \A j, k \in 1..m : j < k => at[j] < at[k]
  BY <1>2
<1> HIDE DEF at
<1> QED BY <1>1, <1>3, <1>4 DEF Thins

LEMMA WithoutThins ==
  ASSUME NEW s, NEW t, Len(s) \in Nat, Len(t) \in Nat, NEW q, Without(t, s, q)
  PROVE  Thins(t, s)
<1>1. PICK l, m : l = Len(s) /\ m = Len(t)
  OBVIOUS
<1>2. /\ l \in Nat /\ m = l - 1 /\ m \in Nat /\ q \in 1..l
      /\ \A k \in 1..m : t[k] = IF k < q THEN s[k] ELSE s[k + 1]
  BY <1>1 DEF Without
<1> DEFINE at == [k \in 1..m |-> IF k < q THEN k ELSE k + 1]
<1>3. at \in [1..m -> 1..l]
  BY <1>2
<1>4. /\ \A k \in 1..m : t[k] = s[at[k]]
      /\ \A j, k \in 1..m : j < k => at[j] < at[k]
  BY <1>2
<1> HIDE DEF at
<1> QED BY <1>1, <1>3, <1>4 DEF Thins

LEMMA TakenKeepsOrder ==
  ASSUME LinkInv, SenderStays, got' = got, Thins(stream', stream)
  PROVE  Order' /\ Unended'
<1>1. PICK s, u : s = stream /\ u = stream'
  OBVIOUS
<1>2. PICK l, m : l = Len(s) /\ m = Len(u)
  OBVIOUS
<1>3. PICK at \in [1..m -> 1..l] :
        /\ \A k \in 1..m : u[k] = s[at[k]]
        /\ \A j, k \in 1..m : j < k => at[j] < at[k]
  BY <1>1, <1>2 DEF Thins
<1>4. Current' = Current /\ FrameOf(Current)' = FrameOf(Current)
  BY DEF SenderStays, Current, FrameOf
<1>5. Order'
  <2>1. /\ \A i \in 2..Len(got) : got[i - 1].of < got[i].of
        /\ \A i \in 1..Len(got) : got[i].of <= Current
        /\ \A k \in 1..l : s[k].of <= Current
        /\ \A i \in 1..Len(got), k \in 1..l : got[i].of < s[k].of
        /\ \A j, k \in 1..l : j < k /\ s[j].byte = COBS_MARK => s[j].of < s[k].of
    BY <1>1, <1>2 DEF LinkInv, Order
  <2>2. \A k \in 1..m : u[k].of <= Current
    BY <1>3, <2>1
  <2>3. \A i \in 1..Len(got), k \in 1..m : got[i].of < u[k].of
    BY <1>3, <2>1
  <2>4. \A j, k \in 1..m : j < k /\ u[j].byte = COBS_MARK => u[j].of < u[k].of
    BY <1>3, <2>1
  <2>5. got' = got /\ stream' = u /\ Len(u) = m
    BY <1>1, <1>2
  <2> QED BY <1>4, <2>1, <2>2, <2>3, <2>4, <2>5 DEF Order
<1>6. Unended'
  <2> SUFFICES ASSUME sending, written < Len(FrameOf(Current))
               PROVE  /\ \A i \in 1..Len(got) : got[i].of < Current
                      /\ \A k \in 1..m : u[k].byte = COBS_MARK => u[k].of < Current
    BY <1>1, <1>2, <1>4 DEF Unended, SenderStays
  <2>1. /\ \A i \in 1..Len(got) : got[i].of < Current
        /\ \A k \in 1..l : s[k].byte = COBS_MARK => s[k].of < Current
    BY <1>1, <1>2 DEF LinkInv, Unended
  <2> QED BY <1>3, <2>1
<1> QED BY <1>5, <1>6

\* The byte at the head of the line.
LEMMA HeadIs ==
  ASSUME LinkInv, line # <<>>, NEW q, q = Len(temp) + 1
  PROVE  /\ q \in 1..Len(stream) /\ Len(line) >= 1 /\ Len(stream) = q + Len(line) - 1
         /\ line[1] \in Sendings /\ line[1] = stream[q] /\ Head(line) = line[1]
         /\ line[Len(line)] = stream[Len(stream)]
         /\ Len(line) > 1 => line[2] = stream[q + 1]
         /\ Tail(line) \in Seq(Sendings) /\ Len(Tail(line)) = Len(line) - 1
         /\ \A k \in 1..(Len(line) - 1) : Tail(line)[k] = line[k + 1]
<1>1. PICK a, b, c : a = Len(temp) /\ b = Len(line) /\ c = Len(stream)
  OBVIOUS
<1>2. /\ a \in Nat /\ b \in Nat /\ c = a + b /\ c \in Nat
      /\ \A k \in 1..b : stream[a + k] = line[k]
  BY <1>1, OnStream DEF LinkInv, Follows
<1>3. line \in Seq(Sendings)
  BY DEF LinkInv, LinkType
<1>4. b # 0
  BY <1>1, <1>3, EmptySeq
<1>5. b >= 1 /\ q \in 1..c /\ c = q + b - 1 /\ 1 \in 1..b /\ b \in 1..b /\ q = a + 1 /\ c = a + b
  BY <1>1, <1>2, <1>4
<1>6. line[1] = stream[q] /\ line[b] = stream[c] /\ line[1] \in Sendings
  BY <1>1, <1>2, <1>3, <1>5, ElementOfSeq
<1>7. b > 1 => line[2] = stream[q + 1]
  <2> SUFFICES ASSUME b > 1 PROVE line[2] = stream[q + 1]
    OBVIOUS
  <2>1. 2 \in 1..b /\ q + 1 = a + 2
    BY <1>2, <1>5
  <2> QED BY <1>2, <2>1
<1>8. /\ Head(line) = line[1] /\ Tail(line) \in Seq(Sendings) /\ Len(Tail(line)) = b - 1
      /\ \A k \in 1..(b - 1) : Tail(line)[k] = line[k + 1]
  BY <1>1, <1>3, HeadTailProperties
<1> QED BY <1>1, <1>5, <1>6, <1>7, <1>8

\* The byte at its end stays where it is, unless it is the only one.
LEMMA EndStays ==
  ASSUME LinkInv, line # <<>>, NEW m, m = Tail(line)
  PROVE  /\ Len(line) = 1 <=> m = <<>>
         /\ Len(line) # 1 => m[Len(m)] = line[Len(line)]
<1>1. PICK b : b = Len(line)
  OBVIOUS
<1>2. b >= 1 /\ m \in Seq(Sendings) /\ Len(m) = b - 1 /\ \A k \in 1..(b - 1) : m[k] = line[k + 1]
  BY <1>1, HeadIs
<1>3. b \in Nat
  BY <1>1, OnStream DEF LinkInv, Follows
<1>4. Len(m) = 0 <=> m = <<>>
  BY <1>2, EmptySeq
<1>5. b # 1 => m[b - 1] = line[b]
  <2> SUFFICES ASSUME b # 1 PROVE m[b - 1] = line[b]
    OBVIOUS
  <2>1. b - 1 \in 1..(b - 1) /\ (b - 1) + 1 = b
    BY <1>2, <1>3
  <2> QED BY <1>2, <2>1
<1>6. b = 1 <=> m = <<>>
  BY <1>2, <1>3, <1>4
<1> QED BY <1>1, <1>2, <1>5, <1>6

LEMMA TailKeepsLast ==
  ASSUME LinkInv, SenderStays, line # <<>>, line' = Tail(line)
  PROVE  LastWritten'
<1> SUFFICES ASSUME sending, written > 0, line' # <<>>
             PROVE  line'[Len(line')] = [byte |-> FrameOf(Current)[written], of |-> Current]
  <2>1. FrameOf(Current)' = FrameOf(Current) /\ Current' = Current
    BY DEF SenderStays, Current, FrameOf
  <2> QED BY <2>1 DEF LastWritten, SenderStays
<1>1. PICK m : m = line'
  OBVIOUS
<1>2. m[Len(m)] = line[Len(line)]
  BY <1>1, EndStays
<1> QED BY <1>1, <1>2 DEF LinkInv, LastWritten

LEMMA TailWithout ==
  ASSUME LinkInv, line # <<>>, line' = Tail(line), temp' = temp
  PROVE  Len(stream') \in Nat /\ line' \in Seq(Sendings) /\ Without(stream', stream, Len(temp) + 1)
<1>1. PICK m, s, u : m = line' /\ s = stream /\ u = stream'
  OBVIOUS
<1>2. PICK a, b, c : a = Len(temp) /\ b = Len(line) /\ c = Len(s)
  OBVIOUS
<1>3. /\ m \in Seq(Sendings) /\ Len(m) = b - 1 /\ b >= 1
      /\ \A k \in 1..(b - 1) : m[k] = line[k + 1]
  BY <1>1, <1>2, HeadIs
<1>4. /\ a \in Nat /\ b \in Nat /\ c = a + b
      /\ \A k \in 1..a : s[k] = temp[k]
      /\ \A k \in 1..b : s[a + k] = line[k]
  BY <1>1, <1>2, OnStream DEF LinkInv, Follows
<1>5. Follows(u, temp, m)
  <2>1. u = temp \o m /\ temp \in Seq(Sendings)
    BY <1>1 DEF stream, LinkInv, LinkType
  <2> QED BY <1>3, <2>1, StreamIs
<1>6. /\ Len(u) = a + b - 1 /\ Len(u) \in Nat
      /\ \A k \in 1..a : u[k] = temp[k]
      /\ \A k \in 1..(b - 1) : u[a + k] = m[k]
  BY <1>2, <1>3, <1>4, <1>5 DEF Follows
<1>7. a + 1 \in 1..c /\ Len(u) = c - 1
  BY <1>3, <1>4, <1>6
<1>8. ASSUME NEW k \in 1..(c - 1) PROVE u[k] = IF k < a + 1 THEN s[k] ELSE s[k + 1]
  <2>1. CASE k \in 1..a
    <3>1. k < a + 1
      BY <1>4, <2>1
    <3> QED BY <1>4, <1>6, <2>1, <3>1
  <2>2. CASE k \notin 1..a
    <3>1. PICK j : j = k - a
      OBVIOUS
    <3>2. /\ j \in 1..(b - 1) /\ j + 1 \in 1..b /\ a + j = k /\ a + (j + 1) = k + 1
          /\ ~(k < a + 1)
      BY <1>3, <1>4, <2>2, <3>1
    <3>3. u[a + j] = m[j] /\ m[j] = line[j + 1] /\ s[a + (j + 1)] = line[j + 1]
      BY <1>3, <1>4, <1>6, <3>2
    <3> QED BY <3>2, <3>3
  <2> QED BY <2>1, <2>2
<1>9. Without(u, s, a + 1)
  BY <1>2, <1>7, <1>8 DEF Without
<1> QED BY <1>1, <1>2, <1>3, <1>6, <1>9

\* A byte that is lost.
LEMMA LosingIs ==
  ASSUME LinkInv, LoseByte, NEW x, x = Head(line)
  PROVE  /\ SenderStays /\ temp' = temp /\ got' = got /\ line # <<>> /\ line' = Tail(line)
         /\ x.of \in hurt' /\ hurt \subseteq hurt'
         /\ x.byte = COBS_MARK => Behind(x.of) \in hurt'
  BY DEF LoseByte, SenderStays, sender, Fault

LEMMA LostKeepsClear == ASSUME LinkInv, LoseByte PROVE Clear'
<1>1. PICK x : x = Head(line)
  OBVIOUS
<1>2. /\ SenderStays /\ temp' = temp /\ line # <<>> /\ line' = Tail(line) /\ hurt \subseteq hurt'
      /\ x.byte = COBS_MARK => Behind(x.of) \in hurt'
  BY <1>1, LosingIs
<1>3. Current' = Current /\ FrameOf(Current)' = FrameOf(Current) /\ sending' = sending /\ written' = written
  BY <1>2 DEF SenderStays, Current, FrameOf
<1> SUFFICES ASSUME ~sending \/ written = Len(FrameOf(Current)), Current + 1 \notin hurt'
             PROVE  stream' = <<>> \/ stream'[Len(stream')].byte = COBS_MARK
  BY <1>3 DEF Clear
<1>4. PICK m, s, u : m = line' /\ s = stream /\ u = stream'
  OBVIOUS
<1>5. PICK q, b, c : q = Len(temp) + 1 /\ b = Len(line) /\ c = Len(s)
  OBVIOUS
<1>6. /\ q \in 1..c /\ b >= 1 /\ c = q + b - 1
      /\ x = line[1] /\ line[1] = s[q] /\ line[b] = s[c] /\ x \in Sendings
  BY <1>1, <1>2, <1>4, <1>5, HeadIs
<1>7. c \in Nat /\ b \in Nat /\ q \in Nat
  BY <1>4, <1>5, <1>6, OnStream DEF LinkInv, Follows
<1>8. s[c].byte = COBS_MARK
  <2>1. s # <<>>
    <3> SUFFICES ASSUME s = <<>> PROVE FALSE
      OBVIOUS
    <3>1. c = 0
      BY <1>5, EmptySeq
    <3> QED BY <1>6, <3>1
  <2>2. Current + 1 \notin hurt
    BY <1>2
  <2> QED BY <1>4, <1>5, <2>1, <2>2 DEF LinkInv, Clear
<1>9. CASE b = 1
  <2>1. c = q /\ x.byte = COBS_MARK
    BY <1>6, <1>7, <1>8, <1>9
  <2>2. Behind(x.of) \in hurt'
    BY <1>2, <2>1
  <2>3. Behind(x.of) = Current + 1
    <3>1. CASE sending /\ Current > x.of
      <4>1. Len(FrameOf(Current)) >= 1 /\ Len(FrameOf(Current)) \in Nat /\ written = Len(FrameOf(Current))
        <5>1. Current \in 1..Current
          BY <3>1, LenProperties DEF LinkInv, LinkType, Current
        <5> QED BY <3>1, <5>1, CurrentFacts DEF LinkInv
      <4>2. written > 0
        <5>1. PICK l : l = Len(FrameOf(Current))
          OBVIOUS
        <5> QED BY <4>1, <5>1
      <4>3. x = [byte |-> FrameOf(Current)[written], of |-> Current]
        BY <1>2, <1>5, <1>6, <1>9, <3>1, <4>2 DEF LinkInv, LastWritten
      <4>4. x.of = Current /\ Current \in Nat
        BY <4>3, LenProperties DEF LinkInv, LinkType, Current
      <4> QED BY <3>1, <4>4
    <3>2. CASE ~(sending /\ Current > x.of)
      BY <1>5, <1>9, <3>2 DEF Behind
    <3> QED BY <3>1, <3>2
  <2> QED BY <2>2, <2>3
<1>10. CASE b # 1
  <2>1. Without(u, s, q) /\ Len(u) \in Nat
    BY <1>2, <1>4, <1>5, TailWithout
  <2>2. /\ Len(u) = c - 1
        /\ \A k \in 1..(c - 1) : u[k] = IF k < q THEN s[k] ELSE s[k + 1]
    BY <1>5, <2>1 DEF Without
  <2>3. c - 1 \in 1..(c - 1) /\ ~(c - 1 < q) /\ (c - 1) + 1 = c
    BY <1>6, <1>7, <1>10
  <2>4. u[c - 1] = s[c]
    BY <2>2, <2>3
  <2> QED BY <1>4, <1>8, <2>2, <2>4
<1> QED BY <1>9, <1>10

\* What it was part of is hurt, and so is what it stood in front of.
LEMMA LostKeepsArrives == ASSUME LinkInv, LoseByte PROVE Arrives'
<1>1. PICK x : x = Head(line)
  OBVIOUS
<1>2. /\ SenderStays /\ temp' = temp /\ got' = got /\ line # <<>> /\ line' = Tail(line)
      /\ x.of \in hurt' /\ hurt \subseteq hurt'
      /\ x.byte = COBS_MARK => Behind(x.of) \in hurt'
  BY <1>1, LosingIs
<1>3. Current' = Current /\ sending' = sending /\ packets' = packets
  BY <1>2 DEF SenderStays, Current
<1> SUFFICES ASSUME NEW n \in 1..Current, n \notin hurt' PROVE Come(n)' \/ OnTheWay(n)'
  BY <1>3 DEF Arrives
<1>4. FrameOf(n)' = FrameOf(n) /\ Put(n)' = Put(n)
  BY <1>2, StaysSame
<1>5. Come(n) => Come(n)'
  BY <1>2, <1>3, <1>4 DEF Come
<1>6. ASSUME OnTheWay(n) PROVE OnTheWay(n)'
  <2>1. PICK s, u, f, w : s = stream /\ u = stream' /\ f = FrameOf(n) /\ w = Put(n)
    OBVIOUS
  <2>2. PICK q, b, c : q = Len(temp) + 1 /\ b = Len(line) /\ c = Len(s)
    OBVIOUS
  <2>3. PICK p \in Nat : Spans(s, f, n, w, p) /\ (n = Current /\ sending => p + w = c)
    BY <1>6, <2>1, <2>2 DEF OnTheWay
  <2>4. /\ q \in 1..c /\ b >= 1 /\ c = q + b - 1
        /\ x = s[q] /\ (b > 1 => line[2] = s[q + 1])
    BY <1>1, <1>2, <2>1, <2>2, HeadIs
  <2>5. c \in Nat /\ b \in Nat /\ q \in Nat /\ w \in Nat
    BY <2>1, <2>2, <2>4, OnStream, PutIs DEF LinkInv, Follows
  <2>6. /\ p + w <= c
        /\ \A k \in 1..w : s[p + k] = [byte |-> f[k], of |-> n]
        /\ (p = 0 \/ s[p].byte = COBS_MARK)
    BY <2>2, <2>3 DEF Spans
  <2>7. w = 0 => n = Current /\ sending /\ w < Len(f)
    <3> SUFFICES ASSUME w = 0 PROVE n = Current /\ sending /\ w < Len(f)
      OBVIOUS
    <3>1. Len(f) \in Nat /\ Len(f) >= 1
      BY <2>1, CurrentFacts DEF LinkInv
    <3>2. n = Current /\ sending
      BY <2>1, <3>1 DEF Put
    <3>3. PICK l : l = Len(f)
      OBVIOUS
    <3> QED BY <3>1, <3>2, <3>3
  <2>8. ~(q \in (p + 1)..(p + w))
    <3> SUFFICES ASSUME q \in (p + 1)..(p + w) PROVE FALSE
      OBVIOUS
    <3>1. q - p \in 1..w /\ p + (q - p) = q
      BY <2>5
    <3>2. s[q] = [byte |-> f[q - p], of |-> n]
      BY <2>6, <3>1
    <3> QED BY <1>2, <2>4, <3>2
  <2>9. q # p
    <3> SUFFICES ASSUME q = p PROVE FALSE
      OBVIOUS
    <3>1. x.byte = COBS_MARK
      BY <2>4, <2>5, <2>6
    <3>2. Behind(x.of) \in hurt'
      BY <1>2, <3>1
    <3>3. CASE w = 0
      <4>1. n = Current /\ sending /\ p + w = c /\ w < Len(f)
        BY <2>3, <2>7, <3>3
      <4>2. b = 1
        BY <2>4, <2>5, <3>3, <4>1
      <4>3. x.of < Current
        <5>1. w = written /\ written < Len(FrameOf(Current))
          BY <2>1, <4>1 DEF Put
        <5> QED BY <2>1, <2>2, <2>4, <3>1, <4>1, <5>1 DEF LinkInv, Unended
      <4>4. Behind(x.of) = Current
        <5>1. Current \in Nat /\ x.of \in Nat
          <6>1. Current \in Nat
            BY LenProperties DEF LinkInv, LinkType, Current
          <6> QED BY <2>1, <2>2, <2>4, <6>1, OnStream DEF LinkInv, Follows
        <5>2. Current > x.of
          BY <4>3, <5>1
        <5> QED BY <2>2, <4>1, <4>2, <5>2 DEF Behind
      <4> QED BY <3>2, <4>1, <4>4
    <3>4. CASE w # 0
      <4>1. 1 \in 1..w /\ b > 1
        BY <2>4, <2>5, <2>6, <3>4
      <4>2. s[p + 1] = [byte |-> f[1], of |-> n]
        BY <2>6, <4>1
      <4>3. Behind(x.of) = line[2].of
        BY <2>2, <4>1 DEF Behind
      <4>4. line[2].of = n
        BY <2>4, <4>1, <4>2
      <4> QED BY <3>2, <4>3, <4>4
    <3> QED BY <3>3, <3>4
  <2>10. q < p \/ q > p + w
    BY <2>5, <2>8, <2>9
  <2>11. PICK r : r = IF q < p THEN p - 1 ELSE p
    OBVIOUS
  <2>12. Without(u, s, q) /\ Len(u) \in Nat
    BY <1>2, <2>1, <2>2, TailWithout
  <2>13. Spans(u, f, n, w, r)
    BY <2>2, <2>3, <2>5, <2>10, <2>11, <2>12, SpansWithout
  <2>14. r \in Nat /\ (n = Current /\ sending => r + w = Len(u))
    <3>1. Len(u) = c - 1
      BY <2>2, <2>12 DEF Without
    <3>2. r \in Nat
      BY <2>13 DEF Spans
    <3>3. p + w = c => q < p
      BY <2>4, <2>5, <2>10
    <3>4. p + w = c => r + w = c - 1
      BY <2>5, <2>11, <3>3
    <3> QED BY <2>3, <3>1, <3>2, <3>4
  <2> QED BY <1>3, <1>4, <2>1, <2>13, <2>14 DEF OnTheWay
<1>7. Come(n) \/ OnTheWay(n)
  BY <1>2 DEF LinkInv, Arrives
<1> QED BY <1>5, <1>6, <1>7

LEMMA LoseKeeps == ASSUME LinkInv, LoseByte PROVE LinkInv'
<1>1. /\ SenderStays /\ temp' = temp /\ got' = got /\ line # <<>> /\ line' = Tail(line)
  BY LosingIs
<1>2. line' \in Seq(Sendings) /\ Len(stream') \in Nat /\ Without(stream', stream, Len(temp) + 1)
  BY <1>1, TailWithout
<1>3. Current' = Current /\ \A n : FrameOf(n)' = FrameOf(n) /\ Put(n)' = Put(n)
  BY <1>1, StaysSame
<1>4. LinkType'
  BY <1>1, <1>2, <1>3 DEF LinkInv, LinkType, SenderStays
<1>5. Order' /\ Unended'
  <2>1. PICK s, u, q : s = stream /\ u = stream' /\ q = Len(temp) + 1
    OBVIOUS
  <2>2. Len(s) \in Nat /\ Len(u) \in Nat /\ Without(u, s, q)
    BY <1>2, <2>1, OnStream DEF LinkInv, Follows
  <2>3. Thins(u, s)
    BY <2>2, WithoutThins
  <2> QED BY <1>1, <2>1, <2>3, TakenKeepsOrder
<1>6. NoMarkYet' /\ LastWritten'
  BY <1>1, TailKeepsLast DEF LinkInv, NoMarkYet
<1> QED BY <1>4, <1>5, <1>6, LostKeepsClear, LostKeepsArrives DEF LinkInv

\* A byte that is read moves from the line to recv.
LEMMA MovesIs ==
  ASSUME NEW t \in Seq(Sendings), NEW l \in Seq(Sendings), l # <<>>, NEW s, s = t \o l,
         NEW t2, t2 = Append(t, Head(l)), NEW l2, l2 = Tail(l), NEW u, u = t2 \o l2
  PROVE  t2 \in Seq(Sendings) /\ l2 \in Seq(Sendings) /\ u = s
<1>1. PICK a, b : a = Len(t) /\ b = Len(l)
  OBVIOUS
<1>2. PICK x : x = Head(l)
  OBVIOUS
<1>3. Follows(s, t, l)
  BY StreamIs
<1>4. /\ a \in Nat /\ b \in Nat /\ s \in Seq(Sendings) /\ Len(s) = a + b
      /\ \A k \in 1..a : s[k] = t[k]
      /\ \A k \in 1..b : s[a + k] = l[k]
  BY <1>1, <1>3 DEF Follows
<1>5. b # 0
  BY <1>1, EmptySeq
<1>6. /\ x = l[1] /\ l2 \in Seq(Sendings) /\ Len(l2) = b - 1
      /\ \A k \in 1..(b - 1) : l2[k] = l[k + 1]
  BY <1>1, <1>2, HeadTailProperties
<1>7. x \in Sendings
  <2>1. 1 \in 1..b
    BY <1>4, <1>5
  <2> QED BY <1>1, <1>6, <2>1, ElementOfSeq
<1>8. /\ t2 \in Seq(Sendings) /\ Len(t2) = a + 1 /\ t2[a + 1] = x
      /\ \A k \in 1..a : t2[k] = t[k]
  <2>1. t2 = Append(t, x)
    BY <1>2
  <2> QED BY <1>1, <1>7, <2>1, AppendProperties
<1>9. Follows(u, t2, l2)
  BY <1>6, <1>8, StreamIs
<1>10. /\ u \in Seq(Sendings) /\ Len(u) = a + b
       /\ \A k \in 1..(a + 1) : u[k] = t2[k]
       /\ \A k \in 1..(b - 1) : u[(a + 1) + k] = l2[k]
  <2>1. Len(u) = Len(t2) + Len(l2)
    BY <1>9 DEF Follows
  <2>2. Len(u) = (a + 1) + (b - 1)
    BY <1>6, <1>8, <2>1
  <2>3. (a + 1) + (b - 1) = a + b
    BY <1>4
  <2>4. Len(u) = a + b
    BY <2>2, <2>3
  <2> QED BY <1>6, <1>8, <1>9, <2>4 DEF Follows
<1>11. ASSUME NEW k \in 1..(a + b) PROVE u[k] = s[k]
  <2>1. CASE k \in 1..a
    <3>1. k \in 1..(a + 1)
      BY <1>4, <2>1
    <3> QED BY <1>4, <1>8, <1>10, <2>1, <3>1
  <2>2. CASE k = a + 1
    <3>1. a + 1 \in 1..(a + 1) /\ 1 \in 1..b
      BY <1>4, <1>5
    <3>2. u[a + 1] = x /\ s[a + 1] = x
      BY <1>4, <1>6, <1>8, <1>10, <3>1
    <3> QED BY <2>2, <3>2
  <2>3. CASE k \notin 1..(a + 1)
    <3>1. PICK j : j = k - (a + 1)
      OBVIOUS
    <3>2. j \in 1..(b - 1) /\ j + 1 \in 1..b /\ (a + 1) + j = k /\ a + (j + 1) = k
      BY <1>4, <1>5, <2>3, <3>1
    <3>3. u[(a + 1) + j] = l2[j] /\ l2[j] = l[j + 1] /\ s[a + (j + 1)] = l[j + 1]
      BY <1>4, <1>6, <1>10, <3>2
    <3> QED BY <3>2, <3>3
  <2>4. k \in 1..a \/ k = a + 1 \/ k \notin 1..(a + 1)
    BY <1>4
  <2> QED BY <2>1, <2>2, <2>3, <2>4
<1>12. u = s
  <2>1. Len(u) = Len(s) /\ \A k \in 1..Len(u) : u[k] = s[k]
    BY <1>4, <1>10, <1>11
  <2> QED BY <1>4, <1>10, <2>1, SeqEqual
<1> QED BY <1>6, <1>8, <1>12

LEMMA ReadByteKeeps ==
  ASSUME LinkInv, ReceiveByte, Head(line).byte # COBS_MARK
  PROVE  LinkInv'
<1>1. /\ SenderStays /\ hurt' = hurt /\ got' = got /\ line # <<>> /\ line' = Tail(line)
      /\ temp' = Append(temp, Head(line))
  BY DEF ReceiveByte, TakeByte, SenderStays, sender
<1>2. temp' \in Seq(Sendings) /\ line' \in Seq(Sendings) /\ stream' = stream
  <2>1. PICK s, u, t2, l2 : s = stream /\ u = stream' /\ t2 = temp' /\ l2 = line'
    OBVIOUS
  <2>2. s = temp \o line /\ u = t2 \o l2 /\ t2 = Append(temp, Head(line)) /\ l2 = Tail(line)
    BY <1>1, <2>1 DEF stream
  <2>3. temp \in Seq(Sendings) /\ line \in Seq(Sendings)
    BY DEF LinkInv, LinkType
  <2>4. t2 \in Seq(Sendings) /\ l2 \in Seq(Sendings) /\ u = s
    BY <1>1, <2>2, <2>3, MovesIs
  <2> QED BY <2>1, <2>4
<1>3. Current' = Current /\ \A n : FrameOf(n)' = FrameOf(n) /\ Put(n)' = Put(n)
  BY <1>1, StaysSame
<1>4. LinkType'
  BY <1>1, <1>2, <1>3 DEF LinkInv, LinkType, SenderStays
<1>5. Order'
  BY <1>1, <1>2, <1>3 DEF LinkInv, Order
<1>6. Unended' /\ Clear'
  BY <1>1, <1>2, <1>3 DEF LinkInv, Unended, Clear, SenderStays
<1>7. NoMarkYet'
  <2>1. PICK x, t, a : x = Head(line) /\ t = temp' /\ a = Len(temp)
    OBVIOUS
  <2>2. temp \in Seq(Sendings) /\ x \in Sendings /\ a \in Nat
    <3>1. Head(line) = line[1] /\ line[1] \in Sendings
      BY <1>1, HeadIs
    <3>2. temp \in Seq(Sendings) /\ Len(temp) \in Nat
      BY LenProperties DEF LinkInv, LinkType
    <3> QED BY <2>1, <3>1, <3>2
  <2>3. Len(t) = a + 1 /\ t[a + 1] = x /\ \A k \in 1..a : t[k] = temp[k]
    <3>1. t = Append(temp, x)
      BY <1>1, <2>1
    <3> QED BY <2>1, <2>2, <3>1, AppendProperties
  <2>4. ASSUME NEW k \in 1..(a + 1) PROVE t[k].byte # COBS_MARK
    <3>1. CASE k = a + 1
      BY <2>1, <2>3, <3>1
    <3>2. CASE k # a + 1
      <4>1. k \in 1..a
        BY <2>2, <3>2
      <4>2. temp[k].byte # COBS_MARK
        BY <2>1, <4>1 DEF LinkInv, NoMarkYet
      <4> QED BY <2>3, <4>1, <4>2
    <3> QED BY <3>1, <3>2
  <2> QED BY <2>1, <2>3, <2>4 DEF NoMarkYet
<1>8. LastWritten'
  BY <1>1, TailKeepsLast
<1>9. Arrives'
  <2> SUFFICES ASSUME NEW n \in 1..Current, n \notin hurt PROVE Come(n)' \/ OnTheWay(n)'
    BY <1>1, <1>3 DEF Arrives
  <2>1. Come(n) \/ OnTheWay(n)
    BY DEF LinkInv, Arrives
  <2>2. packets'[n] = packets[n] /\ sending' = sending
    BY <1>1 DEF SenderStays
  <2>3. FrameOf(n)' = FrameOf(n) /\ Put(n)' = Put(n)
    BY <1>3
  <2> QED BY <1>1, <1>2, <1>3, <2>1, <2>2, <2>3, SameArrives
<1> QED BY <1>4, <1>5, <1>6, <1>7, <1>8, <1>9 DEF LinkInv

\* What recv has is thrown away.
LEMMA ThrownIs ==
  ASSUME LinkInv, temp' = <<>>, line' = line
  PROVE  stream' = line /\ Len(stream') \in Nat /\ Rests(stream', stream, Len(temp))
<1>1. PICK s, u, a, b : s = stream /\ u = stream' /\ a = Len(temp) /\ b = Len(line)
  OBVIOUS
<1>2. u = line
  BY <1>1, ConcatEmptySeq DEF stream, LinkInv, LinkType
<1>3. a \in Nat /\ b \in Nat /\ Len(s) = a + b /\ \A k \in 1..b : s[a + k] = line[k]
  BY <1>1, OnStream DEF LinkInv, Follows
<1>4. Len(u) = b /\ b = Len(s) - a
  BY <1>1, <1>2, <1>3
<1>5. ASSUME NEW k \in 1..b PROVE u[k] = s[k + a]
  <2>1. k + a = a + k
    BY <1>3
  <2> QED BY <1>2, <1>3, <2>1
<1>6. Rests(u, s, a)
  BY <1>4, <1>5 DEF Rests
<1> QED BY <1>1, <1>2, <1>3, <1>4, <1>6

LEMMA TimedOutKeeps == ASSUME LinkInv, RecvTimeout PROVE LinkInv'
<1>1. /\ SenderStays /\ temp # <<>> /\ temp' = <<>> /\ line' = line /\ got' = got
      /\ hurt' = hurt \cup {temp[i].of : i \in DOMAIN temp}
  BY DEF RecvTimeout, SenderStays, sender, Fault
<1>2. stream' = line /\ Len(stream') \in Nat /\ Rests(stream', stream, Len(temp))
  BY <1>1, ThrownIs
<1>3. Current' = Current /\ \A n : FrameOf(n)' = FrameOf(n) /\ Put(n)' = Put(n)
  BY <1>1, StaysSame
<1>4. PICK s, u, a, b, c : s = stream /\ u = stream' /\ a = Len(temp) /\ b = Len(line) /\ c = Len(s)
  OBVIOUS
<1>5. /\ a \in Nat /\ b \in Nat /\ c = a + b /\ c \in Nat
      /\ \A k \in 1..a : s[k] = temp[k]
      /\ \A k \in 1..b : s[a + k] = line[k]
  BY <1>4, OnStream DEF LinkInv, Follows
<1>6. /\ a >= 1
      /\ \A k \in 1..a : temp[k].of \in hurt'
  <2>1. temp \in Seq(Sendings)
    BY DEF LinkInv, LinkType
  <2>2. a # 0
    BY <1>1, <1>4, <2>1, EmptySeq
  <2>3. DOMAIN temp = 1..a
    BY <1>4, <2>1, LenProperties
  <2> QED BY <1>1, <1>5, <2>2, <2>3
<1>7. LinkType'
  BY <1>1, <1>3, EmptySeq DEF LinkInv, LinkType, SenderStays
<1>8. Order' /\ Unended'
  <2>1. Thins(u, s)
    BY <1>2, <1>4, <1>5, RestsThin
  <2> QED BY <1>1, <1>4, <2>1, TakenKeepsOrder
<1>9. NoMarkYet'
  <2>1. Len(temp') = 0
    BY <1>1, EmptySeq
  <2> QED BY <2>1 DEF NoMarkYet
<1>10. LastWritten'
  BY <1>1, <1>3 DEF LinkInv, LastWritten, SenderStays
<1>11. Clear'
  <2> SUFFICES ASSUME ~sending \/ written = Len(FrameOf(Current)), Current + 1 \notin hurt'
               PROVE  line = <<>> \/ line[b].byte = COBS_MARK
    BY <1>1, <1>2, <1>3, <1>4 DEF Clear, SenderStays
  <2>1. s = <<>> \/ s[c].byte = COBS_MARK
    BY <1>1, <1>4 DEF LinkInv, Clear
  <2>2. line \in Seq(Sendings)
    BY DEF LinkInv, LinkType
  <2>3. CASE b = 0
    BY <1>4, <2>2, <2>3, EmptySeq
  <2>4. CASE b # 0
    <3>1. b \in 1..b /\ c # 0
      BY <1>5, <2>4
    <3>2. s # <<>>
      BY <1>4, <3>1, EmptySeq
    <3>3. s[a + b] = line[b]
      BY <1>5, <3>1
    <3> QED BY <1>5, <2>1, <3>2, <3>3
  <2> QED BY <2>3, <2>4
<1>12. Arrives'
  <2> SUFFICES ASSUME NEW n \in 1..Current, n \notin hurt' PROVE Come(n)' \/ OnTheWay(n)'
    BY <1>1, <1>3 DEF Arrives
  <2>1. /\ FrameOf(n)' = FrameOf(n) /\ Put(n)' = Put(n) /\ packets' = packets
        /\ sending' = sending /\ Current' = Current
    BY <1>1, <1>3 DEF SenderStays
  <2>2. Come(n) => Come(n)'
    BY <1>1, <2>1 DEF Come
  <2>3. ASSUME OnTheWay(n) PROVE OnTheWay(n)'
    <3>1. PICK f, w : f = FrameOf(n) /\ w = Put(n)
      OBVIOUS
    <3>2. PICK p \in Nat : Spans(s, f, n, w, p) /\ (n = Current /\ sending => p + w = c)
      BY <1>4, <2>3, <3>1 DEF OnTheWay
    <3>3. p + w <= c /\ \A k \in 1..w : s[p + k] = [byte |-> f[k], of |-> n]
      BY <1>4, <3>2 DEF Spans
    <3>4. w \in Nat /\ (w = 0 => n = Current /\ sending)
      <4>1. Len(f) \in Nat /\ Len(f) >= 1 /\ w \in Nat
        BY <3>1, CurrentFacts, PutIs DEF LinkInv
      <4>2. ASSUME w = 0 PROVE n = Current /\ sending
        <5>1. w # Len(f)
          BY <4>1, <4>2
        <5> QED BY <3>1, <5>1 DEF Put
      <4> QED BY <4>1, <4>2
    <3>5. a <= p
      <4> SUFFICES ASSUME p < a PROVE FALSE
        BY <1>5
      <4>1. CASE w = 0
        <5>1. p + 0 = c
          BY <3>2, <3>4, <4>1
        <5> QED BY <1>5, <5>1
      <4>2. CASE w # 0
        <5>1. 1 \in 1..w /\ p + 1 \in 1..a
          BY <1>5, <3>4, <4>2
        <5>2. s[p + 1] = [byte |-> f[1], of |-> n]
          BY <3>3, <5>1
        <5>3. s[p + 1] = temp[p + 1]
          BY <1>5, <5>1
        <5> QED BY <1>6, <5>1, <5>2, <5>3
      <4> QED BY <4>1, <4>2
    <3>6. PICK r : r = p - a
      OBVIOUS
    <3>7. Spans(u, f, n, w, r)
      BY <1>2, <1>4, <1>5, <3>2, <3>4, <3>5, <3>6, SpansBehind
    <3>8. r \in Nat /\ (n = Current /\ sending => r + w = Len(u))
      <4>1. Len(u) = c - a
        BY <1>2, <1>4 DEF Rests
      <4>2. p + w = c => r + w = c - a
        BY <1>5, <3>4, <3>6
      <4> QED BY <3>2, <3>7, <4>1, <4>2 DEF Spans
    <3> QED BY <1>4, <2>1, <3>1, <3>7, <3>8 DEF OnTheWay
  <2>4. Come(n) \/ OnTheWay(n)
    BY <1>1 DEF LinkInv, Arrives
  <2> QED BY <2>2, <2>3, <2>4
<1> QED BY <1>7, <1>8, <1>9, <1>10, <1>11, <1>12 DEF LinkInv

\* What is read of bytes without a mark are bytes.
LEMMA ReadBytes ==
  ASSUME NEW e \in Seq(Marked), NEW i \in 1..(Len(e) + 1),
         \A j \in 1..(Len(e) + 1) : j > i => From(e)[j].bytes \in Seq(Nat)
  PROVE  From(e)[i].bytes \in Seq(Nat)
<1>1. PICK f : f = From(e)
  OBVIOUS
<1>2. f[i] = GroupFrom(f, e, i)
  BY <1>1, FromIs
<1>3. PICK n : n = Len(e)
  OBVIOUS
<1>4. n \in Nat /\ \A j \in 1..n : e[j] \in Marked
  BY <1>3, LenProperties, ElementOfSeq
<1>5. <<>> \in Seq(Nat)
  BY EmptySeq
<1>6. CASE i > n
  BY <1>1, <1>2, <1>3, <1>5, <1>6 DEF GroupFrom
<1>7. CASE ~(i > n)
  <2>1. PICK next, zero, rest :
          /\ next = i + e[i]
          /\ zero = IF e[i] < MaxCode /\ next <= n THEN <<COBS_MARK>> ELSE <<>>
          /\ rest = f[next]
    OBVIOUS
  <2>2. GroupFrom(f, e, i) = IF next > n + 1 THEN Undecodable
                             ELSE IF ~rest.ok THEN Undecodable
                             ELSE [ok |-> TRUE, bytes |-> SubSeq(e, i + 1, next - 1) \o zero \o rest.bytes]
    BY <1>3, <1>7, <2>1 DEF GroupFrom
  <2>3. CASE next > n + 1 \/ ~rest.ok
    BY <1>1, <1>2, <1>5, <2>2, <2>3 DEF Undecodable
  <2>4. CASE ~(next > n + 1) /\ rest.ok
    <3>1. /\ i \in 1..n /\ e[i] \in Nat /\ e[i] >= 1 /\ next \in 1..(n + 1) /\ next > i
      <4>1. i \in 1..n
        BY <1>3, <1>4, <1>7
      <4>2. e[i] \in Nat /\ e[i] >= 1
        BY <1>4, <4>1 DEF Marked, COBS_MARK
      <4> QED BY <1>4, <2>1, <2>4, <4>1, <4>2
    <3>2. rest.bytes \in Seq(Nat)
      BY <1>1, <1>3, <2>1, <3>1
    <3>3. zero \in Seq(Nat)
      BY <1>5, <2>1 DEF COBS_MARK
    <3>4. PICK s : s = SubSeq(e, i + 1, next - 1)
      OBVIOUS
    <3>5. s \in Seq(Nat)
      <4>1. e \in Seq(Nat)
        BY MarkedBytes
      <4>2. \A j \in (i + 1)..(next - 1) : j \in 1..n
        BY <1>4, <3>1
      <4>3. \A j \in (i + 1)..(next - 1) : e[j] \in Nat
        BY <1>4, <4>2 DEF Marked
      <4>4. i + 1 \in Int /\ next - 1 \in Int
        BY <3>1
      <4> QED BY <3>4, <4>1, <4>3, <4>4, SubSeqProperties
    <3>6. s \o zero \o rest.bytes \in Seq(Nat)
      BY <3>2, <3>3, <3>5
    <3>7. f[i] = [ok |-> TRUE, bytes |-> s \o zero \o rest.bytes]
      BY <1>2, <2>2, <2>4, <3>4
    <3> QED BY <1>1, <3>6, <3>7
  <2> QED BY <2>3, <2>4
<1> QED BY <1>6, <1>7

LEMMA DecodedBytes ==
  ASSUME NEW e \in Seq(Marked), NEW p, p = Decoded(e)
  PROVE  p.bytes \in Seq(Nat)
<1>1. PICK n, f : n = Len(e) + 1 /\ f = From(e)
  OBVIOUS
<1>2. n \in Nat /\ n >= 1
  BY <1>1, LenProperties
<1> DEFINE P == {i \in 0..n : \A j \in 1..n : j > i => f[j].bytes \in Seq(Nat)}
<1>3. n \in P
  BY <1>2
<1>4. ASSUME NEW i \in 1..n, i \in P PROVE i - 1 \in P
  <2>1. f[i].bytes \in Seq(Nat)
    BY <1>1, <1>4, ReadBytes
  <2>2. ASSUME NEW j \in 1..n, j > i - 1 PROVE f[j].bytes \in Seq(Nat)
    <3>1. j = i \/ j > i
      BY <1>2, <2>2
    <3> QED BY <1>4, <2>1, <3>1
  <2>3. i - 1 \in 0..n
    BY <1>2
  <2> QED BY <2>2, <2>3
<1>5. 0 \in P
  <2> HIDE DEF P
  <2>1. \A i \in 0..n : i \in P
    BY <1>2, <1>3, <1>4, Downward
  <2> QED BY <1>2, <2>1
<1>6. f[1].bytes \in Seq(Nat)
  BY <1>2, <1>5
<1> QED BY <1>1, <1>6, DecodedIs

\* What recv decodes.
Taken == [i \in DOMAIN temp |-> temp[i].byte]

LEMMA TakenIs ==
  ASSUME LinkInv
  PROVE  Taken \in Seq(Marked) /\ DOMAIN temp = 1..Len(temp)
<1>1. PICK a : a = Len(temp)
  OBVIOUS
<1>2. a \in Nat /\ DOMAIN temp = 1..a /\ \A k \in 1..a : temp[k] \in Sendings
  BY <1>1, LenProperties, ElementOfSeq DEF LinkInv, LinkType
<1>3. ASSUME NEW k \in 1..a PROVE temp[k].byte \in Marked
  <2>1. temp[k].byte \in Nat
    BY <1>2 DEF Sendings
  <2>2. temp[k].byte # COBS_MARK
    BY <1>1 DEF LinkInv, NoMarkYet
  <2> QED BY <2>1, <2>2 DEF Marked
<1>4. Taken \in [1..a -> Marked]
  BY <1>2, <1>3 DEF Taken
<1> QED BY <1>1, <1>2, <1>4, SeqDef

\* A mark is read: recv begins anew, and may return a packet.
LEMMA ReturnIs ==
  ASSUME LinkInv, ReceiveByte, Head(line).byte = COBS_MARK, NEW p, p = Decoded(Taken),
         NEW x, x = [of |-> Head(line).of, data |-> SubSeq(p.bytes, 4, Len(p.bytes))]
  PROVE  /\ SenderStays /\ hurt' = hurt /\ line # <<>> /\ line' = Tail(line) /\ temp' = <<>>
         /\ got' = IF Accepted(p) THEN Append(got, x) ELSE got
         /\ x \in [of : Nat, data : Seq(Nat)] /\ x.of = Head(line).of
<1>1. /\ SenderStays /\ hurt' = hurt /\ line # <<>> /\ line' = Tail(line) /\ temp' = <<>>
      /\ got' = IF Accepted(p) THEN Append(got, x) ELSE got
  BY DEF ReceiveByte, TakeByte, Taken, SenderStays, sender
<1>2. PICK b, d : b = p.bytes /\ d = SubSeq(b, 4, Len(b))
  OBVIOUS
<1>3. b \in Seq(Nat) /\ Len(b) \in Nat
  BY <1>2, TakenIs, DecodedBytes, LenProperties
<1>4. d \in Seq(Nat)
  <2>1. PICK l : l = Len(b)
    OBVIOUS
  <2>2. \A j \in 1..l : b[j] \in Nat
    BY <1>3, <2>1, ElementOfSeq
  <2>3. l \in Int /\ \A j \in 4..l : b[j] \in Nat
    BY <1>3, <2>1, <2>2
  <2>4. d = SubSeq(b, 4, l) /\ 4 \in Int
    BY <1>2, <2>1
  <2> QED BY <1>3, <2>3, <2>4, SubSeqProperties
<1>5. Head(line).of \in Nat
  <2>1. Head(line) = line[1] /\ line[1] \in Sendings
    BY <1>1, HeadIs
  <2> QED BY <2>1 DEF Sendings
<1> QED BY <1>1, <1>2, <1>4, <1>5

LEMMA TailRests ==
  ASSUME LinkInv, line # <<>>, line' = Tail(line), temp' = <<>>
  PROVE  /\ line' \in Seq(Sendings) /\ stream' = line' /\ Len(stream') \in Nat
         /\ Rests(stream', stream, Len(temp) + 1)
<1>1. PICK m, s, u : m = line' /\ s = stream /\ u = stream'
  OBVIOUS
<1>2. PICK a, b : a = Len(temp) /\ b = Len(line)
  OBVIOUS
<1>3. m \in Seq(Sendings) /\ Len(m) = b - 1 /\ b >= 1 /\ \A k \in 1..(b - 1) : m[k] = line[k + 1]
  BY <1>1, <1>2, HeadIs
<1>4. u = m
  <2>1. u = <<>> \o m
    BY <1>1 DEF stream
  <2> QED BY <1>3, <2>1, ConcatEmptySeq
<1>5. a \in Nat /\ b \in Nat /\ Len(s) = a + b /\ \A k \in 1..b : s[a + k] = line[k]
  BY <1>1, <1>2, OnStream DEF LinkInv, Follows
<1>6. Len(u) = b - 1 /\ Len(u) \in Nat /\ b - 1 = Len(s) - (a + 1)
  BY <1>3, <1>4, <1>5
<1>7. ASSUME NEW k \in 1..(b - 1) PROVE u[k] = s[k + (a + 1)]
  <2>1. k + 1 \in 1..b /\ k + (a + 1) = a + (k + 1)
    BY <1>5
  <2> QED BY <1>3, <1>4, <1>5, <2>1
<1>8. Rests(u, s, a + 1)
  BY <1>6, <1>7 DEF Rests
<1> QED BY <1>1, <1>2, <1>3, <1>4, <1>6, <1>8

\* What is returned comes behind all that was, and in front of all on the way.
LEMMA ReturnedKeepsOrder ==
  ASSUME LinkInv, SenderStays, NEW x \in [of : Nat, data : Seq(Nat)], got' = Append(got, x),
         NEW q, q \in 1..Len(stream), stream[q].byte = COBS_MARK, x.of = stream[q].of,
         Rests(stream', stream, q), Len(stream') \in Nat
  PROVE  Order' /\ Unended'
<1>1. PICK s, u, g : s = stream /\ u = stream' /\ g = got'
  OBVIOUS
<1>2. PICK c, m, l : c = Len(s) /\ m = Len(u) /\ l = Len(got)
  OBVIOUS
<1>3. /\ c \in Nat /\ m \in Nat /\ q \in Nat /\ q >= 1 /\ m = c - q
      /\ \A k \in 1..m : u[k] = s[k + q] /\ k + q \in 1..c /\ q < k + q
  <2>1. c \in Nat /\ m \in Nat /\ q \in 1..c
    BY <1>1, <1>2, OnStream DEF LinkInv, Follows
  <2>2. m = c - q /\ \A k \in 1..m : u[k] = s[k + q]
    BY <1>1, <1>2 DEF Rests
  <2> QED BY <2>1, <2>2
<1>4. /\ l \in Nat /\ Len(g) = l + 1 /\ g[l + 1] = x
      /\ \A i \in 1..l : g[i] = got[i]
  <2>1. got \in Seq([of : Nat, data : Seq(Nat)]) /\ l \in Nat
    BY <1>2, LenProperties DEF LinkInv, LinkType
  <2>2. g = Append(got, x)
    BY <1>1
  <2> QED BY <1>2, <2>1, <2>2, AppendProperties
<1>5. /\ \A i \in 2..l : got[i - 1].of < got[i].of
      /\ \A i \in 1..l : got[i].of <= Current
      /\ \A k \in 1..c : s[k].of <= Current
      /\ \A i \in 1..l, k \in 1..c : got[i].of < s[k].of
      /\ \A j, k \in 1..c : j < k /\ s[j].byte = COBS_MARK => s[j].of < s[k].of
  BY <1>1, <1>2 DEF LinkInv, Order
<1>6. q \in 1..c /\ s[q].byte = COBS_MARK /\ x.of = s[q].of
  BY <1>1, <1>2
<1>7. Current' = Current /\ FrameOf(Current)' = FrameOf(Current)
  BY DEF SenderStays, Current, FrameOf
<1>8. Order'
  <2>1. ASSUME NEW i \in 2..(l + 1) PROVE g[i - 1].of < g[i].of
    <3>1. CASE i = l + 1
      <4>1. i - 1 \in 1..l
        BY <1>4, <3>1
      <4>2. g[i - 1] = got[i - 1] /\ g[i] = x /\ got[i - 1].of < s[q].of
        BY <1>4, <1>5, <1>6, <3>1, <4>1
      <4> QED BY <1>6, <4>2
    <3>2. CASE i # l + 1
      <4>1. i \in 2..l /\ i \in 1..l /\ i - 1 \in 1..l
        BY <1>4, <3>2
      <4> QED BY <1>4, <1>5, <4>1
    <3> QED BY <3>1, <3>2
  <2>2. ASSUME NEW i \in 1..(l + 1) PROVE g[i].of <= Current
    <3>1. CASE i = l + 1
      BY <1>4, <1>5, <1>6, <3>1
    <3>2. CASE i # l + 1
      <4>1. i \in 1..l
        BY <1>4, <3>2
      <4> QED BY <1>4, <1>5, <4>1
    <3> QED BY <3>1, <3>2
  <2>3. \A k \in 1..m : u[k].of <= Current
    BY <1>3, <1>5
  <2>4. ASSUME NEW i \in 1..(l + 1), NEW k \in 1..m PROVE g[i].of < u[k].of
    <3>1. u[k] = s[k + q] /\ k + q \in 1..c /\ q < k + q
      BY <1>3
    <3>2. CASE i = l + 1
      <4>1. s[q].of < s[k + q].of
        BY <1>5, <1>6, <3>1
      <4> QED BY <1>4, <1>6, <3>1, <3>2, <4>1
    <3>3. CASE i # l + 1
      <4>1. i \in 1..l
        BY <1>4, <3>3
      <4>2. got[i].of < s[k + q].of
        BY <1>5, <3>1, <4>1
      <4> QED BY <1>4, <3>1, <4>1, <4>2
    <3> QED BY <3>2, <3>3
  <2>5. ASSUME NEW j \in 1..m, NEW k \in 1..m, j < k, u[j].byte = COBS_MARK
        PROVE  u[j].of < u[k].of
    <3>1. u[j] = s[j + q] /\ u[k] = s[k + q] /\ j + q \in 1..c /\ k + q \in 1..c /\ j + q < k + q
      BY <1>3, <2>5
    <3> QED BY <1>5, <2>5, <3>1
  <2>6. got' = g /\ stream' = u /\ Len(g) = l + 1 /\ Len(u) = m
    BY <1>1, <1>2, <1>4
  <2> QED BY <1>7, <2>1, <2>2, <2>3, <2>4, <2>5, <2>6 DEF Order
<1>9. Unended'
  <2> SUFFICES ASSUME sending, written < Len(FrameOf(Current))
               PROVE  /\ \A i \in 1..(l + 1) : g[i].of < Current
                      /\ \A k \in 1..m : u[k].byte = COBS_MARK => u[k].of < Current
    BY <1>1, <1>2, <1>4, <1>7 DEF Unended, SenderStays
  <2>1. /\ \A i \in 1..l : got[i].of < Current
        /\ \A k \in 1..c : s[k].byte = COBS_MARK => s[k].of < Current
    BY <1>1, <1>2 DEF LinkInv, Unended
  <2>2. ASSUME NEW i \in 1..(l + 1) PROVE g[i].of < Current
    <3>1. CASE i = l + 1
      BY <1>4, <1>6, <2>1, <3>1
    <3>2. CASE i # l + 1
      <4>1. i \in 1..l
        BY <1>4, <3>2
      <4> QED BY <1>4, <2>1, <4>1
    <3> QED BY <3>1, <3>2
  <2>3. \A k \in 1..m : u[k].byte = COBS_MARK => u[k].of < Current
    BY <1>3, <2>1
  <2> QED BY <2>2, <2>3
<1> QED BY <1>8, <1>9

\* A packet whose bytes recv has, when its mark is read, is returned.
WholeFrame(f, w, x, n) ==
  /\ w = Len(f) /\ x.of = n
  /\ Unmarked(Taken, f)

LEMMA WholeIsReturned ==
  ASSUME LinkInv, NEW n \in 1..Current, NEW f, f = FrameOf(n), NEW w, w = Put(n),
         NEW s, s = stream, NEW p \in Nat, Spans(s, f, n, w, p), NEW c, c = Len(s),
         n = Current /\ sending => p + w = c,
         NEW q, q = Len(temp) + 1, q \in 1..c, p < q, s[q].byte = COBS_MARK
  PROVE  WholeFrame(f, w, s[q], n)
<1>1. PICK a, l : a = Len(temp) /\ l = Len(f)
  OBVIOUS
<1>2. /\ a \in Nat /\ c \in Nat /\ q = a + 1
      /\ \A k \in 1..a : s[k] = temp[k] /\ s[k].byte # COBS_MARK
  BY <1>1, OnStream DEF LinkInv, Follows, NoMarkYet
<1>3. /\ l \in Nat /\ l >= 1 /\ f[l] = COBS_MARK
      /\ \A j \in 1..l : j < l => f[j] # COBS_MARK
      /\ w \in Nat /\ w <= l
  BY <1>1, CurrentFacts, PutIs DEF LinkInv
<1>4. /\ p + w <= c /\ (p = 0 \/ s[p].byte = COBS_MARK)
      /\ \A k \in 1..w : s[p + k] = [byte |-> f[k], of |-> n]
  BY DEF Spans
<1>5. p = 0
  <2> SUFFICES ASSUME p # 0 PROVE FALSE
    OBVIOUS
  <2>1. p \in 1..a
    BY <1>2
  <2> QED BY <1>2, <1>4, <2>1
<1>6. w # l => n = Current /\ sending
  BY <1>1 DEF Put
<1>7. q <= w
  <2> SUFFICES ASSUME w < q PROVE FALSE
    BY <1>2, <1>3
  <2>1. w # c
    BY <1>2
  <2>2. w = l
    <3>1. p + w = w
      BY <1>3, <1>5
    <3> QED BY <1>6, <2>1, <3>1
  <2>3. w \in 1..w /\ w \in 1..a /\ p + w = w
    BY <1>2, <1>3, <1>5, <2>2
  <2>4. s[w] = [byte |-> f[w], of |-> n]
    BY <1>4, <2>3
  <2> QED BY <1>2, <1>3, <2>2, <2>3, <2>4
<1>8. \A k \in 1..w : s[k] = [byte |-> f[k], of |-> n]
  <2> SUFFICES ASSUME NEW k \in 1..w PROVE s[k] = [byte |-> f[k], of |-> n]
    OBVIOUS
  <2>1. p + k = k
    BY <1>3, <1>5
  <2> QED BY <1>4, <2>1
<1>9. q \in 1..w /\ q \in 1..l
  BY <1>2, <1>3, <1>7
<1>10. s[q].of = n /\ f[q] = COBS_MARK
  <2>1. s[q] = [byte |-> f[q], of |-> n]
    BY <1>8, <1>9
  <2> QED BY <2>1
<1>11. q = l /\ w = l
  BY <1>3, <1>7, <1>9, <1>10
<1>12. Taken = [j \in 1..a |-> f[j]]
  <2>1. DOMAIN temp = 1..a
    BY <1>1, TakenIs
  <2>2. ASSUME NEW j \in 1..a PROVE temp[j].byte = f[j]
    <3>1. j \in 1..w
      BY <1>2, <1>3, <1>7
    <3>2. temp[j] = [byte |-> f[j], of |-> n]
      BY <1>2, <1>8, <3>1
    <3> QED BY <3>2
  <2> QED BY <2>1, <2>2 DEF Taken
<1>13. a = l - 1
  BY <1>2, <1>11
<1> QED BY <1>1, <1>10, <1>11, <1>12, <1>13 DEF WholeFrame, Unmarked

LEMMA ReturnKeeps ==
  ASSUME LinkInv, ReceiveByte, Head(line).byte = COBS_MARK
  PROVE  LinkInv'
<1>1. PICK d : d = Decoded(Taken)
  OBVIOUS
<1>2. PICK x : x = [of |-> Head(line).of, data |-> SubSeq(d.bytes, 4, Len(d.bytes))]
  OBVIOUS
<1>3. /\ SenderStays /\ hurt' = hurt /\ line # <<>> /\ line' = Tail(line) /\ temp' = <<>>
      /\ got' = IF Accepted(d) THEN Append(got, x) ELSE got
      /\ x \in [of : Nat, data : Seq(Nat)] /\ x.of = Head(line).of
  BY <1>1, <1>2, ReturnIs
<1>4. PICK s, u, q, c, b : s = stream /\ u = stream' /\ q = Len(temp) + 1 /\ c = Len(s) /\ b = Len(line)
  OBVIOUS
<1>5. /\ line' \in Seq(Sendings) /\ u = line' /\ Len(u) \in Nat
      /\ Rests(u, s, q)
  BY <1>3, <1>4, TailRests
<1>6. /\ q \in 1..c /\ b >= 1 /\ c = q + b - 1 /\ s[q] = Head(line)
  BY <1>3, <1>4, HeadIs
<1>7. c \in Nat /\ b \in Nat /\ q \in Nat
  BY <1>4, <1>6, OnStream DEF LinkInv, Follows
<1>8. Current' = Current /\ \A n : FrameOf(n)' = FrameOf(n) /\ Put(n)' = Put(n)
  BY <1>3, StaysSame
<1>9. LinkType'
  <2>1. got' \in Seq([of : Nat, data : Seq(Nat)])
    BY <1>3, AppendProperties DEF LinkInv, LinkType
  <2>2. temp' \in Seq(Sendings)
    BY <1>3, EmptySeq
  <2> QED BY <1>3, <1>5, <1>8, <2>1, <2>2 DEF LinkInv, LinkType, SenderStays
<1>10. Order' /\ Unended'
  <2>1. CASE Accepted(d)
    <3>1. got' = Append(got, x)
      BY <1>3, <2>1
    <3>2. x.of = s[q].of /\ s[q].byte = COBS_MARK
      BY <1>3, <1>6
    <3> QED BY <1>3, <1>4, <1>5, <1>6, <3>1, <3>2, ReturnedKeepsOrder
  <2>2. CASE ~Accepted(d)
    <3>1. got' = got
      BY <1>3, <2>2
    <3>2. Thins(u, s)
      BY <1>4, <1>5, <1>7, RestsThin
    <3> QED BY <1>3, <1>4, <3>1, <3>2, TakenKeepsOrder
  <2> QED BY <2>1, <2>2
<1>11. NoMarkYet'
  <2>1. Len(temp') = 0
    BY <1>3, EmptySeq
  <2> QED BY <2>1 DEF NoMarkYet
<1>12. LastWritten'
  BY <1>3, TailKeepsLast
<1>13. Clear'
  <2> SUFFICES ASSUME ~sending \/ written = Len(FrameOf(Current)), Current + 1 \notin hurt
               PROVE  u = <<>> \/ u[Len(u)].byte = COBS_MARK
    BY <1>3, <1>4, <1>8 DEF Clear, SenderStays
  <2>1. s = <<>> \/ s[c].byte = COBS_MARK
    BY <1>4 DEF LinkInv, Clear
  <2>2. s # <<>>
    <3> SUFFICES ASSUME s = <<>> PROVE FALSE
      OBVIOUS
    <3>1. c = 0
      BY <1>4, EmptySeq
    <3> QED BY <1>6, <3>1
  <2>3. Len(u) = c - q /\ \A k \in 1..Len(u) : u[k] = s[k + q]
    BY <1>4, <1>5 DEF Rests
  <2>4. CASE Len(u) = 0
    BY <1>5, <2>4, EmptySeq
  <2>5. CASE Len(u) # 0
    <3>1. Len(u) \in 1..Len(u) /\ Len(u) + q = c
      <4>1. PICK m : m = Len(u)
        OBVIOUS
      <4>2. m \in Nat /\ m = c - q /\ m # 0
        BY <1>5, <2>3, <2>5, <4>1
      <4>3. m \in 1..m /\ m + q = c
        BY <1>7, <4>2
      <4> QED BY <4>1, <4>3
    <3>2. u[Len(u)] = s[Len(u) + q]
      BY <2>3, <3>1
    <3> QED BY <2>1, <2>2, <3>1, <3>2
  <2> QED BY <2>4, <2>5
<1>14. Arrives'
  <2> SUFFICES ASSUME NEW n \in 1..Current, n \notin hurt PROVE Come(n)' \/ OnTheWay(n)'
    BY <1>3, <1>8 DEF Arrives
  <2>1. /\ FrameOf(n)' = FrameOf(n) /\ Put(n)' = Put(n) /\ packets' = packets
        /\ sending' = sending /\ Current' = Current
    BY <1>3, <1>8 DEF SenderStays
  <2>2. /\ Len(got) \in Nat
        /\ got' = got \/ (Len(got') = Len(got) + 1 /\ got'[Len(got) + 1] = x /\ \A i \in 1..Len(got) : got'[i] = got[i])
    <3>1. got \in Seq([of : Nat, data : Seq(Nat)]) /\ Len(got) \in Nat
      BY LenProperties DEF LinkInv, LinkType
    <3> QED BY <1>3, <3>1, AppendProperties
  <2>3. Come(n) => Come(n)'
    <3> SUFFICES ASSUME Come(n) PROVE Come(n)'
      OBVIOUS
    <3>1. CASE Len(packets[n]) = SizeLimit
      BY <2>1, <3>1 DEF Come
    <3>2. CASE Len(packets[n]) # SizeLimit
      <4>1. PICK i \in 1..Len(got) : got[i] = [of |-> n, data |-> packets[n]]
        BY <3>2 DEF Come
      <4>2. i \in 1..Len(got') /\ got'[i] = got[i]
        BY <2>2
      <4> QED BY <2>1, <4>1, <4>2 DEF Come
    <3> QED BY <3>1, <3>2
  <2>4. ASSUME OnTheWay(n) PROVE Come(n)' \/ OnTheWay(n)'
    <3>1. PICK f, w : f = FrameOf(n) /\ w = Put(n)
      OBVIOUS
    <3>2. PICK p \in Nat : Spans(s, f, n, w, p) /\ (n = Current /\ sending => p + w = c)
      BY <1>4, <2>4, <3>1 DEF OnTheWay
    <3>3. w \in Nat
      BY <3>1, PutIs DEF LinkInv
    <3>4. CASE q <= p
      <4>1. PICK r : r = p - q
        OBVIOUS
      <4>2. Spans(u, f, n, w, r)
        BY <1>4, <1>5, <1>7, <3>2, <3>3, <3>4, <4>1, SpansBehind
      <4>3. r \in Nat /\ (n = Current /\ sending => r + w = Len(u))
        <5>1. Len(u) = c - q
          BY <1>4, <1>5 DEF Rests
        <5>2. p + w = c => r + w = c - q
          BY <1>7, <3>3, <4>1
        <5> QED BY <3>2, <4>2, <5>1, <5>2 DEF Spans
      <4> QED BY <1>4, <2>1, <3>1, <4>2, <4>3 DEF OnTheWay
    <3>5. CASE p < q
      <4>1. s[q].byte = COBS_MARK
        BY <1>6
      <4>2. /\ w = Len(f) /\ s[q].of = n
            /\ Unmarked(Taken, f)
        <5>1. WholeFrame(f, w, s[q], n)
          BY <1>4, <1>6, <3>1, <3>2, <3>5, <4>1, WholeIsReturned
        <5> QED BY <5>1 DEF WholeFrame
      <4>3. packets[n] \in Sendable
        BY CurrentFacts DEF LinkInv
      <4>4. PICK e : e = packets[n]
        OBVIOUS
      <4>5. /\ Len(e) # SizeLimit => Accepted(d)
            /\ SubSeq(d.bytes, 4, Len(d.bytes)) = e
        <5>1. f = Frame[e] /\ e \in Sendable
          BY <3>1, <4>3, <4>4 DEF FrameOf
        <5>2. ReadAs(Taken, e)
          BY <4>2, <5>1, FrameIs
        <5> QED BY <1>1, <5>2 DEF ReadAs
      <4>6. x = [of |-> n, data |-> e]
        BY <1>2, <1>6, <4>2, <4>5
      <4>7. Put(n)' = Len(FrameOf(n)')
        BY <2>1, <3>1, <4>2
      <4>8. CASE Len(e) = SizeLimit
        BY <2>1, <4>4, <4>7, <4>8 DEF Come
      <4>9. CASE Len(e) # SizeLimit
        <5>1. got' = Append(got, x)
          BY <1>3, <4>5, <4>9
        <5>2. Len(got') = Len(got) + 1 /\ got'[Len(got) + 1] = x
          <6>1. got \in Seq([of : Nat, data : Seq(Nat)])
            BY DEF LinkInv, LinkType
          <6>2. PICK g : g = got'
            OBVIOUS
          <6>3. g = Append(got, x)
            BY <5>1, <6>2
          <6> QED BY <1>3, <6>1, <6>2, <6>3, AppendProperties
        <5>3. Len(got) + 1 \in 1..Len(got')
          BY <2>2, <5>2
        <5> QED BY <2>1, <4>4, <4>6, <4>7, <5>2, <5>3 DEF Come
      <4> QED BY <4>8, <4>9
    <3>6. q <= p \/ p < q
      BY <1>7
    <3> QED BY <3>4, <3>5, <3>6
  <2>5. Come(n) \/ OnTheWay(n)
    BY <1>3 DEF LinkInv, Arrives
  <2> QED BY <2>3, <2>4, <2>5
<1> QED BY <1>9, <1>10, <1>11, <1>12, <1>13, <1>14 DEF LinkInv

-----------------------------------------------------------------------------

LEMMA InitLink == ASSUME Init PROVE LinkInv
<1>1. /\ packets = <<>> /\ sending = FALSE /\ timed = FALSE /\ pieces = <<>> /\ written = 0
      /\ line = <<>> /\ temp = <<>> /\ got = <<>>
  BY DEF Init
<1>2. stream = <<>>
  BY <1>1, ConcatEmptySeq, EmptySeq DEF stream
<1>3. Current = 0 /\ Len(got) = 0 /\ Len(stream) = 0 /\ Len(temp) = 0
  BY <1>1, <1>2, EmptySeq DEF Current
<1>4. LinkType
  BY <1>1, EmptySeq DEF LinkType
<1>5. Order /\ NoMarkYet /\ Unended /\ LastWritten
  BY <1>1, <1>3 DEF Order, NoMarkYet, Unended, LastWritten
<1>6. Clear
  BY <1>2 DEF Clear
<1>7. Arrives
  BY <1>3 DEF Arrives
<1> QED BY <1>4, <1>5, <1>6, <1>7 DEF LinkInv

LEMMA SendKeeps == ASSUME LinkInv, Send PROVE LinkInv'
<1>1. PICK d \in Small : packets' = Append(packets, d)
  BY DEF Send
<1>2. d \in Sendable
  BY DEF Sendable
<1>3. /\ ~sending /\ sending' = TRUE /\ written' = 0 /\ timed' \in BOOLEAN /\ hurt' = hurt
      /\ pieces' = pieces /\ Idle
  BY DEF Send, CanSend, Idle
<1>4. pieces' \in Seq(Sendable)
  BY <1>3 DEF LinkInv, LinkType
<1> QED BY <1>1, <1>2, <1>3, <1>4, BeginKeeps

LEMMA SendPieceKeeps == ASSUME LinkInv, SendPiece PROVE LinkInv'
<1>1. PICK d : d = Head(pieces)
  OBVIOUS
<1>2. /\ packets' = Append(packets, d) /\ pieces # <<>>
      /\ ~sending /\ sending' = TRUE /\ written' = 0 /\ timed' \in BOOLEAN /\ hurt' = hurt
      /\ pieces' = Tail(pieces) /\ Idle
  BY <1>1 DEF SendPiece, CanSend, Idle
<1>3. pieces \in Seq(Sendable)
  BY DEF LinkInv, LinkType
<1>4. d \in Sendable /\ pieces' \in Seq(Sendable)
  BY <1>1, <1>2, <1>3, HeadTailProperties
<1> QED BY <1>2, <1>4, BeginKeeps

LEMMA StutterKeeps == ASSUME LinkInv, UNCHANGED vars PROVE LinkInv'
<1>1. UNCHANGED <<packets, sending, timed, pieces, written, line, temp, got, hurt>>
  BY DEF vars, sender
<1>2. stream' = stream /\ Current' = Current /\ \A n : FrameOf(n)' = FrameOf(n) /\ Put(n)' = Put(n)
  BY <1>1 DEF stream, Current, FrameOf, Put
<1>3. LinkType' /\ Order' /\ NoMarkYet'
  BY <1>1, <1>2 DEF LinkInv, LinkType, Order, NoMarkYet
<1>4. Unended' /\ LastWritten' /\ Clear'
  BY <1>1, <1>2 DEF LinkInv, Unended, LastWritten, Clear
<1>5. Arrives'
  <2> SUFFICES ASSUME NEW n \in 1..Current, n \notin hurt PROVE Come(n)' \/ OnTheWay(n)'
    BY <1>1, <1>2 DEF Arrives
  <2>1. Come(n) \/ OnTheWay(n)
    BY DEF LinkInv, Arrives
  <2> QED BY <1>1, <1>2, <2>1, SameArrives
<1> QED BY <1>3, <1>4, <1>5 DEF LinkInv

\* Whatever is sent, lost, cut short or timed out: the inductive invariant.
THEOREM LinkHolds == Spec => []LinkInv
<1>1. Init => LinkInv
  BY InitLink
<1>2. LinkInv /\ [Next]_vars => LinkInv'
  <2> SUFFICES ASSUME LinkInv, [Next]_vars PROVE LinkInv'
    OBVIOUS
  <2>1. CASE Send
    BY <2>1, SendKeeps
  <2>2. CASE SendLarge
    BY <2>2, LargeKeeps
  <2>3. CASE SendPiece
    BY <2>3, SendPieceKeeps
  <2>4. CASE WriteByte
    BY <2>4, WriteKeeps
  <2>5. CASE Sent
    BY <2>5, SentKeeps
  <2>6. CASE WriteAgain
    BY <2>6, AgainKeeps
  <2>7. CASE SendTimeout
    BY <2>7, TimeoutKeeps
  <2>8. CASE LoseByte
    BY <2>8, LoseKeeps
  <2>9. CASE ReceiveByte
    BY <2>9, ReadByteKeeps, ReturnKeeps
  <2>10. CASE RecvTimeout
    BY <2>10, TimedOutKeeps
  <2>11. CASE UNCHANGED vars
    BY <2>11, StutterKeeps
  <2> QED BY <2>1, <2>2, <2>3, <2>4, <2>5, <2>6, <2>7, <2>8, <2>9, <2>10, <2>11 DEF Next
<1> QED BY <1>1, <1>2, PTL DEF Spec

\* A packet that has been written to its end, and is not on the line, is not on the
\* way either: recv would have its mark.
LEMMA AllCome == ASSUME LinkInv PROVE UnhurtArrive
<1>1. ASSUME NEW n \in 1..Current, n \notin hurt, n < Current \/ ~sending,
             \A i \in DOMAIN line : line[i].of # n, Len(packets[n]) # SizeLimit
      PROVE  \E i \in DOMAIN got : got[i] = [of |-> n, data |-> packets[n]]
  <2>1. PICK s, f, w, a, b : s = stream /\ f = FrameOf(n) /\ w = Put(n) /\ a = Len(temp) /\ b = Len(line)
    OBVIOUS
  <2>2. /\ Len(f) \in Nat /\ Len(f) >= 1 /\ f[Len(f)] = COBS_MARK /\ n \in Nat /\ Current \in Nat
    BY <2>1, CurrentFacts DEF LinkInv
  <2>3. w = Len(f)
    <3>1. ~(n = Current /\ sending)
      BY <1>1, <2>2
    <3> QED BY <2>1, <3>1 DEF Put
  <2>4. ~OnTheWay(n)
    <3> SUFFICES ASSUME OnTheWay(n) PROVE FALSE
      OBVIOUS
    <3>1. PICK p \in Nat : Spans(s, f, n, w, p)
      BY <2>1 DEF OnTheWay
    <3>2. p + w <= Len(s) /\ \A k \in 1..w : s[p + k] = [byte |-> f[k], of |-> n]
      BY <3>1 DEF Spans
    <3>3. w \in Nat /\ w \in 1..w
      BY <2>2, <2>3
    <3>4. s[p + w] = [byte |-> COBS_MARK, of |-> n]
      BY <2>2, <2>3, <3>2, <3>3
    <3>5. /\ a \in Nat /\ b \in Nat /\ Len(s) = a + b
          /\ \A k \in 1..a : s[k] = temp[k]
          /\ \A k \in 1..b : s[a + k] = line[k]
      BY <2>1, OnStream DEF LinkInv, Follows
    <3>6. PICK k : k = p + w
      OBVIOUS
    <3>7. k \in 1..(a + b)
      BY <3>2, <3>3, <3>5, <3>6
    <3>8. CASE k \in 1..a
      <4>1. temp[k].byte = COBS_MARK
        BY <3>4, <3>5, <3>6, <3>8
      <4> QED BY <2>1, <3>8, <4>1 DEF LinkInv, NoMarkYet
    <3>9. CASE k \notin 1..a
      <4>1. PICK j : j = k - a
        OBVIOUS
      <4>2. j \in 1..b /\ a + j = k
        BY <3>5, <3>7, <3>9, <4>1
      <4>3. line[j] = [byte |-> COBS_MARK, of |-> n]
        BY <3>4, <3>5, <3>6, <4>2
      <4>4. j \in DOMAIN line
        BY <2>1, <4>2, LenProperties DEF LinkInv, LinkType
      <4> QED BY <1>1, <4>3, <4>4
    <3> QED BY <3>8, <3>9
  <2>5. Come(n)
    BY <1>1, <2>4 DEF LinkInv, Arrives
  <2>6. PICK i \in 1..Len(got) : got[i] = [of |-> n, data |-> packets[n]]
    BY <1>1, <2>5 DEF Come
  <2>7. i \in DOMAIN got
    BY LenProperties DEF LinkInv, LinkType
  <2> QED BY <2>6, <2>7
<1>2. \A i \in 2..Len(got) : got[i - 1].of < got[i].of
  BY DEF LinkInv, Order
<1> QED BY <1>1, <1>2 DEF UnhurtArrive

\* send and recv deliver every packet that no fault was done to, unchanged and in
\* its place, and nothing out of turn.
THEOREM UnhurtAllArrive == Spec => []UnhurtArrive
<1>1. LinkInv => UnhurtArrive
  BY AllCome
<1> QED BY <1>1, LinkHolds, PTL
=============================================================================
