-------------------------- MODULE SerialPortProofs --------------------------
(***************************************************************************)
(* Proofs about SerialPort: the type invariant, and that what the handler  *)
(* takes from a UART is not lost.                                          *)
(***************************************************************************)
EXTENDS SerialPort, TLAPS

\* What a port has had in all, n bytes and signals: f is still in the UART, t was
\* taken from it, b is in the buffer and g was read.  Bytes are numbered as they
\* come, so that what is in the UART is younger than what was taken.
Ordered(f, n, b, t, g) ==
  /\ Len(f) <= FifoSize /\ Len(b) <= BufferSize
  /\ \A k \in 1..Len(f) : f[k] \in 1..n
  /\ \A k, l \in 1..Len(f) : k < l => f[k] < f[l]
  /\ t \subseteq 1..n
  /\ \A x \in t, k \in 1..Len(f) : x < f[k]
  /\ t = g \cup {b[k] : k \in 1..Len(b)}
  /\ \A x \in g, k \in 1..Len(b) : x \in {b[l] : l \in 1..Len(b)} \/ x < b[k]
  /\ \A k, l \in 1..Len(b) : k < l => b[k] < b[l]

DataInv ==
  \A p \in Ports :
    /\ fifo[p] \in Seq(Nat) /\ buffer[p] \in Seq(Nat)
    /\ signals[p] \in 0..MaxSignals[p]
    /\ Ordered(fifo[p], signals[p], buffer[p], taken[p], got[p])

\* The variables the handler and the program work on.
Registers ==
  /\ DOMAIN fifo = Ports /\ DOMAIN buffer = Ports /\ DOMAIN signals = Ports
  /\ DOMAIN taken = Ports /\ DOMAIN got = Ports
  /\ fifo = [p \in Ports |-> fifo[p]] /\ buffer = [p \in Ports |-> buffer[p]]
  /\ signals = [p \in Ports |-> signals[p]]
  /\ taken = [p \in Ports |-> taken[p]] /\ got = [p \in Ports |-> got[p]]
  /\ events \in [Ports -> SUBSET {"sent", "line", "modem"}]
  /\ timedOut \in [Ports -> BOOLEAN] /\ enabled \in [Ports -> SUBSET {"bytes", "sent", "line", "modem"}]
  /\ line \in [Ports -> 0..63] /\ looped \in [Ports -> BOOLEAN]
  /\ holding \subseteq Ports /\ latched \subseteq Irqs /\ refused \subseteq Ports
  /\ intr \in BOOLEAN

\* The handler has the two ports before it, or the second, or is done; it reads
\* bytes from a port that is there.
Serving ==
  \/ handler = NoHandler
  \/ /\ handler \in [ports : {<<COM1, COM3>>, <<COM3>>}, reading : BOOLEAN]
     /\ handler.reading => Head(handler.ports) \in Ports

\* The program brings up the ports one after the other, tests and drains only
\* one that is there, and uses only those that came up.
Place ==
  /\ up \subseteq Ports /\ port \in COM1..(COM4 + 1)
  /\ \/ pc = "init" /\ port <= COM4
     \/ pc \in {"self_test", "drain", "drain_again", "drain_byte"} /\ port \in Ports
     \/ pc = "idle"
     \/ pc \in {"check", "sti", "hlt", "halted", "receive", "transmit", "try_transmit"}
        /\ port \in up

IInv == DataInv /\ Registers /\ Serving /\ Place

-----------------------------------------------------------------------------
(* What a step does to the bytes of one port.                              *)

\* A sequence with an element at its end, without its first, without the first i.
LEMMA SeqTyped ==
  ASSUME NEW s \in Seq(Nat), NEW S, \A k \in 1..Len(s) : s[k] \in S
  PROVE  s \in Seq(S)
<1>1. s \in [1..Len(s) -> S] /\ Len(s) \in Nat
  OBVIOUS
<1>. QED  BY <1>1

LEMMA AppendIs ==
  ASSUME NEW s \in Seq(Nat), NEW x \in Nat
  PROVE  /\ Append(s, x) \in Seq(Nat) /\ Len(Append(s, x)) = Len(s) + 1
         /\ \A k \in 1..Len(s) : Append(s, x)[k] = s[k]
         /\ Append(s, x)[Len(s) + 1] = x
OBVIOUS

LEMMA TailIs ==
  ASSUME NEW s \in Seq(Nat), s # <<>>
  PROVE  /\ Tail(s) \in Seq(Nat) /\ Len(Tail(s)) = Len(s) - 1 /\ Len(s) >= 1
         /\ \A k \in 1..(Len(s) - 1) : Tail(s)[k] = s[k + 1]
         /\ Head(s) = s[1] /\ Head(s) \in Nat
OBVIOUS

LEMMA SubSeqIs ==
  ASSUME NEW s \in Seq(Nat), NEW i \in 0..Len(s)
  PROVE  /\ SubSeq(s, i + 1, Len(s)) \in Seq(Nat)
         /\ Len(SubSeq(s, i + 1, Len(s))) = Len(s) - i
         /\ \A k \in 1..(Len(s) - i) : SubSeq(s, i + 1, Len(s))[k] = s[k + i]
OBVIOUS

LEMMA BytesArrive ==
  ASSUME NEW f \in Seq(Nat), NEW n \in Nat, NEW b \in Seq(Nat), NEW t, NEW g,
         Ordered(f, n, b, t, g)
  PROVE  /\ Ordered(f, n + 1, b, t, g)
         /\ Len(f) < FifoSize => Ordered(Append(f, n + 1), n + 1, b, t, g)
<1>1. Ordered(f, n + 1, b, t, g)
  <2>1. 1..n \subseteq 1..(n + 1)
    OBVIOUS
  <2>. QED  BY <2>1 DEF Ordered
<1>2. ASSUME Len(f) < FifoSize
      PROVE  Ordered(Append(f, n + 1), n + 1, b, t, g)
  <2> DEFINE a == Append(f, n + 1)
  <2>1. /\ a \in Seq(Nat) /\ Len(a) = Len(f) + 1 /\ a[Len(f) + 1] = n + 1
        /\ \A k \in 1..Len(f) : a[k] = f[k] /\ f[k] \in 1..n
    BY AppendIs DEF Ordered
  <2>2. \A k \in 1..Len(a) : (k \in 1..Len(f) /\ a[k] = f[k]) \/ (k = Len(f) + 1 /\ a[k] = n + 1)
    BY <2>1
  <2>. HIDE DEF a
  <2>3. Len(a) <= FifoSize
    BY <1>2, <2>1, SerialAssumption
  <2>a. n + 1 \in 1..(n + 1) /\ \A y \in 1..n : y < n + 1 /\ y \in 1..(n + 1)
    OBVIOUS
  <2>4. \A k \in 1..Len(a) : a[k] \in 1..(n + 1)
    BY <2>1, <2>2, <2>a
  <2>5. \A k, l \in 1..Len(a) : k < l => a[k] < a[l]
    <3> SUFFICES ASSUME NEW k \in 1..Len(a), NEW l \in 1..Len(a), k < l
                 PROVE  a[k] < a[l]
      OBVIOUS
    <3>1. k \in 1..Len(f) /\ a[k] = f[k] /\ f[k] \in 1..n
      BY <2>1, <2>2
    <3>2. CASE l \in 1..Len(f)
      BY <3>1, <3>2, <2>1 DEF Ordered
    <3>3. CASE l = Len(f) + 1
      BY <3>1, <3>3, <2>1, <2>a
    <3>. QED  BY <3>2, <3>3, <2>2
  <2>6. \A x \in t, k \in 1..Len(a) : x < a[k]
    <3> SUFFICES ASSUME NEW x \in t, NEW k \in 1..Len(a)
                 PROVE  x < a[k]
      OBVIOUS
    <3>1. x \in 1..n
      BY DEF Ordered
    <3>2. CASE k \in 1..Len(f)
      BY <3>2, <2>1 DEF Ordered
    <3>3. CASE k = Len(f) + 1
      BY <3>1, <3>3, <2>1, <2>a
    <3>. QED  BY <3>2, <3>3, <2>2
  <2>7. t \subseteq 1..(n + 1)
    BY DEF Ordered
  <2>. QED  BY <2>3, <2>4, <2>5, <2>6, <2>7 DEF Ordered, a
<1>. QED  BY <1>1, <1>2

\* Bytes that are thrown away leave the UART and reach nothing else.
LEMMA BytesDropped ==
  ASSUME NEW f \in Seq(Nat), NEW n \in Nat, NEW b \in Seq(Nat), NEW t, NEW g,
         Ordered(f, n, b, t, g)
  PROVE  /\ Ordered(<<>>, n, b, t, g)
         /\ f # <<>> => Ordered(Tail(f), n, b, t, g)
<1>1. Ordered(<<>>, n, b, t, g)
  <2>1. Len(<<>>) = 0 /\ 1..0 = {} /\ 0 <= FifoSize
    BY SerialAssumption
  <2>. QED  BY <2>1 DEF Ordered
<1>2. ASSUME f # <<>>
      PROVE  Ordered(Tail(f), n, b, t, g)
  <2> DEFINE a == Tail(f)
  <2>1. /\ a \in Seq(Nat) /\ Len(a) = Len(f) - 1 /\ Len(f) \in Nat
        /\ \A k \in 1..Len(a) : a[k] = f[k + 1] /\ k + 1 \in 1..Len(f)
    BY <1>2, TailIs
  <2>. HIDE DEF a
  <2>2. \A k, l \in 1..Len(a) : k < l => k + 1 < l + 1
    BY <2>1
  <2>3. Len(a) <= FifoSize
    BY <2>1, SerialAssumption DEF Ordered
  <2>. QED  BY <2>1, <2>2, <2>3 DEF Ordered, a
<1>. QED  BY <1>1, <1>2

\* The first byte of the UART goes to the end of the buffer.
LEMMA ByteTaken ==
  ASSUME NEW f \in Seq(Nat), NEW n \in Nat, NEW b \in Seq(Nat), NEW t, NEW g,
         Ordered(f, n, b, t, g), f # <<>>, Len(b) < BufferSize
  PROVE  Ordered(Tail(f), n, Append(b, Head(f)), t \cup {Head(f)}, g)
<1> DEFINE a == Tail(f)
           h == Head(f)
           c == Append(b, h)
<1>1. /\ a \in Seq(Nat) /\ Len(a) = Len(f) - 1 /\ Len(f) \in Nat /\ 1 \in 1..Len(f)
      /\ \A k \in 1..Len(a) : a[k] = f[k + 1] /\ k + 1 \in 1..Len(f) /\ 1 < k + 1
      /\ h = f[1] /\ h \in Nat
  BY TailIs
<1>2. /\ c \in Seq(Nat) /\ Len(c) = Len(b) + 1 /\ c[Len(b) + 1] = h
      /\ \A k \in 1..Len(b) : c[k] = b[k] /\ k \in 1..Len(c)
      /\ Len(b) + 1 \in 1..Len(c)
  BY <1>1, AppendIs
<1>3. \A k \in 1..Len(c) : (k \in 1..Len(b) /\ c[k] = b[k]) \/ (k = Len(b) + 1 /\ c[k] = h)
  BY <1>2
<1>4. {c[k] : k \in 1..Len(c)} = {b[k] : k \in 1..Len(b)} \cup {h}
  BY <1>2, <1>3
<1>5. \A x \in t : x \in 1..n /\ x < h
  BY <1>1 DEF Ordered
<1>6. \A k \in 1..Len(b) : b[k] \in t
  BY DEF Ordered
<1>. HIDE DEF a, c, h
<1>7. Len(a) <= FifoSize /\ Len(c) <= BufferSize
  BY <1>1, <1>2, SerialAssumption DEF Ordered
<1>8. /\ \A k \in 1..Len(a) : a[k] \in 1..n
      /\ \A k, l \in 1..Len(a) : k < l => a[k] < a[l]
  <2>1. \A k, l \in 1..Len(a) : k < l => k + 1 < l + 1
    BY <1>1
  <2>. QED  BY <1>1, <2>1 DEF Ordered
<1>9. t \cup {h} \subseteq 1..n
  BY <1>1 DEF Ordered
<1>10. \A x \in t \cup {h}, k \in 1..Len(a) : x < a[k]
  BY <1>1 DEF Ordered
<1>11. t \cup {h} = g \cup {c[k] : k \in 1..Len(c)}
  BY <1>4 DEF Ordered
<1>12. \A x \in g, k \in 1..Len(c) : x \in {c[l] : l \in 1..Len(c)} \/ x < c[k]
  <2> SUFFICES ASSUME NEW x \in g, NEW k \in 1..Len(c), x \notin {c[l] : l \in 1..Len(c)}
               PROVE  x < c[k]
    OBVIOUS
  <2>1. x \in t /\ x \notin {b[l] : l \in 1..Len(b)}
    BY <1>4 DEF Ordered
  <2>2. CASE k \in 1..Len(b) /\ c[k] = b[k]
    BY <2>1, <2>2 DEF Ordered
  <2>3. CASE c[k] = h
    BY <2>1, <2>3, <1>5
  <2>. QED  BY <1>3, <2>2, <2>3
<1>13. \A k, l \in 1..Len(c) : k < l => c[k] < c[l]
  <2> SUFFICES ASSUME NEW k \in 1..Len(c), NEW l \in 1..Len(c), k < l
               PROVE  c[k] < c[l]
    OBVIOUS
  <2>1. k \in 1..Len(b) /\ c[k] = b[k]
    BY <1>2, <1>3
  <2>2. CASE l \in 1..Len(b) /\ c[l] = b[l]
    BY <2>1, <2>2 DEF Ordered
  <2>3. CASE c[l] = h
    BY <2>1, <2>3, <1>5, <1>6
  <2>. QED  BY <1>3, <2>2, <2>3
<1>. QED  BY <1>7, <1>8, <1>9, <1>10, <1>11, <1>12, <1>13 DEF Ordered, a, c, h

\* The program reads the first i bytes, which leave the buffer or stay there.
LEMMA BytesRead ==
  ASSUME NEW f \in Seq(Nat), NEW n \in Nat, NEW b \in Seq(Nat), NEW t, NEW g,
         Ordered(f, n, b, t, g), NEW i \in 0..Len(b)
  PROVE  /\ Ordered(f, n, b, t, g \cup {b[k] : k \in 1..i})
         /\ Ordered(f, n, SubSeq(b, i + 1, Len(b)), t, g \cup {b[k] : k \in 1..i})
<1> DEFINE c == SubSeq(b, i + 1, Len(b))
           r == g \cup {b[k] : k \in 1..i}
<1>0. Len(b) \in Nat /\ i \in Nat /\ i <= Len(b)
  OBVIOUS
<1>1. /\ c \in Seq(Nat) /\ Len(c) = Len(b) - i /\ Len(c) \in Nat
      /\ \A k \in 1..Len(c) : c[k] = b[k + i] /\ k + i \in 1..Len(b) /\ i < k + i
  <2>1. /\ c \in Seq(Nat) /\ Len(c) = Len(b) - i
        /\ \A k \in 1..(Len(b) - i) : c[k] = b[k + i]
    BY SubSeqIs
  <2>2. \A k \in 1..(Len(b) - i) : k + i \in 1..Len(b) /\ i < k + i
    BY <1>0
  <2>. HIDE DEF c
  <2>. QED  BY <1>0, <2>1, <2>2
<1>2. 1..i \subseteq 1..Len(b)
  BY <1>0
<1>3. \A k \in 1..Len(b) : k \in 1..i \/ (k - i \in 1..Len(c) /\ c[k - i] = b[k])
  <2> TAKE k \in 1..Len(b)
  <2>. HIDE DEF c
  <2>1. k \in 1..i \/ k - i \in 1..Len(c)
    BY <1>0, <1>1
  <2>2. (k - i) + i = k
    BY <1>0
  <2>. QED  BY <2>1, <2>2, <1>1
<1>4. Ordered(f, n, b, t, r)
  <2>1. t = r \cup {b[k] : k \in 1..Len(b)}
    BY <1>2 DEF Ordered
  <2>2. \A x \in r : x \in g \/ x \in {b[l] : l \in 1..Len(b)}
    BY <1>2
  <2>. HIDE DEF r
  <2>. QED  BY <2>1, <2>2 DEF Ordered
<1>5. Ordered(f, n, c, t, r)
  <2>1. {b[k] : k \in 1..Len(b)} = {b[k] : k \in 1..i} \cup {c[k] : k \in 1..Len(c)}
    <3>. HIDE DEF c
    <3>1. \A k \in 1..Len(b) : b[k] \in {b[l] : l \in 1..i} \cup {c[l] : l \in 1..Len(c)}
      BY <1>3
    <3>2. \A k \in 1..i : b[k] \in {b[l] : l \in 1..Len(b)}
      BY <1>2
    <3>3. \A k \in 1..Len(c) : c[k] \in {b[l] : l \in 1..Len(b)}
      BY <1>1
    <3>. QED  BY <3>1, <3>2, <3>3
  <2>2. t = r \cup {c[k] : k \in 1..Len(c)}
    BY <2>1 DEF Ordered
  <2>3. \A x \in r, k \in 1..Len(c) : x \in {c[l] : l \in 1..Len(c)} \/ x < c[k]
    <3> SUFFICES ASSUME NEW x \in r, NEW k \in 1..Len(c), x \notin {c[l] : l \in 1..Len(c)}
                 PROVE  x < c[k]
      OBVIOUS
    <3>1. CASE x \in {b[l] : l \in 1..i}
      <4>1. PICK l \in 1..i : x = b[l]
        BY <3>1
      <4>2. l \in 1..Len(b) /\ k + i \in 1..Len(b) /\ l < k + i /\ c[k] = b[k + i]
        BY <1>0, <1>1, <1>2
      <4>. QED  BY <4>1, <4>2 DEF Ordered
    <3>2. CASE x \notin {b[l] : l \in 1..i}
      <4>1. x \in g /\ x \notin {b[l] : l \in 1..Len(b)}
        BY <3>2, <2>1
      <4>. QED  BY <4>1, <1>1 DEF Ordered
    <3>. QED  BY <3>1, <3>2
  <2>4. \A k, l \in 1..Len(c) : k < l => c[k] < c[l]
    <3>1. \A k, l \in 1..Len(c) : k < l => k + i < l + i
      BY <1>0, <1>1
    <3>. QED  BY <3>1, <1>1 DEF Ordered
  <2>5. Len(c) <= BufferSize
    BY <1>0, <1>1, SerialAssumption DEF Ordered
  <2>. HIDE DEF c, r
  <2>. QED  BY <2>2, <2>3, <2>4, <2>5 DEF Ordered
<1>. QED  BY <1>4, <1>5

-----------------------------------------------------------------------------
(* The steps.                                                              *)

LEMMA InitInv == Init => IInv
<1> SUFFICES ASSUME Init PROVE IInv
  OBVIOUS
<1>1. DataInv
  <2> SUFFICES ASSUME NEW p \in Ports
               PROVE  /\ fifo[p] \in Seq(Nat) /\ buffer[p] \in Seq(Nat)
                      /\ signals[p] \in 0..MaxSignals[p]
                      /\ Ordered(fifo[p], signals[p], buffer[p], taken[p], got[p])
    BY DEF DataInv
  <2>1. fifo[p] = <<>> /\ buffer[p] = <<>> /\ signals[p] = 0 /\ taken[p] = {} /\ got[p] = {}
    BY DEF Init
  <2>2. MaxSignals[p] \in Nat /\ FifoSize \in Nat /\ BufferSize \in Nat
    BY SerialAssumption
  <2>3. Len(<<>>) = 0 /\ 1..0 = {}
    OBVIOUS
  <2>4. Ordered(<<>>, 0, <<>>, {}, {})
    BY <2>2, <2>3 DEF Ordered
  <2>. QED  BY <2>1, <2>2, <2>4
<1>2. Registers
  BY DEF Init, Registers
<1>3. Serving /\ Place
  BY DEF Init, Serving, Place, COM1, COM4
<1>. QED  BY <1>1, <1>2, <1>3 DEF IInv

LEMMA Latches ==
  \A i : Noticed(i) => latched' \subseteq Irqs
BY DEF Noticed

\* A step after which the UART of one port holds what it held, less some bytes.
LEMMA FifoStep ==
  ASSUME IInv, NEW p \in Ports, NEW s,
         \/ s = fifo[p]
         \/ s = <<>>
         \/ fifo[p] # <<>> /\ s = Tail(fifo[p]),
         fifo' = [fifo EXCEPT ![p] = s], UNCHANGED <<signals, buffer, taken, got>>
  PROVE  DataInv'
<1> SUFFICES ASSUME NEW q \in Ports
             PROVE  /\ fifo'[q] \in Seq(Nat) /\ buffer'[q] \in Seq(Nat)
                    /\ signals'[q] \in 0..MaxSignals[q]
                    /\ Ordered(fifo'[q], signals'[q], buffer'[q], taken'[q], got'[q])
  BY DEF DataInv
<1>1. /\ fifo[q] \in Seq(Nat) /\ buffer[q] \in Seq(Nat) /\ signals[q] \in 0..MaxSignals[q]
      /\ MaxSignals[q] \in Nat /\ signals[q] \in Nat
      /\ Ordered(fifo[q], signals[q], buffer[q], taken[q], got[q])
  BY SerialAssumption DEF IInv, DataInv
<1>2. fifo'[q] = IF q = p THEN s ELSE fifo[q]
  BY DEF IInv, Registers
<1>3. CASE fifo'[q] = fifo[q]
  BY <1>1, <1>3
<1>4. CASE fifo'[q] = <<>>
  <2>1. Ordered(<<>>, signals[q], buffer[q], taken[q], got[q])
    BY <1>1, BytesDropped
  <2>2. <<>> \in Seq(Nat)
    OBVIOUS
  <2>. QED  BY <1>1, <1>4, <2>1, <2>2
<1>5. CASE fifo[q] # <<>> /\ fifo'[q] = Tail(fifo[q])
  <2>1. Ordered(Tail(fifo[q]), signals[q], buffer[q], taken[q], got[q])
    BY <1>1, <1>5, BytesDropped
  <2>2. Tail(fifo[q]) \in Seq(Nat)
    BY <1>1, <1>5, TailIs
  <2>. QED  BY <1>1, <1>5, <2>1, <2>2
<1>. QED  BY <1>2, <1>3, <1>4, <1>5

LEMMA ReadByteStep ==
  ASSUME IInv, NEW p \in Ports, ReadByte(p), UNCHANGED <<signals, buffer, taken, got>>
  PROVE  DataInv'
<1>1. fifo' = [fifo EXCEPT ![p] = IF fifo[p] = <<>> THEN fifo[p] ELSE Tail(fifo[p])]
  BY DEF ReadByte
<1>. QED  BY <1>1, FifoStep

\* A byte arrives, or is lost, or a signal comes.
LEMMA SignalStep ==
  ASSUME IInv, NEW p \in Ports, signals[p] < MaxSignals[p],
         signals' = [signals EXCEPT ![p] = @ + 1], UNCHANGED <<buffer, taken, got>>,
         \/ UNCHANGED fifo
         \/ Len(fifo[p]) < FifoSize /\ fifo' = [fifo EXCEPT ![p] = Append(@, signals'[p])]
  PROVE  DataInv'
<1> SUFFICES ASSUME NEW q \in Ports
             PROVE  /\ fifo'[q] \in Seq(Nat) /\ buffer'[q] \in Seq(Nat)
                    /\ signals'[q] \in 0..MaxSignals[q]
                    /\ Ordered(fifo'[q], signals'[q], buffer'[q], taken'[q], got'[q])
  BY DEF DataInv
<1>1. /\ fifo[q] \in Seq(Nat) /\ buffer[q] \in Seq(Nat) /\ signals[q] \in 0..MaxSignals[q]
      /\ MaxSignals[q] \in Nat /\ signals[q] \in Nat
      /\ Ordered(fifo[q], signals[q], buffer[q], taken[q], got[q])
  BY SerialAssumption DEF IInv, DataInv
<1>2. CASE q # p
  <2>1. fifo'[q] = fifo[q] /\ signals'[q] = signals[q]
    BY <1>2 DEF IInv, Registers
  <2>. QED  BY <1>1, <2>1
<1>3. CASE q = p
  <2>1. signals'[q] = signals[q] + 1 /\ signals'[q] \in 0..MaxSignals[q]
    BY <1>1, <1>3 DEF IInv, Registers
  <2>2. \/ fifo'[q] = fifo[q]
        \/ Len(fifo[q]) < FifoSize /\ fifo'[q] = Append(fifo[q], signals[q] + 1)
    BY <1>3, <2>1 DEF IInv, Registers
  <2>3. signals[q] + 1 \in Nat
    BY <1>1
  <2>4. /\ Ordered(fifo[q], signals[q] + 1, buffer[q], taken[q], got[q])
        /\ Len(fifo[q]) < FifoSize =>
             Ordered(Append(fifo[q], signals[q] + 1), signals[q] + 1, buffer[q], taken[q], got[q])
    BY <1>1, BytesArrive
  <2>5. Append(fifo[q], signals[q] + 1) \in Seq(Nat)
    BY <1>1, <2>3, AppendIs
  <2>. QED  BY <1>1, <2>1, <2>2, <2>4, <2>5
<1>. QED  BY <1>2, <1>3

\* The handler moves a byte to the buffer.
LEMMA TakeStep ==
  ASSUME IInv, NEW p \in Ports, TakeByte(p), CanReceive(p), ~Full(p),
         UNCHANGED <<signals, got>>
  PROVE  DataInv'
<1> SUFFICES ASSUME NEW q \in Ports
             PROVE  /\ fifo'[q] \in Seq(Nat) /\ buffer'[q] \in Seq(Nat)
                    /\ signals'[q] \in 0..MaxSignals[q]
                    /\ Ordered(fifo'[q], signals'[q], buffer'[q], taken'[q], got'[q])
  BY DEF DataInv
<1>1. /\ fifo[q] \in Seq(Nat) /\ buffer[q] \in Seq(Nat) /\ signals[q] \in 0..MaxSignals[q]
      /\ signals[q] \in Nat
      /\ Ordered(fifo[q], signals[q], buffer[q], taken[q], got[q])
  BY SerialAssumption DEF IInv, DataInv
<1>2. CASE q # p
  <2>1. fifo'[q] = fifo[q] /\ buffer'[q] = buffer[q] /\ taken'[q] = taken[q]
    BY <1>2 DEF IInv, Registers, TakeByte, ReadByte
  <2>. QED  BY <1>1, <2>1
<1>3. CASE q = p
  <2>1. fifo[q] # <<>> /\ Len(buffer[q]) < BufferSize
    BY <1>1, <1>3, SerialAssumption DEF CanReceive, Full
  <2>2. /\ fifo'[q] = Tail(fifo[q]) /\ buffer'[q] = Append(buffer[q], Head(fifo[q]))
        /\ taken'[q] = taken[q] \cup {Head(fifo[q])}
    BY <1>3, <2>1 DEF IInv, Registers, TakeByte, ReadByte
  <2>3. Ordered(Tail(fifo[q]), signals[q], Append(buffer[q], Head(fifo[q])),
                taken[q] \cup {Head(fifo[q])}, got[q])
    BY <1>1, <2>1, ByteTaken
  <2>4. Tail(fifo[q]) \in Seq(Nat) /\ Append(buffer[q], Head(fifo[q])) \in Seq(Nat)
    BY <1>1, <2>1, TailIs, AppendIs
  <2>. QED  BY <1>1, <2>2, <2>3, <2>4
<1>. QED  BY <1>2, <1>3

\* The program reads from the buffer.
LEMMA ReceiveStep ==
  ASSUME IInv, Receive
  PROVE  DataInv'
<1>1. port \in Ports
  BY DEF IInv, Place, Receive
<1>2. PICK size \in ReadSizes :
        LET index == Len(buffer[port])
            i == Smaller(size, index)
        IN  /\ got' = [got EXCEPT ![port] = @ \cup {buffer[port][k] : k \in 1..i}]
            /\ buffer' = IF i < index
                         THEN [buffer EXCEPT ![port] = SubSeq(@, i + 1, index)]
                         ELSE buffer
  BY DEF Receive
<1> DEFINE b == buffer[port]
           i == Smaller(size, Len(b))
<1>3. b \in Seq(Nat) /\ Len(b) \in Nat /\ size \in Nat
  BY <1>1, SerialAssumption DEF IInv, DataInv
<1>4. i \in 0..Len(b)
  BY <1>3 DEF Smaller
<1>5. UNCHANGED <<fifo, signals, taken>>
  BY DEF Receive, uart
<1> SUFFICES ASSUME NEW q \in Ports
             PROVE  /\ fifo'[q] \in Seq(Nat) /\ buffer'[q] \in Seq(Nat)
                    /\ signals'[q] \in 0..MaxSignals[q]
                    /\ Ordered(fifo'[q], signals'[q], buffer'[q], taken'[q], got'[q])
  BY DEF DataInv
<1>6. /\ fifo[q] \in Seq(Nat) /\ buffer[q] \in Seq(Nat) /\ signals[q] \in 0..MaxSignals[q]
      /\ signals[q] \in Nat
      /\ Ordered(fifo[q], signals[q], buffer[q], taken[q], got[q])
  BY SerialAssumption DEF IInv, DataInv
<1>7. CASE q # port
  <2>1. buffer'[q] = buffer[q] /\ got'[q] = got[q]
    BY <1>2, <1>7 DEF IInv, Registers
  <2>. QED  BY <1>5, <1>6, <2>1
<1>8. CASE q = port
  <2>1. /\ got'[q] = got[q] \cup {b[k] : k \in 1..i}
        /\ buffer'[q] = b \/ buffer'[q] = SubSeq(b, i + 1, Len(b))
    BY <1>2, <1>8 DEF IInv, Registers
  <2>2. /\ Ordered(fifo[q], signals[q], b, taken[q], got[q] \cup {b[k] : k \in 1..i})
        /\ Ordered(fifo[q], signals[q], SubSeq(b, i + 1, Len(b)), taken[q],
                   got[q] \cup {b[k] : k \in 1..i})
    BY <1>3, <1>4, <1>6, <1>8, BytesRead
  <2>. QED  BY <1>3, <1>4, <1>5, <1>6, <1>8, <2>1, <2>2, SubSeqIs
<1>. QED  BY <1>7, <1>8

\* The actions that touch no byte.
LEMMA QuietStep ==
  ASSUME IInv, UNCHANGED <<fifo, signals, buffer, taken, got>>
  PROVE  DataInv'
BY DEF IInv, DataInv

LEMMA LineControlIs ==
  ASSUME NEW p, NEW c \in Configs, ParamsOK(p, c)
  PROVE  LineControl(c) \in 0..63
<1>1. c.data_bits - 5 \in 0..3 /\ c.parity \in {0, 1, 2, 3}
  <2>1. c.parity \in Nat
    BY SerialAssumption
  <2>2. c.data_bits \in 5..8 /\ c.parity <= 3
    BY SMT DEF ParamsOK
  <2>. QED  BY <2>1, <2>2
<1>2. <<0, 8, 24, 40, 56>>[c.parity + 1] \in {0, 8, 24, 40}
  BY <1>1
<1>. QED  BY <1>1, <1>2 DEF LineControl

\* UARTs and lines.
LEMMA OutsideInv ==
  ASSUME IInv, Outside
  PROVE  IInv'
<1> PICK p \in Ports : Arrive(p) \/ ModemSignal(p) \/ CharacterTimeout(p) \/ Shift(p)
  BY DEF Outside
<1>1. UNCHANGED <<handler, buffer, taken, refused, pc, port, up, intr, got>>
  BY DEF Arrive, ModemSignal, CharacterTimeout, Shift, isr, main
<1>2. DataInv'
  <2>1. CASE Arrive(p)
    <3>1. CASE Len(fifo[p]) < FifoSize
      BY <1>1, <2>1, <3>1, SignalStep DEF Arrive
    <3>2. CASE ~(Len(fifo[p]) < FifoSize)
      BY <1>1, <2>1, <3>2, SignalStep DEF Arrive
    <3>. QED  BY <3>1, <3>2
  <2>2. CASE ModemSignal(p)
    BY <1>1, <2>2, SignalStep DEF ModemSignal
  <2>3. CASE CharacterTimeout(p)
    BY <1>1, <2>3, QuietStep DEF CharacterTimeout
  <2>4. CASE Shift(p)
    BY <1>1, <2>4, QuietStep DEF Shift
  <2>. QED  BY <2>1, <2>2, <2>3, <2>4
<1>3. latched' \subseteq Irqs
  BY Latches DEF Arrive, ModemSignal, CharacterTimeout, Shift, Watched, IInv, Registers
<1>4. Registers'
  <2>1. CASE Arrive(p)
    <3>1. /\ fifo' = fifo \/ fifo' = [fifo EXCEPT ![p] = Append(@, signals'[p])]
          /\ events' = events \/ events' = [events EXCEPT ![p] = @ \cup {"line"}]
          /\ signals' = [signals EXCEPT ![p] = @ + 1]
          /\ holding' \subseteq holding /\ UNCHANGED <<timedOut, enabled, line, looped>>
      BY <2>1 DEF Arrive
    <3>2. events' \in [Ports -> SUBSET {"sent", "line", "modem"}]
      BY <3>1 DEF IInv, Registers
    <3>3. fifo' = [q \in Ports |-> fifo'[q]] /\ signals' = [q \in Ports |-> signals'[q]]
      BY <3>1 DEF IInv, Registers
    <3>. QED  BY <1>1, <1>3, <3>1, <3>2, <3>3 DEF IInv, Registers
  <2>2. CASE ModemSignal(p)
    BY <1>1, <1>3, <2>2 DEF ModemSignal, IInv, Registers
  <2>3. CASE CharacterTimeout(p)
    BY <1>1, <1>3, <2>3 DEF CharacterTimeout, IInv, Registers
  <2>4. CASE Shift(p)
    <3>1. events' = [events EXCEPT ![p] = @ \cup ({"sent"} \cap enabled[p])]
      BY <2>4 DEF Shift
    <3>2. events' \in [Ports -> SUBSET {"sent", "line", "modem"}]
      BY <3>1 DEF IInv, Registers
    <3>. QED  BY <1>1, <1>3, <2>4, <3>2 DEF Shift, IInv, Registers
  <2>. QED  BY <2>1, <2>2, <2>3, <2>4
<1>5. Serving' /\ Place'
  BY <1>1 DEF IInv, Serving, Place
<1>. QED  BY <1>2, <1>4, <1>5 DEF IInv

\* The processor takes an interrupt.
LEMMA InterruptInv ==
  ASSUME IInv, (\E i \in Irqs : Accept(i)) \/ Tick
  PROVE  IInv'
<1>1. UNCHANGED <<uart, buffer, taken, refused, port, up, intr, got>>
  BY DEF Accept, Tick, isr
<1>2. DataInv'
  BY <1>1, QuietStep DEF uart
<1>3. Registers'
  BY <1>1, Latches DEF uart, Accept, Tick, IInv, Registers
<1>4. Serving'
  <2>1. CASE Tick
    BY <2>1 DEF Tick, isr, IInv, Serving
  <2>2. CASE \E i \in Irqs : Accept(i)
    <3>1. handler' = [ports |-> <<COM1, COM3>>, reading |-> FALSE]
      BY <2>2 DEF Accept, Polled
    <3>. QED  BY <3>1 DEF Serving
  <2>. QED  BY <2>1, <2>2
<1>5. Place'
  BY <1>1 DEF Accept, Tick, Resumed, IInv, Place
<1>. QED  BY <1>2, <1>3, <1>4, <1>5 DEF IInv

LEMMA HandlerHead ==
  ASSUME Serving, Handling
  PROVE  /\ handler.ports \in {<<COM1, COM3>>, <<COM3>>} /\ handler.reading \in BOOLEAN
         /\ handler = [ports |-> handler.ports, reading |-> handler.reading]
         /\ handler.reading => Head(handler.ports) \in Ports
         /\ Tail(handler.ports) \in {<<COM3>>, <<>>}
<1>1. /\ handler \in [ports : {<<COM1, COM3>>, <<COM3>>}, reading : BOOLEAN]
      /\ handler.reading => Head(handler.ports) \in Ports
  BY DEF Serving, Handling
<1>2. Tail(<<COM1, COM3>>) = <<COM3>> /\ Tail(<<COM3>>) = <<>>
  OBVIOUS
<1>3. /\ handler.ports \in {<<COM1, COM3>>, <<COM3>>} /\ handler.reading \in BOOLEAN
      /\ handler = [ports |-> handler.ports, reading |-> handler.reading]
  BY <1>1
<1>. QED  BY <1>1, <1>2, <1>3

\* However the handler goes on, it has ports before it.
LEMMA HandlerGoesOn ==
  ASSUME Serving, Handling,
         \/ NextPort
         \/ UNCHANGED handler
         \/ handler' = [handler EXCEPT !.reading = FALSE]
         \/ handler' = [handler EXCEPT !.reading = TRUE] /\ Head(handler.ports) \in Ports
  PROVE  Serving'
<1>1. /\ handler.ports \in {<<COM1, COM3>>, <<COM3>>} /\ handler.reading \in BOOLEAN
      /\ handler = [ports |-> handler.ports, reading |-> handler.reading]
      /\ Tail(handler.ports) \in {<<COM3>>, <<>>}
  BY HandlerHead
<1>2. CASE NextPort
  <2>1. handler' = [ports |-> Tail(handler.ports), reading |-> FALSE]
    BY <1>2 DEF NextPort
  <2>. QED  BY <1>1, <2>1 DEF Serving, NoHandler
<1>3. CASE UNCHANGED handler
  BY <1>3 DEF Serving
<1>4. CASE handler' = [handler EXCEPT !.reading = FALSE]
  <2>1. handler' = [ports |-> handler.ports, reading |-> FALSE]
    BY <1>1, <1>4
  <2>. QED  BY <1>1, <2>1 DEF Serving
<1>5. CASE handler' = [handler EXCEPT !.reading = TRUE] /\ Head(handler.ports) \in Ports
  <2>1. handler' = [ports |-> handler.ports, reading |-> TRUE]
    BY <1>1, <1>5
  <2>. QED  BY <1>1, <1>5, <2>1 DEF Serving
<1>. QED  BY <1>2, <1>3, <1>4, <1>5

LEMMA HandlerInv ==
  ASSUME IInv, Handler
  PROVE  IInv'
<1> DEFINE p == Head(handler.ports)
<1>1. CASE Poll
  <2>1. /\ UNCHANGED <<fifo, timedOut, enabled, line, looped, signals, holding, buffer,
                       taken, refused, pc, port, up, intr, got>>
        /\ Handling /\ latched' \subseteq Irqs
    BY <1>1, Latches DEF Poll, Watched, main
  <2>2. DataInv'
    BY <2>1, QuietStep
  <2>3. Serving'
    BY <1>1, <2>1, HandlerGoesOn DEF Poll, Reports, HasBase, IInv
  <2>4. events' \in [Ports -> SUBSET {"sent", "line", "modem"}]
    BY <1>1 DEF Poll, ReadLineStatus, Reports, HasBase, IInv, Registers
  <2>5. Registers' /\ Place'
    BY <2>1, <2>4 DEF IInv, Registers, Place
  <2>. QED  BY <2>2, <2>3, <2>5 DEF IInv
<1>2. CASE ReadBytes
  <2>1. /\ UNCHANGED <<enabled, line, looped, signals, holding, pc, port, up, intr, got>>
        /\ Handling /\ handler.reading /\ latched' \subseteq Irqs /\ ReadLineStatus(p)
    BY <1>2, Latches DEF ReadBytes, Watched, main
  <2>2. p \in Ports
    BY <2>1, HandlerHead DEF IInv
  <2>3. \/ /\ UNCHANGED <<fifo, timedOut, buffer, taken>>
           /\ handler' = [handler EXCEPT !.reading = FALSE] \/ NextPort
           /\ refused' \subseteq refused \cup {p}
        \/ /\ CanReceive(p) /\ ~Full(p)
           /\ TakeByte(p) /\ UNCHANGED <<handler, refused>>
    BY <1>2 DEF ReadBytes
  <2>4. DataInv'
    <3>1. CASE UNCHANGED <<fifo, timedOut, buffer, taken>>
      BY <2>1, <3>1, QuietStep
    <3>2. CASE CanReceive(p) /\ ~Full(p) /\ TakeByte(p)
      BY <2>1, <2>2, <3>2, TakeStep
    <3>. QED  BY <2>3, <3>1, <3>2
  <2>5. Serving'
    BY <2>1, <2>3, HandlerGoesOn DEF IInv
  <2>6. events' \in [Ports -> SUBSET {"sent", "line", "modem"}] /\ refused' \subseteq Ports
    BY <2>1, <2>2, <2>3 DEF ReadLineStatus, IInv, Registers
  <2>7. Registers' /\ Place'
    <3>1. CASE UNCHANGED <<fifo, timedOut, buffer, taken>>
      BY <2>1, <2>6, <3>1 DEF IInv, Registers, Place
    <3>2. CASE TakeByte(p)
      BY <2>1, <2>2, <2>6, <3>2 DEF TakeByte, ReadByte, IInv, Registers, Place
    <3>. QED  BY <2>3, <3>1, <3>2
  <2>. QED  BY <2>4, <2>5, <2>7 DEF IInv
<1>. QED  BY <1>1, <1>2 DEF Handler

\* The program brings up a port.
LEMMA BringUpInv ==
  ASSUME IInv, InitRefused \/ InitPort \/ SelfTest \/ Drain \/ DrainAgain \/ DrainByte
  PROVE  IInv'
<1>1. /\ UNCHANGED <<handler, buffer, taken, refused, signals, intr, got>>
      /\ holding' \subseteq Ports
  BY DEF InitRefused, InitPort, SetParams, Struck, SelfTest, Drain, DrainAgain, DrainByte, uart,
         isr, IInv, Registers
<1>2. Serving' /\ latched' \subseteq Irqs
  BY <1>1, Latches
     DEF InitRefused, InitPort, SelfTest, Drain, DrainAgain, DrainByte, Watched, IInv, Serving,
         Registers
<1>3. pc # "init" => port \in Ports
  BY DEF InitRefused, InitPort, SelfTest, Drain, DrainAgain, DrainByte, IInv, Place
<1>4. CASE InitRefused
  <2>1. UNCHANGED <<fifo, timedOut, events, enabled, line, looped>>
    BY <1>4 DEF InitRefused, uart
  <2>2. DataInv' /\ Registers'
    BY <1>1, <1>2, <2>1, QuietStep DEF IInv, Registers
  <2>3. Place'
    BY <1>4 DEF InitRefused, NextInit, IInv, Place, COM1, COM4
  <2>. QED  BY <1>2, <2>2, <2>3 DEF IInv
<1>5. CASE InitPort
  <2>1. PICK c \in Configs : ParamsOK(port, c) /\ SetParams(port, c)
    BY <1>5 DEF InitPort
  <2>2. port \in Ports
    BY <2>1, SMT DEF ParamsOK, HasBase
  <2>3. DataInv'
    BY <1>1, <1>5, <2>2, FifoStep DEF InitPort
  <2>4. line' \in [Ports -> 0..63]
    BY <2>1, <2>2, LineControlIs DEF SetParams, IInv, Registers
  <2>5. enabled' \in [Ports -> SUBSET {"bytes", "sent", "line", "modem"}]
    <3> DEFINE Ier(q) == IF q = port THEN {}
                         ELSE IF q \in Struck(port) THEN Enables(Divisor(c.baud) \div 256)
                         ELSE enabled[q]
    <3>1. enabled' = [q \in Ports |-> Ier(q)]
      BY <2>1 DEF SetParams
    <3>2. Enables(Divisor(c.baud) \div 256) \subseteq {"bytes", "sent", "line", "modem"}
      BY DEF Enables
    <3>3. \A q \in Ports : Ier(q) \subseteq {"bytes", "sent", "line", "modem"}
      BY <3>2 DEF IInv, Registers
    <3> HIDE DEF Ier
    <3>. QED  BY <3>1, <3>3
  <2>6. Registers'
    BY <1>1, <1>2, <1>5, <2>2, <2>4, <2>5 DEF InitPort, IInv, Registers
  <2>7. Place'
    BY <1>5, <2>2 DEF InitPort, IInv, Place
  <2>. QED  BY <1>2, <2>3, <2>6, <2>7 DEF IInv
<1>6. CASE SelfTest
  <2>1. /\ port \in Ports /\ ReadLineStatus(port) /\ UNCHANGED <<enabled, line, up>>
        /\ \/ pc' = "drain" /\ UNCHANGED <<fifo, timedOut, looped, port>>
           \/ NextInit /\ ReadByte(port) /\ looped' = [looped EXCEPT ![port] = TRUE]
    BY <1>3, <1>6 DEF SelfTest
  <2>2. DataInv'
    BY <1>1, <2>1, QuietStep, ReadByteStep
  <2>3. Registers'
    BY <1>1, <1>2, <2>1 DEF ReadLineStatus, ReadByte, IInv, Registers
  <2>4. Place'
    BY <1>6, <2>1, SerialAssumption DEF SelfTest, NextInit, IInv, Place, COM1, COM2, COM3, COM4
  <2>. QED  BY <1>2, <2>2, <2>3, <2>4 DEF IInv
<1>7. CASE Drain
  <2>1. /\ port \in Ports /\ ReadLineStatus(port) /\ UNCHANGED <<line, looped, up, port>>
        /\ \/ ReadByte(port) /\ UNCHANGED <<enabled, pc>>
           \/ /\ enabled' = [enabled EXCEPT ![port] = {"bytes", "line", "modem"}]
              /\ pc' = "drain_again" /\ UNCHANGED <<fifo, timedOut>>
    BY <1>3, <1>7 DEF Drain
  <2>2. DataInv'
    BY <1>1, <2>1, QuietStep, ReadByteStep
  <2>3. Registers'
    <3>1. enabled' \in [Ports -> SUBSET {"bytes", "sent", "line", "modem"}]
      <4>1. CASE UNCHANGED enabled
        BY <4>1 DEF IInv, Registers
      <4>2. CASE enabled' = [enabled EXCEPT ![port] = {"bytes", "line", "modem"}]
        BY <4>2 DEF IInv, Registers
      <4>. QED  BY <2>1, <4>1, <4>2
    <3>. QED  BY <1>1, <1>2, <2>1, <3>1 DEF ReadLineStatus, ReadByte, IInv, Registers
  <2>4. Place'
    BY <1>7, <2>1 DEF Drain, IInv, Place
  <2>. QED  BY <1>2, <2>2, <2>3, <2>4 DEF IInv
<1>8. CASE DrainAgain
  <2>1. /\ port \in Ports /\ ReadLineStatus(port)
        /\ UNCHANGED <<fifo, timedOut, enabled, line, looped>>
        /\ \/ pc' = "drain_byte" /\ UNCHANGED <<port, up>>
           \/ NextInit /\ up' = up \cup {port}
    BY <1>3, <1>8 DEF DrainAgain
  <2>2. DataInv'
    BY <1>1, <2>1, QuietStep
  <2>3. Registers'
    BY <1>1, <1>2, <2>1 DEF ReadLineStatus, IInv, Registers
  <2>4. Place'
    <3>1. CASE pc' = "drain_byte" /\ UNCHANGED <<port, up>>
      BY <2>1, <3>1 DEF IInv, Place
    <3>2. CASE NextInit /\ up' = up \cup {port}
      <4>1. port \in 0..3 /\ up' \subseteq Ports
        BY <2>1, <3>2, SerialAssumption DEF IInv, Place, COM1, COM2, COM3, COM4
      <4>2. /\ port' = port + 1
            /\ pc' = "idle" \/ (pc' = "init" /\ port # 3)
        BY <3>2 DEF NextInit, COM4
      <4>. QED  BY <4>1, <4>2 DEF Place, COM1, COM4
    <3>. QED  BY <2>1, <3>1, <3>2
  <2>. QED  BY <1>2, <2>2, <2>3, <2>4 DEF IInv
<1>9. CASE DrainByte
  <2>1. /\ port \in Ports /\ ReadByte(port) /\ pc' = "drain_again"
        /\ UNCHANGED <<events, enabled, line, looped, port, up>>
    BY <1>3, <1>9 DEF DrainByte
  <2>2. DataInv'
    BY <1>1, <2>1, ReadByteStep
  <2>3. Registers'
    BY <1>1, <1>2, <2>1 DEF ReadByte, IInv, Registers
  <2>4. Place'
    BY <2>1 DEF IInv, Place
  <2>. QED  BY <1>2, <2>2, <2>3, <2>4 DEF IInv
<1>. QED  BY <1>4, <1>5, <1>6, <1>7, <1>8, <1>9

\* The program uses a port that is up.
LEMMA UseInv ==
  ASSUME IInv,
         \/ AsyncReceive \/ Check \/ Sti \/ Hlt \/ Receive
         \/ StartTransmit \/ WaitTransmit \/ TryTransmit
  PROVE  IInv'
<1>1. /\ UNCHANGED <<fifo, signals, taken, handler, refused, timedOut, enabled, line, looped>>
      /\ up' = up
  BY DEF AsyncReceive, Check, Sti, Hlt, Receive, StartTransmit, WaitTransmit, TryTransmit,
         Transmit, uart, isr
<1>2. Serving' /\ latched' \subseteq Irqs
  BY <1>1, Latches
     DEF AsyncReceive, Check, Sti, Hlt, Receive, StartTransmit, WaitTransmit, TryTransmit,
         Transmit, Watched, IInv, Serving, Registers
<1>3. CASE Receive
  <2>1. UNCHANGED <<events, holding, port, intr>> /\ pc' = "idle" /\ port \in Ports
    BY <1>3 DEF Receive, uart, IInv, Place
  <2>2. DataInv' /\ Place'
    BY <1>1, <1>3, <2>1, ReceiveStep DEF IInv, Place
  <2>3. Registers'
    BY <1>1, <1>2, <1>3, <2>1 DEF Receive, IInv, Registers
  <2>. QED  BY <1>2, <2>2, <2>3 DEF IInv
<1>4. CASE AsyncReceive \/ Check \/ Sti \/ Hlt \/ StartTransmit
  <2>1. UNCHANGED <<buffer, got, events, holding>>
    BY <1>4 DEF AsyncReceive, Check, Sti, Hlt, StartTransmit, uart, isr
  <2>2. intr' \in BOOLEAN
    BY <1>4 DEF AsyncReceive, Check, Sti, Hlt, StartTransmit, IInv, Registers
  <2>3. DataInv' /\ Registers'
    BY <1>1, <1>2, <2>1, <2>2, QuietStep DEF IInv, Registers
  <2>4. up \subseteq COM1..(COM4 + 1)
    BY SerialAssumption DEF IInv, Place, COM1, COM2, COM3, COM4
  <2>5. Place'
    BY <1>1, <1>4, <2>4 DEF AsyncReceive, Check, Sti, Hlt, StartTransmit, IInv, Place
  <2>. QED  BY <1>2, <2>3, <2>5 DEF IInv
<1>5. CASE WaitTransmit \/ TryTransmit
  <2>1. /\ port \in up /\ port \in Ports /\ UNCHANGED <<buffer, got, port, intr>>
        /\ ReadLineStatus(port) /\ holding' \subseteq holding \cup {port}
        /\ pc' \in {"idle", "transmit"}
    BY <1>5 DEF WaitTransmit, TryTransmit, Transmit, isr, IInv, Place
  <2>2. DataInv' /\ Place'
    BY <1>1, <2>1, QuietStep DEF IInv, Place
  <2>3. Registers'
    BY <1>1, <1>2, <2>1 DEF ReadLineStatus, IInv, Registers
  <2>. QED  BY <1>2, <2>2, <2>3 DEF IInv
<1>. QED  BY <1>3, <1>4, <1>5

LEMMA NextInv == IInv /\ [Next]_vars => IInv'
<1> SUFFICES ASSUME IInv, [Next]_vars PROVE IInv'
  OBVIOUS
<1>1. CASE Next
  BY <1>1, OutsideInv, InterruptInv, HandlerInv, BringUpInv, UseInv DEF Next, Main
<1>2. CASE UNCHANGED vars
  BY <1>2, QuietStep DEF vars, uart, isr, main, IInv, Registers, Serving, Place
<1>. QED  BY <1>1, <1>2

\* The registers of every UART, the handler's place and the bytes on their way
\* fit together in every reachable state, whatever arrives in between.
THEOREM Invariance == Spec => []IInv
BY InitInv, NextInv, PTL DEF Spec

-----------------------------------------------------------------------------

\* FIFOs and buffers hold no more than there is room for, bytes that have
\* arrived; the handler reads from a port that is there.
THEOREM TypeCorrect == Spec => []TypeOK
<1>1. IInv => TypeOK
  <2> SUFFICES ASSUME IInv PROVE TypeOK
    OBVIOUS
  <2>1. ASSUME NEW p \in Ports
        PROVE  /\ fifo[p] \in Seq(Bytes(p)) /\ Len(fifo[p]) <= FifoSize
               /\ buffer[p] \in Seq(Bytes(p)) /\ Len(buffer[p]) <= BufferSize
               /\ events[p] \subseteq {"sent", "line", "modem"} /\ signals[p] \in 0..MaxSignals[p]
               /\ taken[p] \subseteq Bytes(p) /\ got[p] \subseteq Bytes(p)
    <3>1. /\ fifo[p] \in Seq(Nat) /\ buffer[p] \in Seq(Nat)
          /\ signals[p] \in 0..MaxSignals[p] /\ MaxSignals[p] \in Nat
          /\ Ordered(fifo[p], signals[p], buffer[p], taken[p], got[p])
      BY SerialAssumption DEF IInv, DataInv
    <3>2. 1..signals[p] \subseteq Bytes(p)
      BY <3>1 DEF Bytes
    <3>3. taken[p] \subseteq Bytes(p) /\ got[p] \subseteq Bytes(p)
      BY <3>1, <3>2 DEF Ordered
    <3>4. /\ \A k \in 1..Len(fifo[p]) : fifo[p][k] \in Bytes(p)
          /\ \A k \in 1..Len(buffer[p]) : buffer[p][k] \in Bytes(p)
      BY <3>1, <3>2, <3>3 DEF Ordered
    <3>5. fifo[p] \in Seq(Bytes(p)) /\ buffer[p] \in Seq(Bytes(p))
      BY <3>1, <3>4, SeqTyped
    <3>. QED  BY <3>1, <3>3, <3>5 DEF Ordered, IInv, Registers
  <2>2. handler.reading => handler.ports # <<>> /\ Head(handler.ports) \in Ports
    BY DEF IInv, Serving, NoHandler
  <2>3. pc \in {"init", "self_test", "drain", "drain_again", "drain_byte",
                "idle", "check", "sti", "hlt", "halted", "receive",
                "transmit", "try_transmit"}
    BY DEF IInv, Place
  <2>. QED  BY <2>1, <2>2, <2>3 DEF IInv, Registers, Place, TypeOK
<1>. QED  BY <1>1, Invariance, PTL

\* SER_process_port_irq and the reads by the program, in any order: the bytes
\* taken from a UART are read, or wait in its buffer, none lost or overtaken.
THEOREM Safety == Spec => []NothingTakenIsLost
<1>1. IInv => NothingTakenIsLost
  <2> SUFFICES ASSUME IInv, NEW p \in Ports
               PROVE  /\ taken[p] = got[p] \cup Kept(p)
                      /\ \A b \in got[p] \ Kept(p), c \in Kept(p) : b < c
                      /\ \A k \in 2..Len(buffer[p]) : buffer[p][k - 1] < buffer[p][k]
    BY DEF NothingTakenIsLost
  <2>1. /\ buffer[p] \in Seq(Nat)
        /\ Ordered(fifo[p], signals[p], buffer[p], taken[p], got[p])
    BY DEF IInv, DataInv
  <2>2. \A k \in 2..Len(buffer[p]) : k - 1 \in 1..Len(buffer[p]) /\ k \in 1..Len(buffer[p]) /\ k - 1 < k
    BY <2>1
  <2>. QED  BY <2>1, <2>2 DEF Ordered, Kept
<1>. QED  BY <1>1, Invariance, PTL
=============================================================================
