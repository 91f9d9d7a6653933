--------------------------- MODULE NetBootProofs ----------------------------
(***************************************************************************)
(* What a download delivers, what the command host keeps, and that it runs *)
(* its scripts as they read, proved for every set of scripts and files,    *)
(* packet size and limit of packet numbers; and that a line of a script    *)
(* says what whoever wrote its values meant, proved for all values, those  *)
(* that the log has printed included.                                      *)
(***************************************************************************)
EXTENDS MC_NetBoot, SequenceTheorems, WellFoundedInduction, TLAPS

-----------------------------------------------------------------------------
(* What resizing and writing return, for files of any bytes.               *)

LEMMA ResizedIs ==
  ASSUME NEW B, Junk \in B, NEW bytes \in Seq(B), NEW n \in Nat
  PROVE  /\ Resized(bytes, n) \in Seq(B)
         /\ Len(Resized(bytes, n)) = n
         /\ \A i \in 1..n : Resized(bytes, n)[i] = IF i <= Len(bytes) THEN bytes[i] ELSE Junk
<1> DEFINE r == [i \in 1..n |-> IF i <= Len(bytes) THEN bytes[i] ELSE Junk]
<1>1. \A i \in 1..n : (IF i <= Len(bytes) THEN bytes[i] ELSE Junk) \in B
  <2> SUFFICES ASSUME NEW i \in 1..n, i <= Len(bytes) PROVE bytes[i] \in B
    OBVIOUS
  <2> QED BY ElementOfSeq
<1>2. r \in Seq(B)
  BY <1>1, IsASeq
<1>3. Len(r) = n
  BY <1>2, LenProperties
<1> QED BY <1>2, <1>3 DEF Resized

LEMMA AtLeastIs ==
  ASSUME NEW B, Junk \in B, NEW bytes \in Seq(B), NEW n \in Nat
  PROVE  /\ AtLeast(bytes, n) \in Seq(B)
         /\ Len(AtLeast(bytes, n)) = IF n > Len(bytes) THEN n ELSE Len(bytes)
         /\ \A i \in 1..Len(AtLeast(bytes, n)) :
              AtLeast(bytes, n)[i] = IF i <= Len(bytes) THEN bytes[i] ELSE Junk
<1>1. CASE n > Len(bytes)
  BY <1>1, ResizedIs DEF AtLeast
<1>2. CASE ~(n > Len(bytes))
  BY <1>2 DEF AtLeast
<1> QED BY <1>1, <1>2

\* Writing changes the bytes written to and, where the file was shorter,
\* makes it end with them.
LEMMA WriteAtIs ==
  ASSUME NEW B, Junk \in B, NEW bytes \in Seq(B), NEW at \in 0..Len(bytes), NEW src \in Seq(B)
  PROVE  /\ WriteAt(bytes, at, src) \in Seq(B)
         /\ Len(WriteAt(bytes, at, src))
              = IF at + Len(src) > Len(bytes) THEN at + Len(src) ELSE Len(bytes)
         /\ \A i \in 1..Len(WriteAt(bytes, at, src)) :
              WriteAt(bytes, at, src)[i]
                = IF i > at /\ i <= at + Len(src) THEN src[i - at] ELSE bytes[i]
<1> DEFINE end  == at + Len(src)
           room == AtLeast(bytes, end)
           to   == Len(room)
           w(i) == IF i > at /\ i <= end THEN src[i - at] ELSE room[i]
<1>1. end \in Nat
  BY LenProperties
<1>2. /\ room \in Seq(B) /\ to \in Nat
      /\ to = IF end > Len(bytes) THEN end ELSE Len(bytes)
      /\ \A i \in 1..to : room[i] = IF i <= Len(bytes) THEN bytes[i] ELSE Junk
  BY <1>1, AtLeastIs, LenProperties
<1> HIDE DEF room, to
<1>3. \A i \in 1..to : w(i) \in B
  <2> SUFFICES ASSUME NEW i \in 1..to PROVE w(i) \in B
    OBVIOUS
  <2>1. CASE i > at /\ i <= end
    <3>1. i - at \in 1..Len(src)
      BY <2>1, LenProperties
    <3> QED BY <2>1, <3>1, ElementOfSeq
  <2>2. CASE ~(i > at /\ i <= end)
    <3>1. room[i] \in B
      BY <1>2, ElementOfSeq DEF to
    <3> QED BY <2>2, <3>1
  <2> QED BY <2>1, <2>2
<1>4. WriteAt(bytes, at, src) = [i \in 1..to |-> w(i)]
  BY DEF WriteAt, room, to
<1>5. WriteAt(bytes, at, src) \in Seq(B)
  BY <1>2, <1>3, <1>4, IsASeq
<1>6. Len(WriteAt(bytes, at, src)) = to
  BY <1>2, <1>4, <1>5, LenProperties
<1>7. ASSUME NEW i \in 1..to
      PROVE  WriteAt(bytes, at, src)[i]
               = IF i > at /\ i <= at + Len(src) THEN src[i - at] ELSE bytes[i]
  <2>1. WriteAt(bytes, at, src)[i] = w(i)
    BY <1>4
  <2>2. ~(i > at /\ i <= end) => i <= Len(bytes)
    BY <1>1, <1>2, LenProperties
  <2>3. ~(i > at /\ i <= end) => room[i] = bytes[i]
    BY <1>2, <2>2
  <2> QED BY <2>1, <2>3
<1> QED BY <1>2, <1>5, <1>6, <1>7

-----------------------------------------------------------------------------
(* The bytes.                                                              *)

LEMMA JunkIsByte == Junk \in Byte
BY DEF Byte

LEMMA PortionIs ==
  ASSUME NEW file \in Seq(Byte), NEW from \in 0..Len(file), NEW n \in Nat
  PROVE  /\ Portion(file, from, n) \in Seq(Byte)
         /\ Len(Portion(file, from, n)) = Smaller(from + n, Len(file)) - from
         /\ \A i \in 1..Len(Portion(file, from, n)) : Portion(file, from, n)[i] = file[from + i]
<1> DEFINE to == Smaller(from + n, Len(file))
<1>1. Len(file) \in Nat
  BY LenProperties
<1>2. to \in Nat /\ from <= to /\ to <= Len(file)
  BY <1>1 DEF Smaller
<1> HIDE DEF to
<1>3. \A i \in (from + 1)..to : file[i] \in Byte
  BY <1>1, <1>2, ElementOfSeq
<1>4. /\ SubSeq(file, from + 1, to) \in Seq(Byte)
      /\ Len(SubSeq(file, from + 1, to)) = to - from
      /\ \A i \in 1..(to - from) : SubSeq(file, from + 1, to)[i] = file[from + i]
  <2>1. /\ SubSeq(file, from + 1, to) \in Seq(Byte)
        /\ Len(SubSeq(file, from + 1, to)) = IF from + 1 <= to THEN to - (from + 1) + 1 ELSE 0
        /\ \A i \in 1..(to - (from + 1) + 1) : SubSeq(file, from + 1, to)[i] = file[from + 1 + i - 1]
    BY <1>1, <1>2, <1>3, SubSeqProperties
  <2>2. to - (from + 1) + 1 = to - from
    BY <1>2
  <2>3. ASSUME NEW i \in 1..(to - from) PROVE from + 1 + i - 1 = from + i
    BY <1>2
  <2> QED BY <1>2, <2>1, <2>2, <2>3
<1>5. Portion(file, from, n) = SubSeq(file, from + 1, to)
  BY DEF Portion, to
<1> QED BY <1>4, <1>5 DEF to

\* What a download of k bytes into a file of m bytes has written.
Written(file, m, k) == WriteAt(Resized(<<>>, m), 0, Portion(file, 0, k))

LEMMA WrittenIs ==
  ASSUME NEW file \in Seq(Byte), NEW m \in Nat, NEW k \in 0..Len(file)
  PROVE  /\ Written(file, m, k) \in Seq(Byte)
         /\ Len(Written(file, m, k)) = IF k > m THEN k ELSE m
         /\ \A i \in 1..Len(Written(file, m, k)) :
              Written(file, m, k)[i] = IF i <= k THEN file[i] ELSE Junk
<1> DEFINE fresh == Resized(<<>>, m)
           part  == Portion(file, 0, k)
<1>1. Len(file) \in Nat /\ k \in Nat /\ 0 \in 0..Len(file)
  BY LenProperties
<1>2. /\ part \in Seq(Byte) /\ Len(part) = k
      /\ \A i \in 1..k : part[i] = file[i]
  BY <1>1, PortionIs DEF Smaller
<1>3. <<>> \in Seq(Byte) /\ Len(<<>>) = 0
  BY EmptySeq
<1>4. /\ fresh \in Seq(Byte) /\ Len(fresh) = m
      /\ \A i \in 1..m : fresh[i] = Junk
  <2>1. /\ fresh \in Seq(Byte) /\ Len(fresh) = m
        /\ \A i \in 1..m : fresh[i] = IF i <= Len(<<>>) THEN <<>>[i] ELSE Junk
    BY <1>3, ResizedIs, JunkIsByte
  <2> HIDE DEF fresh
  <2> QED BY <1>3, <2>1
<1> HIDE DEF fresh, part
<1>5. 0 \in 0..Len(fresh)
  BY <1>4
<1>6. /\ WriteAt(fresh, 0, part) \in Seq(Byte)
      /\ Len(WriteAt(fresh, 0, part)) = IF 0 + Len(part) > Len(fresh) THEN 0 + Len(part) ELSE Len(fresh)
      /\ \A i \in 1..Len(WriteAt(fresh, 0, part)) :
           WriteAt(fresh, 0, part)[i]
             = IF i > 0 /\ i <= 0 + Len(part) THEN part[i - 0] ELSE fresh[i]
  BY <1>2, <1>4, <1>5, WriteAtIs, JunkIsByte
<1>7. Written(file, m, k) = WriteAt(fresh, 0, part)
  BY DEF Written, fresh, part
<1>8. Len(Written(file, m, k)) = IF k > m THEN k ELSE m
  BY <1>1, <1>2, <1>4, <1>6, <1>7
<1>9. ASSUME NEW i \in 1..Len(Written(file, m, k))
      PROVE  Written(file, m, k)[i] = IF i <= k THEN file[i] ELSE Junk
  <2>1. i \in Nat /\ i > 0 /\ i - 0 = i /\ 0 + Len(part) = k
    BY <1>1, <1>2, <1>8
  <2>2. Written(file, m, k)[i] = IF i <= k THEN part[i] ELSE fresh[i]
    BY <1>6, <1>7, <2>1
  <2>3. i <= k => part[i] = file[i]
    BY <1>2, <2>1, <1>1
  <2>4. ~(i <= k) => fresh[i] = Junk
    BY <1>1, <1>4, <1>8, <2>1
  <2> QED BY <2>2, <2>3, <2>4
<1> QED BY <1>6, <1>7, <1>8, <1>9

\* Writing the next portion behind what has been written.
LEMMA WrittenGrows ==
  ASSUME NEW file \in Seq(Byte), NEW m \in Nat, NEW k \in 0..Len(file), NEW n \in Nat
  PROVE  WriteAt(Written(file, m, k), k, Portion(file, k, n))
           = Written(file, m, Smaller(k + n, Len(file)))
<1> DEFINE to    == Smaller(k + n, Len(file))
           old   == Written(file, m, k)
           part  == Portion(file, k, n)
           left  == WriteAt(old, k, part)
           right == Written(file, m, to)
<1>1. Len(file) \in Nat /\ k \in Nat
  BY LenProperties
<1>2. to \in 0..Len(file) /\ k <= to
  BY <1>1 DEF Smaller
<1>3. /\ old \in Seq(Byte) /\ Len(old) = IF k > m THEN k ELSE m
      /\ \A i \in 1..Len(old) : old[i] = IF i <= k THEN file[i] ELSE Junk
  BY WrittenIs
<1>4. /\ part \in Seq(Byte) /\ Len(part) = to - k
      /\ \A i \in 1..Len(part) : part[i] = file[k + i]
  BY <1>1, PortionIs
<1>5. /\ right \in Seq(Byte) /\ Len(right) = IF to > m THEN to ELSE m
      /\ \A i \in 1..Len(right) : right[i] = IF i <= to THEN file[i] ELSE Junk
  BY <1>2, WrittenIs
<1> HIDE DEF to, old, part, right
<1>6. k \in 0..Len(old) /\ k + Len(part) = to
  BY <1>1, <1>2, <1>3, <1>4
<1>7. /\ left \in Seq(Byte)
      /\ Len(left) = IF to > Len(old) THEN to ELSE Len(old)
      /\ \A i \in 1..Len(left) : left[i] = IF i > k /\ i <= to THEN part[i - k] ELSE old[i]
  <2>1. /\ left \in Seq(Byte)
        /\ Len(left) = IF k + Len(part) > Len(old) THEN k + Len(part) ELSE Len(old)
        /\ \A i \in 1..Len(left) :
             left[i] = IF i > k /\ i <= k + Len(part) THEN part[i - k] ELSE old[i]
    BY <1>3, <1>4, <1>6, WriteAtIs, JunkIsByte
  <2> HIDE DEF left
  <2> QED BY <1>6, <2>1
<1> HIDE DEF left
<1>8. Len(left) = Len(right)
  BY <1>1, <1>2, <1>3, <1>5, <1>7
<1>9. ASSUME NEW i \in 1..Len(left) PROVE left[i] = right[i]
  <2>1. i \in Nat /\ i > 0
    BY <1>7, LenProperties
  <2>2. right[i] = IF i <= to THEN file[i] ELSE Junk
    BY <1>5, <1>8
  <2>3. CASE i > k /\ i <= to
    <3>1. left[i] = part[i - k]
      BY <1>7, <2>3
    <3>2. i - k \in 1..Len(part) /\ k + (i - k) = i
      BY <1>1, <1>2, <1>4, <2>1, <2>3
    <3>3. part[i - k] = file[k + (i - k)]
      BY <1>4, <3>2
    <3> QED BY <2>2, <2>3, <3>1, <3>2, <3>3
  <2>4. CASE ~(i > k /\ i <= to)
    <3>1. left[i] = old[i]
      BY <1>7, <2>4
    <3>2. i \in 1..Len(old) /\ (i <= k <=> i <= to)
      BY <1>1, <1>2, <1>3, <1>7, <2>1, <2>4
    <3> QED BY <1>3, <2>2, <3>1, <3>2
  <2> QED BY <2>3, <2>4
<1>10. left = right
  BY <1>5, <1>7, <1>8, <1>9, SeqEqual
<1> QED BY <1>10 DEF left, right, old, part, to

\* All of it, where there is room for just that.
LEMMA WrittenWhole ==
  ASSUME NEW file \in Seq(Byte)
  PROVE  Written(file, Len(file), Len(file)) = file
<1> DEFINE w == Written(file, Len(file), Len(file))
<1>1. Len(file) \in Nat /\ Len(file) \in 0..Len(file)
  BY LenProperties
<1>2. w \in Seq(Byte) /\ Len(w) = Len(file)
      /\ \A i \in 1..Len(w) : w[i] = IF i <= Len(file) THEN file[i] ELSE Junk
  BY <1>1, WrittenIs
<1> HIDE DEF w
<1>3. \A i \in 1..Len(w) : w[i] = file[i]
  BY <1>1, <1>2
<1>4. w = file
  BY <1>2, <1>3, SeqEqual
<1> QED BY <1>4 DEF w

-----------------------------------------------------------------------------
(* The invariant.                                                          *)

TftpTypes ==
  /\ version \in [Names -> Nat] /\ \A n \in Names : version[n] <= Len(Files[n])
  /\ rom \in [open : BOOLEAN, file : Seq(Byte), sent : Nat, packet : 0..(PacketLimit - 1)]
  /\ rom.sent <= Len(rom.file)
  /\ name \in Names /\ fileSize \in Nat /\ bytesRead \in Nat
  /\ lastPacket \in 0..(PacketLimit - 1)
  /\ out \in Seq(Byte) /\ offset \in 0..Len(out)
  /\ steady \in BOOLEAN

\* The file written to is new until the connection is there.
Fresh == pc \in {"get_fsize", "tftp_open"} => out = <<>> /\ offset = 0

\* What the server has not changed has the size it said.
Measured == pc = "tftp_open" /\ steady => Served(name) /\ fileSize = Len(File(name))

Opened ==
  Downloading /\ steady =>
    Served(name) /\ rom.file = File(name) /\ fileSize = Len(rom.file)

\* Program and ROM agree on how far they are, and that much is written.
Position ==
  Downloading =>
    /\ offset = bytesRead /\ rom.sent = bytesRead /\ rom.packet = lastPacket
    /\ out = Written(rom.file, fileSize, bytesRead)

Finished ==
  pc \in {"tftp_close", "downloaded"} => bytesRead >= fileSize \/ bytesRead = Len(rom.file)

Closed == pc = "downloaded" => ~rom.open

TftpInv ==
  TftpTypes /\ Fresh /\ Measured /\ Opened /\ Position /\ Finished /\ Closed

LEMMA FileIsBytes ==
  ASSUME TftpTypes, NEW n \in Names, Served(n)
  PROVE  /\ version[n] \in 1..Len(Files[n])
         /\ File(n) \in Seq(Byte) /\ Len(File(n)) \in Nat
<1>1. Files[n] \in Seq(Seq(Byte)) /\ Len(Files[n]) \in Nat
  BY TftpAssumption, LenProperties
<1>2. version[n] \in 1..Len(Files[n])
  BY <1>1 DEF TftpTypes, Served
<1>3. Files[n][version[n]] \in Seq(Byte)
  BY <1>1, <1>2, ElementOfSeq
<1> QED BY <1>2, <1>3, LenProperties DEF File

LEMMA TypesAtStart ==
  ASSUME version = [n \in Names |-> IF Files[n] = <<>> THEN 0 ELSE 1],
         rom = NoConnection, name \in Names, steady = TRUE,
         fileSize = 0, bytesRead = 0, lastPacket = 0, out = <<>>, offset = 0
  PROVE  TftpTypes
<1>1. <<>> \in Seq(Byte) /\ Len(<<>>) = 0
  BY EmptySeq
<1>2. ASSUME NEW n \in Names
      PROVE  /\ (IF Files[n] = <<>> THEN 0 ELSE 1) \in Nat
             /\ (IF Files[n] = <<>> THEN 0 ELSE 1) <= Len(Files[n])
  <2>1. Files[n] \in Seq(Seq(Byte)) /\ Len(Files[n]) \in Nat
    BY TftpAssumption, LenProperties
  <2>2. Files[n] # <<>> => Len(Files[n]) \in Nat \ {0}
    BY <2>1, EmptySeq
  <2> QED BY <2>1, <2>2
<1>3. version \in [Names -> Nat] /\ \A n \in Names : version[n] <= Len(Files[n])
  BY <1>2
<1>4. rom \in [open : BOOLEAN, file : Seq(Byte), sent : Nat, packet : 0..(PacketLimit - 1)]
      /\ rom.sent <= Len(rom.file)
  BY <1>1, TftpAssumption DEF NoConnection, NoFile
<1> QED BY <1>1, <1>3, <1>4, TftpAssumption DEF TftpTypes

LEMMA TftpInvInit == TftpInit => TftpInv
<1> SUFFICES ASSUME TftpInit PROVE TftpInv
  OBVIOUS
<1>1. TftpTypes
  BY TypesAtStart DEF TftpInit
<1> QED BY <1>1 DEF TftpInit, TftpInv, Fresh, Measured, Opened, Position, Finished, Closed, Downloading

-----------------------------------------------------------------------------
(* The steps.                                                              *)

\* What changes neither server nor connection nor file, and is not a step into
\* the middle of a download.
LEMMA ElsewhereKeeps ==
  ASSUME TftpInv, name' \in Names,
         UNCHANGED <<server, rom, fileSize, bytesRead, lastPacket, written, steady>>,
         pc' \notin {"get_fsize", "tftp_open", "tftp_read", "tftp_close", "downloaded"}
  PROVE  TftpInv'
<1>1. TftpTypes'
  BY DEF TftpInv, TftpTypes, server, written
<1> QED BY <1>1 DEF TftpInv, Fresh, Measured, Opened, Position, Finished, Closed, Downloading

LEMMA RefusedKeeps ==
  ASSUME TftpInv, Refused
  PROVE  TftpInv'
BY ElsewhereKeeps DEF Refused, Goto, TftpInv, TftpTypes, transfer, written, server

LEMMA StartKeeps ==
  ASSUME TftpInv, NEW n \in Names, Start(n), out' = <<>>, offset' = 0
  PROVE  TftpInv'
<1>1. <<>> \in Seq(Byte) /\ Len(<<>>) = 0
  BY EmptySeq
<1>2. TftpTypes'
  BY <1>1, TftpAssumption DEF TftpInv, TftpTypes, Start, server
<1> QED BY <1>2 DEF TftpInv, Start, Fresh, Measured, Opened, Position, Finished, Closed, Downloading

LEMMA PublishKeeps ==
  ASSUME TftpInv, NEW n \in Names, Publish(n)
  PROVE  TftpInv'
<1>1. Len(Files[n]) \in Nat
  BY TftpAssumption, LenProperties
<1>2. /\ version' = [version EXCEPT ![n] = version[n] + 1]
      /\ version[n] \in 1..(Len(Files[n]) - 1)
      /\ steady' = (steady /\ n # name)
      /\ UNCHANGED <<rom, name, fileSize, bytesRead, lastPacket, out, offset, pc>>
  BY DEF Publish, transfer, written
<1>3. version' \in [Names -> Nat] /\ \A m \in Names : version'[m] <= Len(Files[m])
  BY <1>1, <1>2 DEF TftpInv, TftpTypes
<1>4. steady' \in BOOLEAN
  BY <1>2
<1>5. TftpTypes'
  BY <1>2, <1>3, <1>4 DEF TftpInv, TftpTypes
<1>6. steady' => steady /\ version'[name] = version[name]
  BY <1>2 DEF TftpInv, TftpTypes
<1>7. steady' => steady /\ (Served(name) => Served(name)') /\ File(name)' = File(name)
  BY <1>2, <1>6 DEF Served, File
<1>8. Measured' /\ Opened'
  BY <1>2, <1>7 DEF TftpInv, Measured, Opened, Downloading
<1> QED BY <1>2, <1>5, <1>8 DEF TftpInv, Fresh, Position, Finished, Closed, Downloading

LEMMA GetFileSizeKeeps ==
  ASSUME TftpInv, GetFileSize
  PROVE  TftpInv'
<1>1. CASE Refused
  BY <1>1, RefusedKeeps
<1>2. CASE ~Refused
  <2>1. /\ pc = "get_fsize" /\ Served(name)
        /\ fileSize' = Len(File(name)) /\ steady' = TRUE /\ pc' = "tftp_open"
        /\ UNCHANGED <<version, out, offset, rom, name, bytesRead, lastPacket>>
    BY <1>2 DEF GetFileSize, server, written
  <2>2. Len(File(name)) \in Nat
    BY <2>1, FileIsBytes DEF TftpInv, TftpTypes
  <2>3. TftpTypes'
    BY <2>1, <2>2 DEF TftpInv, TftpTypes
  <2>4. Measured'
    BY <2>1 DEF Measured, Served, File
  <2> QED BY <2>1, <2>3, <2>4 DEF TftpInv, Fresh, Opened, Position, Finished, Closed, Downloading
<1> QED BY <1>1, <1>2

LEMMA TftpOpenKeeps ==
  ASSUME TftpInv, TftpOpen
  PROVE  TftpInv'
<1>1. CASE Refused
  BY <1>1, RefusedKeeps
<1>2. CASE ~Refused
  <2>1. /\ pc = "tftp_open" /\ Served(name)
        /\ rom' = [open |-> TRUE, file |-> File(name), sent |-> 0, packet |-> 0]
        /\ out' = IF fileSize = 0 THEN out ELSE Resized(out, fileSize)
        /\ bytesRead' = 0 /\ lastPacket' = 0 /\ pc' = "tftp_read"
        /\ UNCHANGED <<version, offset, name, fileSize, steady>>
    BY <1>2 DEF TftpOpen, server
  <2>2. File(name) \in Seq(Byte) /\ Len(File(name)) \in Nat
    BY <2>1, FileIsBytes DEF TftpInv, TftpTypes
  <2>3. fileSize \in Nat /\ out = <<>> /\ offset = 0
    BY <2>1 DEF TftpInv, TftpTypes, Fresh
  <2>4. <<>> \in Seq(Byte) /\ Len(<<>>) = 0
    BY EmptySeq
  <2>5. /\ Resized(<<>>, fileSize) \in Seq(Byte) /\ Len(Resized(<<>>, fileSize)) = fileSize
        /\ \A i \in 1..fileSize : Resized(<<>>, fileSize)[i] = IF i <= Len(<<>>) THEN <<>>[i] ELSE Junk
    BY <2>3, <2>4, ResizedIs, JunkIsByte
  <2>6. \A i \in 1..fileSize : Resized(<<>>, fileSize)[i] = Junk
    BY <2>4, <2>5
  <2>7. out' \in Seq(Byte) /\ Len(out') = fileSize /\ \A i \in 1..Len(out') : out'[i] = Junk
    BY <2>1, <2>3, <2>4, <2>5, <2>6
  <2>8. /\ Written(File(name), fileSize, 0) \in Seq(Byte)
        /\ Len(Written(File(name), fileSize, 0)) = IF 0 > fileSize THEN 0 ELSE fileSize
        /\ \A i \in 1..Len(Written(File(name), fileSize, 0)) :
             Written(File(name), fileSize, 0)[i] = IF i <= 0 THEN File(name)[i] ELSE Junk
    BY <2>2, <2>3, WrittenIs
  <2>9. out' = Written(File(name), fileSize, 0)
    <3> DEFINE w == Written(File(name), fileSize, 0)
    <3> HIDE DEF w
    <3>1. w \in Seq(Byte) /\ Len(w) = Len(out') /\ \A i \in 1..Len(out') : w[i] = out'[i]
      BY <2>3, <2>7, <2>8 DEF w
    <3>2. out' = w
      BY <2>7, <3>1, SeqEqual
    <3> QED BY <3>2 DEF w
  <2>10. TftpTypes'
    BY <2>1, <2>2, <2>3, <2>7, TftpAssumption DEF TftpInv, TftpTypes
  <2>11. Position'
    BY <2>1, <2>3, <2>9 DEF Position
  <2>12. Opened'
    BY <2>1 DEF TftpInv, Measured, Opened, Served, File
  <2> QED BY <2>1, <2>10, <2>11, <2>12 DEF TftpInv, Fresh, Measured, Finished, Closed
<1> QED BY <1>1, <1>2

\* Of what the ROM may hand over, only the next packet has the next number.
LEMMA OnlyNextIsTaken ==
  ASSUME TftpTypes, rom.packet = lastPacket, NEW p \in Packets, p.number = lastPacket + 1
  PROVE  p = Packet(1)
<1> DEFINE L == PacketLimit
<1>1. rom.packet \in 0..(L - 1) /\ L \in Nat /\ L > 1
  BY TftpAssumption DEF TftpTypes
<1>2. p = Packet(0) => p.number = rom.packet % L
  BY <1>1 DEF Packet
<1>3. p = Packet(2) => p.number = (rom.packet + 2) % L
  BY DEF Packet
<1>4. rom.packet % L = rom.packet
  BY <1>1
<1>5. (rom.packet + 2) % L # rom.packet + 1
  <2>1. CASE rom.packet + 2 < L
    <3>1. (rom.packet + 2) % L = rom.packet + 2
      BY <1>1, <2>1
    <3> QED BY <1>1, <3>1
  <2>2. CASE ~(rom.packet + 2 < L)
    <3>1. (rom.packet + 2) % L \in 0..(L - 1)
      BY <1>1
    <3>2. rom.packet + 1 >= L - 1
      BY <1>1, <2>2
    <3>3. CASE rom.packet + 2 = L
      <4>1. (rom.packet + 2) % L = 0
        BY <1>1, <3>3
      <4> QED BY <1>1, <4>1
    <3>4. CASE rom.packet + 2 # L
      <4>1. rom.packet + 1 >= L
        BY <1>1, <2>2, <3>4
      <4> QED BY <1>1, <3>1, <4>1
    <3> QED BY <3>3, <3>4
  <2> QED BY <2>1, <2>2
<1>6. p = Packet(1) \/ p = Packet(0) \/ p = Packet(2)
  BY DEF Packets
<1> QED BY <1>1, <1>2, <1>3, <1>4, <1>5, <1>6

LEMMA ReadPacketKeeps ==
  ASSUME TftpInv, ReadPacket
  PROVE  TftpInv'
<1>1. CASE Refused
  BY <1>1, RefusedKeeps
<1>2. CASE ~Refused
  <2>1. pc = "tftp_read" /\ bytesRead < fileSize
    BY DEF ReadPacket
  <2>2. PICK p \in Packets :
          /\ p.number = lastPacket + 1
          /\ rom' = [rom EXCEPT !.sent = p.sent, !.packet = p.number]
          /\ out' = WriteAt(out, offset, p.bytes)
          /\ offset' = offset + Len(p.bytes)
          /\ bytesRead' = bytesRead + Len(p.bytes)
          /\ lastPacket' = p.number
          /\ pc' = IF Len(p.bytes) < PacketSize THEN "tftp_close" ELSE "tftp_read"
          /\ UNCHANGED <<server, name, fileSize, steady>>
    BY <1>2 DEF ReadPacket
  <2>3. /\ TftpTypes /\ offset = bytesRead /\ rom.sent = bytesRead /\ rom.packet = lastPacket
        /\ out = Written(rom.file, fileSize, bytesRead)
    BY <2>1 DEF TftpInv, Position, Downloading
  <2> DEFINE file == rom.file
             k    == bytesRead
             to   == Smaller(k + PacketSize, Len(file))
  <2>4. /\ file \in Seq(Byte) /\ Len(file) \in Nat /\ k \in 0..Len(file)
        /\ PacketSize \in Nat \ {0} /\ PacketLimit \in Nat \ {0, 1}
        /\ fileSize \in Nat
    BY <2>3, LenProperties, TftpAssumption DEF TftpTypes
  <2>5. p = Packet(1)
    BY <2>2, <2>3, OnlyNextIsTaken
  <2>6. /\ p.number = (rom.packet + 1) % PacketLimit
        /\ p.bytes = Portion(file, k + (1 - 1) * PacketSize, PacketSize)
        /\ p.sent = Smaller(k + 1 * PacketSize, Len(file))
    BY <2>3, <2>5 DEF Packet
  <2>7. p.bytes = Portion(file, k, PacketSize) /\ p.sent = to
    <3>1. (1 - 1) * PacketSize = 0 /\ 1 * PacketSize = PacketSize /\ k + 0 = k
      BY <2>4
    <3> QED BY <2>6, <3>1
  <2>8. p.number \in 0..(PacketLimit - 1)
    <3>1. rom.packet + 1 \in Nat
      BY <2>3 DEF TftpTypes
    <3> QED BY <2>4, <2>6, <3>1
  <2>9. Portion(file, k, PacketSize) \in Seq(Byte) /\ Len(Portion(file, k, PacketSize)) = to - k
    BY <2>4, PortionIs
  <2>10. to \in 0..Len(file) /\ k <= to /\ (to - k < PacketSize => to = Len(file))
    BY <2>4 DEF Smaller
  <2>11. WriteAt(Written(file, fileSize, k), k, Portion(file, k, PacketSize)) = Written(file, fileSize, to)
    BY <2>4, WrittenGrows
  <2>12. Written(file, fileSize, to) \in Seq(Byte)
         /\ Len(Written(file, fileSize, to)) = IF to > fileSize THEN to ELSE fileSize
    BY <2>4, <2>10, WrittenIs
  <2> HIDE DEF to
  <2>13. /\ rom' = [rom EXCEPT !.sent = to, !.packet = p.number]
         /\ out' = Written(file, fileSize, to)
         /\ offset' = to /\ bytesRead' = to
         /\ pc' = IF to - k < PacketSize THEN "tftp_close" ELSE "tftp_read"
    BY <2>2, <2>3, <2>4, <2>7, <2>9, <2>10, <2>11
  <2>14. /\ rom' \in [open : BOOLEAN, file : Seq(Byte), sent : Nat, packet : 0..(PacketLimit - 1)]
         /\ rom'.file = file /\ rom'.sent = to /\ rom'.packet = p.number /\ rom'.open = rom.open
    <3>1. rom \in [open : BOOLEAN, file : Seq(Byte), sent : Nat, packet : 0..(PacketLimit - 1)]
      BY <2>3 DEF TftpTypes
    <3>2. to \in Nat
      BY <2>10
    <3> QED BY <2>8, <2>13, <3>1, <3>2
  <2>15. TftpTypes'
    <3>1. to \in Nat /\ to <= Len(file) /\ to <= Len(Written(file, fileSize, to))
      BY <2>4, <2>10, <2>12
    <3>2. out' \in Seq(Byte) /\ offset' \in 0..Len(out')
      BY <2>12, <2>13, <3>1
    <3>3. UNCHANGED <<version, name, fileSize, steady>> /\ lastPacket' = p.number
      BY <2>2 DEF server
    <3> HIDE DEF file, k
    <3> QED BY <2>3, <2>8, <2>13, <2>14, <3>1, <3>2, <3>3 DEF TftpTypes
  <2>16. Position'
    BY <2>2, <2>13, <2>14 DEF Position
  <2>17. Finished'
    BY <2>10, <2>13, <2>14 DEF Finished
  <2>18. Opened'
    <3>1. steady' => Served(name) /\ file = File(name) /\ fileSize = Len(file)
      BY <2>1, <2>2 DEF TftpInv, Opened, Downloading
    <3> QED BY <2>2, <2>14, <3>1 DEF Opened, Served, File, server
  <2> QED BY <2>13, <2>15, <2>16, <2>17, <2>18 DEF TftpInv, Fresh, Measured, Closed
<1> QED BY <1>1, <1>2

LEMMA AllReadKeeps ==
  ASSUME TftpInv, AllRead
  PROVE  TftpInv'
<1>1. /\ pc = "tftp_read" /\ bytesRead >= fileSize /\ pc' = "tftp_close"
      /\ UNCHANGED <<version, rom, name, fileSize, bytesRead, lastPacket, out, offset, steady>>
  BY DEF AllRead, Goto, server, transfer, written
<1>2. TftpTypes'
  BY <1>1 DEF TftpInv, TftpTypes
<1> QED BY <1>1, <1>2 DEF TftpInv, Fresh, Measured, Opened, Position, Finished, Closed, Downloading, Served, File

LEMMA TftpCloseKeeps ==
  ASSUME TftpInv, TftpClose
  PROVE  TftpInv'
<1>1. CASE Refused
  BY <1>1, RefusedKeeps
<1>2. CASE ~Refused
  <2>1. /\ pc = "tftp_close" /\ rom' = [rom EXCEPT !.open = FALSE] /\ pc' = "downloaded"
        /\ UNCHANGED <<version, name, fileSize, bytesRead, lastPacket, out, offset, steady>>
    BY <1>2 DEF TftpClose, server, written
  <2>2. /\ rom' \in [open : BOOLEAN, file : Seq(Byte), sent : Nat, packet : 0..(PacketLimit - 1)]
        /\ rom'.file = rom.file /\ rom'.sent = rom.sent /\ rom'.packet = rom.packet /\ rom'.open = FALSE
    BY <2>1 DEF TftpInv, TftpTypes
  <2>3. TftpTypes'
    BY <2>1, <2>2 DEF TftpInv, TftpTypes
  <2> QED BY <2>1, <2>2, <2>3
          DEF TftpInv, Fresh, Measured, Opened, Position, Finished, Closed, Downloading, Served, File
<1> QED BY <1>1, <1>2

LEMMA DownloadKeeps ==
  ASSUME TftpInv, DownloadStep
  PROVE  TftpInv'
BY GetFileSizeKeeps, TftpOpenKeeps, ReadPacketKeeps, RefusedKeeps, AllReadKeeps, TftpCloseKeeps
   DEF DownloadStep, ReadRefused

LEMMA StutterKeeps ==
  ASSUME TftpInv, UNCHANGED tftpVars
  PROVE  TftpInv'
<1>1. UNCHANGED <<version, rom, name, fileSize, bytesRead, lastPacket, out, offset, pc, steady>>
  BY DEF tftpVars, server, transfer, written
<1>2. TftpTypes'
  BY <1>1 DEF TftpInv, TftpTypes
<1> QED BY <1>1, <1>2
        DEF TftpInv, Fresh, Measured, Opened, Position, Finished, Closed, Downloading, Served, File

-----------------------------------------------------------------------------
(* What follows from it.                                                   *)

LEMMA InvIsTyped == TftpInv => TftpTypeOK
<1> SUFFICES ASSUME TftpInv PROVE TftpTypeOK
  OBVIOUS
<1>1. \A n \in Names : version[n] \in 0..Len(Files[n])
  <2> TAKE n \in Names
  <2>1. Len(Files[n]) \in Nat
    BY TftpAssumption, LenProperties
  <2> QED BY <2>1 DEF TftpInv, TftpTypes
<1>2. rom.sent \in 0..Len(rom.file)
  BY LenProperties DEF TftpInv, TftpTypes
<1> QED BY <1>1, <1>2 DEF TftpInv, TftpTypes, TftpTypeOK

LEMMA InvDeliversPrefix == TftpInv => DeliversPrefix
BY DEF TftpInv, Position, DeliversPrefix, Written

LEMMA InvWholeOnSuccess == TftpInv => WholeOnSuccess
<1> SUFFICES ASSUME TftpInv, pc = "downloaded" PROVE ~rom.open /\ (steady => out = rom.file)
  BY DEF WholeOnSuccess
<1>1. ~rom.open
  BY DEF TftpInv, Closed
<1>2. ASSUME steady PROVE out = rom.file
  <2>1. /\ fileSize = Len(rom.file) /\ out = Written(rom.file, fileSize, bytesRead)
        /\ rom.sent = bytesRead
        /\ bytesRead >= fileSize \/ bytesRead = Len(rom.file)
    BY <1>2 DEF TftpInv, Opened, Position, Finished, Downloading
  <2>2. rom.file \in Seq(Byte) /\ Len(rom.file) \in Nat /\ bytesRead \in Nat /\ bytesRead <= Len(rom.file)
    BY <2>1, LenProperties DEF TftpInv, TftpTypes
  <2>3. bytesRead = Len(rom.file)
    BY <2>1, <2>2
  <2> QED BY <2>1, <2>2, <2>3, WrittenWhole
<1> QED BY <1>1, <1>2

LEMMA TftpNextKeeps == TftpInv /\ [TftpNext]_tftpVars => TftpInv'
<1> SUFFICES ASSUME TftpInv, [TftpNext]_tftpVars PROVE TftpInv'
  OBVIOUS
<1>1. ASSUME NEW n \in Names, StartDownload(n) PROVE TftpInv'
  BY <1>1, StartKeeps DEF StartDownload
<1>2. ASSUME NEW n \in Names, Publish(n) PROVE TftpInv'
  BY <1>2, PublishKeeps
<1>3. CASE DownloadStep
  BY <1>3, DownloadKeeps
<1>4. CASE UNCHANGED tftpVars
  BY <1>4, StutterKeeps
<1> QED BY <1>1, <1>2, <1>3, <1>4 DEF TftpNext

\* One download after another keeps program, ROM and file in step.
THEOREM TftpSafety == TftpSpec => []TftpInv
BY TftpInvInit, TftpNextKeeps, PTL DEF TftpSpec

\* Numbers stay in range, whatever packets the ROM hands over.
THEOREM TftpTypeCorrect == TftpSpec => []TftpTypeOK
BY TftpSafety, InvIsTyped, PTL

\* Whatever comes, what is in the file is what the server's file begins with.
THEOREM PrefixDelivered == TftpSpec => []DeliversPrefix
BY TftpSafety, InvDeliversPrefix, PTL

\* A download reported as a success is one, and has closed the connection.
THEOREM SuccessIsWhole == TftpSpec => []WholeOnSuccess
BY TftpSafety, InvWholeOnSuccess, PTL

\* Why a download ends: a packet is only taken if it has the number after the
\* last one, and the numbers come to an end even where the file does not.  What
\* is left is the calls that a download makes in turn, and in its loop the
\* packets that still have a number.
Remaining ==
  CASE pc = "get_fsize"  -> PacketLimit + 3
    [] pc = "tftp_open"  -> PacketLimit + 2
    [] pc = "tftp_read"  -> PacketLimit - lastPacket + 1
    [] pc = "tftp_close" -> 1
    [] OTHER             -> 0

DownloadShortens ==
  [][ /\ DownloadStep => Remaining' < Remaining
      /\ \A n \in Names : Publish(n) => Remaining' = Remaining ]_tftpVars

LEMMA DownloadStepShortens ==
  ASSUME TftpInv, TftpInv', DownloadStep
  PROVE  Remaining' < Remaining /\ Remaining' \in Nat
<1>1. /\ PacketLimit \in Nat \ {0, 1}
      /\ lastPacket \in 0..(PacketLimit - 1) /\ lastPacket' \in 0..(PacketLimit - 1)
  BY TftpAssumption DEF TftpInv, TftpTypes
<1>2. CASE Refused
  <2>1. pc \in {"get_fsize", "tftp_open", "tftp_read", "tftp_close"}
    BY DEF DownloadStep, GetFileSize, TftpOpen, ReadPacket, ReadRefused, AllRead, TftpClose
  <2> QED BY <1>1, <1>2, <2>1 DEF Refused, Goto, Remaining
<1>3. CASE GetFileSize /\ ~Refused
  BY <1>1, <1>3 DEF GetFileSize, Remaining
<1>4. CASE TftpOpen /\ ~Refused
  BY <1>1, <1>4 DEF TftpOpen, Remaining
<1>5. CASE ReadPacket /\ ~Refused
  <2>1. pc = "tftp_read" /\ lastPacket' = lastPacket + 1 /\ pc' \in {"tftp_read", "tftp_close"}
    BY <1>5 DEF ReadPacket
  <2> QED BY <1>1, <2>1 DEF Remaining
<1>6. CASE AllRead
  BY <1>1, <1>6 DEF AllRead, Goto, Remaining
<1>7. CASE TftpClose /\ ~Refused
  BY <1>1, <1>7 DEF TftpClose, Remaining
<1> QED BY <1>2, <1>3, <1>4, <1>5, <1>6, <1>7 DEF DownloadStep, ReadRefused

\* Every call a download makes brings it nearer to its end, by at most as many
\* steps as packets have numbers, whatever the ROM hands over and whatever is put
\* in place on the server meanwhile.
THEOREM DownloadRunsDown == TftpSpec => DownloadShortens
<1>1. TftpInv /\ TftpInv' /\ [TftpNext]_tftpVars
        => [ /\ DownloadStep => Remaining' < Remaining
             /\ \A n \in Names : Publish(n) => Remaining' = Remaining ]_tftpVars
  <2>1. ASSUME NEW n \in Names, Publish(n) PROVE Remaining' = Remaining
    BY <2>1 DEF Publish, transfer, Remaining
  <2> QED BY <2>1, DownloadStepShortens
<1> QED BY <1>1, TftpSafety, PTL DEF TftpSpec, DownloadShortens

-----------------------------------------------------------------------------
(* The invariant.                                                          *)

Statuses == {Ok, Error, Nothing}
FrameType == [text : Seq(Byte), at : Nat \ {0}, arg : Nat \ {0}, status : Statuses]
EntryType == [name : Names, data : Seq(Byte), steady : BOOLEAN]

HostTypes ==
  /\ disk \in Seq(EntryType)
  /\ entry \in Names \cup {NoEntry}
  /\ frames \in Seq(FrameType)
  /\ fetching \in [why : {"exec", "disp", "load"}, retry : {0, 1}]
  /\ failed \in BOOLEAN

\* A script is at one of its lines, but that the innermost one may have come
\* to its end.
Within(frame) == frame.at <= Len(frame.text)
InText ==
  \A i \in 1..Len(frames) :
    \/ Within(frames[i])
    \/ /\ i = Len(frames) /\ pc \in {"line", "return"}
       /\ frames[i].at <= Len(frames[i].text) + 1

Fetching ==
  {"fetch", "get_fsize", "tftp_open", "tftp_read", "tftp_close", "downloaded", "download_failed"}

\* Somebody is there to go on: what is fetched for a command is fetched by a
\* script; and nothing is downloaded a second time.
Depth ==
  /\ pc \in {"line", "command", "return"} => frames # <<>>
  /\ pc \in Fetching /\ fetching.why # "exec" => frames # <<>>
  /\ pc \in Fetching \ {"fetch"} => fetching.retry = 0

Clean == entry = NoEntry /\ ~rom.open
Stopping == pc = "aborted" \/ (pc = "return" /\ Last(frames).status # Ok)

\* What a failed download leaves open is there only while everything stops.
Left ==
  /\ pc \in {"fetch", "line", "command"} => Clean
  /\ pc = "return" => Clean \/ Stopping
  /\ pc \in {"get_fsize", "tftp_open"} => ~rom.open
  /\ InDownload => entry = name

Halted == failed => Stopping

NetInv ==
  TftpInv /\ HostTypes /\ InText /\ Depth /\ Left /\ Halted /\ RamDiskServed

-----------------------------------------------------------------------------
(* Sequences of frames.                                                    *)

\* There is a least one.
LEMMA LeastNat ==
  ASSUME NEW T, T \subseteq Nat, T # {}
  PROVE  \E n \in T : \A m \in T : n <= m
<1> DEFINE below == {p \in Nat \X Nat : p[1] < p[2]}
<1>1. IsWellFoundedOn(below, Nat)
  BY NatLessThanWellFounded DEF OpToRel
<1>2. \A i, j \in Nat : j < i => <<j, i>> \in below
  OBVIOUS
<1> HIDE DEF below
<1>3. PICK i \in T : \A j \in T : ~(<<j, i>> \in below)
  BY <1>1, WFMin, Zenon
<1>4. ASSUME NEW j \in T PROVE i <= j
  <2>1. i \in Nat /\ j \in Nat /\ ~(<<j, i>> \in below)
    BY <1>3
  <2>2. ~(j < i)
    BY <1>2, <2>1
  <2> QED BY <2>1, <2>2
<1> QED BY <1>4

LEMMA LastIs ==
  ASSUME NEW S, NEW fs \in Seq(S), fs # <<>>
  PROVE  Len(fs) \in Nat \ {0} /\ Last(fs) = fs[Len(fs)] /\ Last(fs) \in S
<1>1. Len(fs) \in Nat \ {0}
  BY EmptySeq, LenProperties
<1> QED BY <1>1, ElementOfSeq DEF Last

LEMMA SetTopIs ==
  ASSUME NEW S, NEW fs \in Seq(S), fs # <<>>, NEW f \in S
  PROVE  /\ SetTop(fs, f) \in Seq(S) /\ SetTop(fs, f) # <<>>
         /\ Len(SetTop(fs, f)) = Len(fs)
         /\ Last(SetTop(fs, f)) = f
         /\ \A i \in 1..Len(fs) : SetTop(fs, f)[i] = IF i = Len(fs) THEN f ELSE fs[i]
<1>1. Len(fs) \in Nat \ {0}
  BY LastIs
<1>2. /\ [fs EXCEPT ![Len(fs)] = f] \in Seq(S)
      /\ Len([fs EXCEPT ![Len(fs)] = f]) = Len(fs)
      /\ \A i \in 1..Len(fs) : [fs EXCEPT ![Len(fs)] = f][i] = IF i = Len(fs) THEN f ELSE fs[i]
  BY <1>1, ExceptSeq
<1>3. SetTop(fs, f) # <<>>
  BY <1>1, <1>2, EmptySeq DEF SetTop
<1> QED BY <1>1, <1>2, <1>3 DEF SetTop, Last

LEMMA FrontIs ==
  ASSUME NEW S, NEW fs \in Seq(S), fs # <<>>
  PROVE  /\ Front(fs) \in Seq(S) /\ Len(Front(fs)) = Len(fs) - 1
         /\ \A i \in 1..(Len(fs) - 1) : Front(fs)[i] = fs[i]
<1>1. Len(fs) \in Nat \ {0}
  BY LastIs
<1>2. \A i \in 1..(Len(fs) - 1) : fs[i] \in S
  BY <1>1, ElementOfSeq
<1>3. /\ SubSeq(fs, 1, Len(fs) - 1) \in Seq(S)
      /\ Len(SubSeq(fs, 1, Len(fs) - 1))
           = IF 1 <= Len(fs) - 1 THEN (Len(fs) - 1) - 1 + 1 ELSE 0
      /\ \A i \in 1..((Len(fs) - 1) - 1 + 1) : SubSeq(fs, 1, Len(fs) - 1)[i] = fs[1 + i - 1]
  BY <1>1, <1>2, SubSeqProperties
<1>4. (Len(fs) - 1) - 1 + 1 = Len(fs) - 1 /\ \A i \in 1..(Len(fs) - 1) : 1 + i - 1 = i
  BY <1>1
<1> QED BY <1>1, <1>3, <1>4 DEF Front

LEMMA ByteCommand ==
  ASSUME NEW f \in FrameType, Within(f)
  PROVE  f.text[f.at] \in Byte
BY ElementOfSeq, LenProperties DEF FrameType, Within

\* The first of the entries of a name is one.
LEMMA ContentsIs ==
  ASSUME HostTypes, NEW n \in Names, OnDisk(n)
  PROVE  Contents(n) \in Seq(Byte)
<1> DEFINE H == Hits(n)
           first == CHOOSE i \in H : \A j \in H : i <= j
<1>1. DOMAIN disk = 1..Len(disk) /\ Len(disk) \in Nat
  BY LenProperties DEF HostTypes
<1>2. H \subseteq Nat /\ H # {} /\ H \subseteq 1..Len(disk)
  BY <1>1 DEF Hits, OnDisk
<1> HIDE DEF H
<1>3. \E i \in H : \A j \in H : i <= j
  BY <1>2, LeastNat
<1>4. first \in 1..Len(disk)
  BY <1>2, <1>3
<1> HIDE DEF first
<1>5. disk[first] \in EntryType
  BY <1>4, ElementOfSeq DEF HostTypes
<1>6. Contents(n) = disk[first].data
  BY DEF Contents, first, H
<1> QED BY <1>5, <1>6 DEF EntryType

-----------------------------------------------------------------------------
(* What a step makes of the scripts being executed.                        *)

LEMMA AllWithin ==
  ASSUME HostTypes, InText, pc \notin {"line", "return"} \/ (pc = "line" /\ ~AtEnd)
  PROVE  \A i \in 1..Len(frames) : Within(frames[i])
<1> SUFFICES ASSUME NEW i \in 1..Len(frames) PROVE Within(frames[i])
  OBVIOUS
<1>1. CASE Within(frames[i])
  BY <1>1
<1>2. CASE ~Within(frames[i])
  <2>1. i = Len(frames) /\ pc = "line" /\ ~(frames[i].at > Len(frames[i].text))
    BY <1>2 DEF InText, AtEnd, Frame, Last
  <2>2. frames[i] \in FrameType
    BY ElementOfSeq DEF HostTypes
  <2>3. frames[i].at \in Nat /\ Len(frames[i].text) \in Nat
    BY <2>2, LenProperties DEF FrameType
  <2> QED BY <1>2, <2>1, <2>3 DEF Within
<1> QED BY <1>1, <1>2

LEMMA FrontWithin ==
  ASSUME HostTypes, InText, frames # <<>>
  PROVE  /\ Front(frames) \in Seq(FrameType)
         /\ \A i \in 1..Len(Front(frames)) : Within(Front(frames)[i])
<1>1. /\ Front(frames) \in Seq(FrameType) /\ Len(Front(frames)) = Len(frames) - 1
      /\ \A i \in 1..(Len(frames) - 1) : Front(frames)[i] = frames[i]
      /\ Len(frames) \in Nat \ {0}
  BY FrontIs, LastIs DEF HostTypes
<1>2. ASSUME NEW i \in 1..Len(Front(frames)) PROVE Within(Front(frames)[i])
  <2>1. i \in 1..Len(frames) /\ i # Len(frames) /\ Front(frames)[i] = frames[i]
    BY <1>1
  <2> QED BY <2>1 DEF InText
<1> QED BY <1>1, <1>2

LEMMA FrameMoves ==
  ASSUME NEW x \in FrameType, NEW status \in Statuses
  PROVE  /\ x.at \in Nat /\ Len(x.text) \in Nat
         /\ LET f == [x EXCEPT !.arg = @ + 1]
            IN  f \in FrameType /\ f.at = x.at /\ f.text = x.text
         /\ LET f == [x EXCEPT !.arg = 1]
            IN  f \in FrameType /\ f.at = x.at /\ f.text = x.text
         /\ LET f == NextLine(x, status)
            IN  f \in FrameType /\ f.at = x.at + 1 /\ f.text = x.text /\ f.status = status
<1>1. /\ x = [text |-> x.text, at |-> x.at, arg |-> x.arg, status |-> x.status]
      /\ x.text \in Seq(Byte) /\ x.at \in Nat \ {0} /\ x.arg \in Nat \ {0}
      /\ x.status \in Statuses
  BY DEF FrameType
<1>2. x.at \in Nat /\ Len(x.text) \in Nat
  BY <1>1, LenProperties
<1>3. x.arg + 1 \in Nat \ {0} /\ x.at + 1 \in Nat \ {0}
  BY <1>1
<1>4. [x EXCEPT !.arg = @ + 1]
        = [text |-> x.text, at |-> x.at, arg |-> x.arg + 1, status |-> x.status]
  BY <1>1
<1>5. NextLine(x, status)
        = [text |-> x.text, at |-> x.at + 1, arg |-> x.arg, status |-> status]
  <2> DEFINE y == [x EXCEPT !.at = x.at + 1]
  <2>1. y = [text |-> x.text, at |-> x.at + 1, arg |-> x.arg, status |-> x.status]
    BY <1>1
  <2>2. NextLine(x, status) = [y EXCEPT !.status = status]
    BY DEF NextLine
  <2> HIDE DEF y
  <2>3. y.text = x.text /\ y.at = x.at + 1 /\ y.arg = x.arg
    BY <2>1
  <2>4. [y EXCEPT !.status = status]
          = [text |-> y.text, at |-> y.at, arg |-> y.arg, status |-> status]
    BY <2>1
  <2> QED BY <2>2, <2>3, <2>4
<1>6. [text |-> x.text, at |-> x.at, arg |-> x.arg + 1, status |-> x.status] \in FrameType
  BY <1>1, <1>3 DEF FrameType
<1>7. [x EXCEPT !.arg = 1]
        = [text |-> x.text, at |-> x.at, arg |-> 1, status |-> x.status]
  BY <1>1
<1>8. [text |-> x.text, at |-> x.at, arg |-> 1, status |-> x.status] \in FrameType
  BY <1>1 DEF FrameType
<1>9. [text |-> x.text, at |-> x.at + 1, arg |-> x.arg, status |-> status] \in FrameType
  BY <1>1, <1>3 DEF FrameType
<1> QED BY <1>2, <1>4, <1>5, <1>6, <1>7, <1>8, <1>9

\* The innermost script goes on with its next argument.
LEMMA NextArgIs ==
  ASSUME NEW fs \in Seq(FrameType), fs # <<>>, \A i \in 1..Len(fs) : Within(fs[i])
  PROVE  /\ NextArg(fs) \in Seq(FrameType) /\ NextArg(fs) # <<>>
         /\ \A i \in 1..Len(NextArg(fs)) : Within(NextArg(fs)[i])
<1> DEFINE f == [Last(fs) EXCEPT !.arg = @ + 1]
<1>1. Last(fs) \in FrameType /\ Last(fs) = fs[Len(fs)] /\ Len(fs) \in Nat \ {0}
  BY LastIs
<1>2. f \in FrameType /\ f.at = Last(fs).at /\ f.text = Last(fs).text
  BY <1>1, FrameMoves DEF Statuses
<1>3. Within(f)
  BY <1>1, <1>2 DEF Within
<1> HIDE DEF f
<1>4. /\ SetTop(fs, f) \in Seq(FrameType) /\ SetTop(fs, f) # <<>>
      /\ Len(SetTop(fs, f)) = Len(fs)
      /\ \A i \in 1..Len(fs) : SetTop(fs, f)[i] = IF i = Len(fs) THEN f ELSE fs[i]
  BY <1>2, SetTopIs
<1>5. NextArg(fs) = SetTop(fs, f)
  BY DEF NextArg, f
<1> QED BY <1>3, <1>4, <1>5

\* The innermost script goes to its next line.
LEMMA NextLineIs ==
  ASSUME NEW fs \in Seq(FrameType), fs # <<>>, \A i \in 1..Len(fs) : Within(fs[i]),
         NEW status \in Statuses,
         frames' = SetTop(fs, NextLine(Last(fs), status)),
         pc' \in {"line", "return"}
  PROVE  /\ frames' \in Seq(FrameType) /\ frames' # <<>>
         /\ Last(frames').status = status
         /\ InText'
<1> DEFINE f == NextLine(Last(fs), status)
<1>1. Last(fs) \in FrameType /\ Last(fs) = fs[Len(fs)] /\ Len(fs) \in Nat \ {0}
  BY LastIs
<1>2. /\ f \in FrameType /\ f.at = Last(fs).at + 1
      /\ f.text = Last(fs).text /\ f.status = status
  BY <1>1, FrameMoves
<1>3. Within(Last(fs)) /\ Last(fs).at \in Nat /\ Len(Last(fs).text) \in Nat
  <2>1. Len(fs) \in 1..Len(fs)
    BY <1>1
  <2>2. Within(Last(fs))
    BY <1>1, <2>1
  <2> QED BY <1>1, <2>2, FrameMoves
<1> HIDE DEF f
<1>4. f.at <= Len(f.text) + 1
  BY <1>2, <1>3 DEF Within
<1>5. /\ frames' = SetTop(fs, f)
      /\ SetTop(fs, f) \in Seq(FrameType) /\ SetTop(fs, f) # <<>>
      /\ Len(SetTop(fs, f)) = Len(fs) /\ Last(SetTop(fs, f)) = f
      /\ \A i \in 1..Len(fs) : SetTop(fs, f)[i] = IF i = Len(fs) THEN f ELSE fs[i]
  <2>1. frames' = SetTop(fs, f)
    BY DEF f
  <2>2. /\ SetTop(fs, f) \in Seq(FrameType) /\ SetTop(fs, f) # <<>>
        /\ Len(SetTop(fs, f)) = Len(fs) /\ Last(SetTop(fs, f)) = f
        /\ \A i \in 1..Len(fs) : SetTop(fs, f)[i] = IF i = Len(fs) THEN f ELSE fs[i]
    BY <1>2, SetTopIs
  <2> QED BY <2>1, <2>2
<1>6. InText'
  <2> SUFFICES ASSUME NEW i \in 1..Len(frames')
               PROVE  \/ Within(frames'[i])
                      \/ /\ i = Len(frames') /\ pc' \in {"line", "return"}
                         /\ frames'[i].at <= Len(frames'[i].text) + 1
    BY DEF InText, Within
  <2> QED BY <1>4, <1>5
<1> QED BY <1>2, <1>5, <1>6

\* Steps that neither begin a download nor change ram disk or server.
LEMMA HostKeeps ==
  ASSUME NetInv, name' \in Names,
         UNCHANGED <<server, rom, fileSize, bytesRead, lastPacket, written, steady, ramdisk>>,
         frames' \in Seq(FrameType),
         fetching' \in [why : {"exec", "disp", "load"}, retry : {0, 1}],
         failed' \in BOOLEAN,
         pc' \in {"fetch", "line", "command", "return", "done", "aborted"},
         InText', Depth',
         pc' \in {"fetch", "line", "command"} => Clean,
         pc' = "return" => Clean \/ Stopping',
         failed' => Stopping'
  PROVE  NetInv'
<1>1. TftpInv'
  BY ElsewhereKeeps DEF NetInv
<1>2. HostTypes'
  BY DEF NetInv, HostTypes, ramdisk
<1>3. Left'
  BY DEF Left, Clean, InDownload, ramdisk
<1>4. Halted'
  BY DEF Halted
<1>5. RamDiskServed'
  BY DEF NetInv, RamDiskServed, ramdisk
<1> QED BY <1>1, <1>2, <1>3, <1>4, <1>5 DEF NetInv

LEMMA EndCommandKeeps ==
  ASSUME NetInv, NEW fs \in Seq(FrameType), fs # <<>>,
         \A i \in 1..Len(fs) : Within(fs[i]),
         NEW status \in Statuses, EndCommand(fs, status),
         UNCHANGED <<server, transfer, written, steady, ramdisk, fetching>>,
         status = Ok => Clean /\ ~failed
  PROVE  NetInv'
<1>1. /\ frames' = SetTop(fs, NextLine(Last(fs), status))
      /\ pc' = IF status = Ok THEN "line" ELSE "return"
      /\ failed' = (failed \/ status # Ok)
  BY DEF EndCommand
<1>2. /\ frames' \in Seq(FrameType) /\ frames' # <<>>
      /\ Last(frames').status = status /\ InText'
  BY <1>1, NextLineIs
<1>3. name' \in Names /\ UNCHANGED <<rom, fileSize, bytesRead, lastPacket>>
  BY DEF NetInv, TftpInv, TftpTypes, transfer
<1>4. fetching' \in [why : {"exec", "disp", "load"}, retry : {0, 1}] /\ failed' \in BOOLEAN
  BY <1>1 DEF NetInv, HostTypes
<1>5. Depth'
  BY <1>1, <1>2 DEF Depth, Fetching
<1>6. /\ pc' \in {"fetch", "line", "command"} => Clean
      /\ pc' = "return" => Stopping'
      /\ failed' => Stopping'
  BY <1>1, <1>2 DEF Stopping
<1> QED BY <1>1, <1>2, <1>3, <1>4, <1>5, <1>6, HostKeeps

LEMMA GiveUpKeeps ==
  ASSUME NetInv, GiveUp, pc \in {"fetch", "download_failed"}
  PROVE  NetInv'
<1>1. UNCHANGED <<server, transfer, written, steady, ramdisk, fetching>>
  BY DEF GiveUp
<1>2. CASE frames # <<>> /\ EndCommand(frames, Error)
  <2>1. frames \in Seq(FrameType) /\ \A i \in 1..Len(frames) : Within(frames[i])
    BY AllWithin DEF NetInv, HostTypes
  <2> QED BY <1>1, <1>2, <2>1, EndCommandKeeps DEF Statuses, Error, Ok
<1>3. CASE frames = <<>> /\ pc' = "aborted" /\ failed' = TRUE /\ UNCHANGED frames
  <2>1. name' \in Names /\ UNCHANGED <<rom, fileSize, bytesRead, lastPacket>>
    BY <1>1 DEF NetInv, TftpInv, TftpTypes, transfer
  <2>2. Len(<<>>) = 0
    OBVIOUS
  <2>3. InText' /\ Depth' /\ Stopping'
    BY <1>3, <2>2 DEF InText, Depth, Stopping, Fetching
  <2> QED BY <1>1, <1>3, <2>1, <2>3, HostKeeps DEF NetInv, HostTypes
<1> QED BY <1>2, <1>3 DEF GiveUp

-----------------------------------------------------------------------------
(* The steps.                                                              *)

LEMMA GoesOn ==
  ASSUME NetInv, pc \in {"fetch", "line", "command"}
  PROVE  Clean /\ ~failed
BY DEF NetInv, Left, Halted, Stopping

LEMMA InnermostIs ==
  ASSUME NetInv, frames # <<>>
  PROVE  /\ frames \in Seq(FrameType) /\ Len(frames) \in Nat \ {0}
         /\ Frame = frames[Len(frames)] /\ Last(frames) = Frame /\ Frame \in FrameType
BY LastIs DEF NetInv, HostTypes, Frame

\* What a command that is there names.
LEMMA ArgumentIs ==
  ASSUME NetInv, pc = "command", Op(Line) \in {"exec", "disp", "load"}, HasArg
  PROVE  Arg \in Names
<1>1. frames # <<>>
  BY DEF NetInv, Depth
<1>2. Frame \in FrameType /\ Frame = frames[Len(frames)] /\ Len(frames) \in 1..Len(frames)
  BY <1>1, InnermostIs
<1>3. Within(Frame)
  BY <1>2, AllWithin DEF NetInv
<1>4. Line \in Byte
  BY <1>2, <1>3, ByteCommand DEF Line
<1>5. Args(Line) \in Seq(Names)
  BY <1>4, NetBootAssumption
<1>6. Frame.arg \in 1..Len(Args(Line))
  BY <1>2, <1>5, LenProperties DEF FrameType, HasArg
<1> QED BY <1>5, <1>6, ElementOfSeq DEF Arg

LEMMA FetchFoundKeeps ==
  ASSUME NetInv, FetchFound
  PROVE  NetInv'
<1>1. /\ pc = "fetch" /\ OnDisk(name)
      /\ UNCHANGED <<server, rom, fileSize, bytesRead, lastPacket, written, steady, ramdisk>>
      /\ UNCHANGED <<name, fetching, failed>>
  BY DEF FetchFound, transfer
<1>2. /\ name' \in Names /\ failed' \in BOOLEAN /\ frames \in Seq(FrameType)
      /\ fetching' \in [why : {"exec", "disp", "load"}, retry : {0, 1}]
  BY <1>1 DEF NetInv, HostTypes, TftpInv, TftpTypes
<1>3. Clean /\ ~failed'
  BY <1>1, GoesOn
<1>4. \A i \in 1..Len(frames) : Within(frames[i])
  BY <1>1, AllWithin DEF NetInv
<1>5. CASE frames' = Append(frames, NewFrame(Contents(name))) /\ pc' = "line"
  <2> DEFINE f == NewFrame(Contents(name))
  <2>1. Contents(name) \in Seq(Byte) /\ Len(Contents(name)) \in Nat
    BY <1>1, ContentsIs, LenProperties DEF NetInv, TftpInv, TftpTypes
  <2>2. f \in FrameType /\ f.at = 1 /\ f.text = Contents(name)
    BY <2>1 DEF NewFrame, FrameType, Statuses
  <2>3. f.at <= Len(f.text) + 1
    BY <2>1, <2>2
  <2> HIDE DEF f
  <2>4. /\ Append(frames, f) \in Seq(FrameType) /\ Append(frames, f) # <<>>
        /\ Len(Append(frames, f)) = Len(frames) + 1
        /\ \A i \in 1..Len(frames) : Append(frames, f)[i] = frames[i]
        /\ Append(frames, f)[Len(frames) + 1] = f
    BY <1>2, <2>2, AppendProperties
  <2>5. frames' = Append(frames, f) /\ Len(frames) \in Nat
    BY <1>2, <1>5, LenProperties DEF f
  <2>6. InText'
    <3> SUFFICES ASSUME NEW i \in 1..Len(frames')
                 PROVE  \/ Within(frames'[i])
                        \/ /\ i = Len(frames') /\ pc' \in {"line", "return"}
                           /\ frames'[i].at <= Len(frames'[i].text) + 1
      BY DEF InText, Within
    <3>1. CASE i = Len(frames')
      BY <1>5, <2>3, <2>4, <2>5, <3>1
    <3>2. CASE i # Len(frames')
      <4>1. i \in 1..Len(frames) /\ frames'[i] = frames[i]
        BY <2>4, <2>5, <3>2
      <4> QED BY <1>4, <4>1
    <3> QED BY <3>1, <3>2
  <2>7. Depth'
    BY <1>5, <2>4, <2>5 DEF Depth, Fetching
  <2> QED BY <1>1, <1>2, <1>3, <1>5, <2>4, <2>5, <2>6, <2>7, HostKeeps
<1>6. CASE fetching.why = "disp" /\ frames' = NextArg(frames) /\ pc' = "command"
  <2>1. frames # <<>>
    BY <1>1, <1>6 DEF NetInv, Depth, Fetching
  <2>2. /\ frames' \in Seq(FrameType) /\ frames' # <<>>
        /\ \A i \in 1..Len(frames') : Within(frames'[i])
    BY <1>2, <1>4, <1>6, <2>1, NextArgIs
  <2>3. InText' /\ Depth'
    BY <1>6, <2>2 DEF InText, Within, Depth, Fetching
  <2> QED BY <1>1, <1>2, <1>3, <1>6, <2>2, <2>3, HostKeeps
<1> QED BY <1>5, <1>6 DEF FetchFound

\* A download begins, into a new entry.
LEMMA OpenKeeps ==
  ASSUME NetInv, pc \in {"fetch", "command"}, NEW n \in Names, OpenEntry(n),
         UNCHANGED <<frames, failed>>,
         fetching' \in [why : {"exec", "disp", "load"}, retry : {0, 1}],
         fetching'.retry = 0, fetching'.why # "exec" => frames # <<>>
  PROVE  NetInv'
<1>1. Clean /\ ~failed
  BY GoesOn
<1>2. /\ Start(n) /\ entry' = n /\ out' = <<>> /\ offset' = 0 /\ UNCHANGED disk
  BY <1>1 DEF OpenEntry, Clean
<1>3. pc' = "get_fsize" /\ name' = n /\ UNCHANGED rom
  BY <1>2 DEF Start
<1>4. TftpInv'
  BY <1>2, StartKeeps DEF NetInv
<1>5. HostTypes'
  BY <1>2 DEF NetInv, HostTypes
<1>6. InText'
  <2>1. \A i \in 1..Len(frames) : Within(frames[i])
    BY AllWithin DEF NetInv
  <2> QED BY <2>1 DEF InText, Within
<1>7. Depth' /\ Left' /\ Halted'
  BY <1>1, <1>2, <1>3 DEF Depth, Fetching, Left, Halted, Clean, InDownload
<1>8. RamDiskServed'
  BY <1>2 DEF NetInv, RamDiskServed
<1> QED BY <1>4, <1>5, <1>6, <1>7, <1>8 DEF NetInv

LEMMA FetchMissingKeeps ==
  ASSUME NetInv, FetchMissing
  PROVE  NetInv'
<1>1. pc = "fetch" /\ OpenEntry(name) /\ UNCHANGED <<frames, fetching, failed>>
  BY DEF FetchMissing, host
<1>2. fetching'.retry = 0 /\ (fetching'.why # "exec" => frames # <<>>)
  BY <1>1 DEF NetInv, Depth, Fetching, FetchMissing
<1> QED BY <1>1, <1>2, OpenKeeps DEF NetInv, HostTypes, TftpInv, TftpTypes

LEMMA NextLoadKeeps ==
  ASSUME NetInv, NextLoad
  PROVE  NetInv'
<1>1. /\ pc = "command" /\ OpenEntry(Arg) /\ UNCHANGED <<frames, failed>>
      /\ fetching' = [why |-> "load", retry |-> 0]
  BY DEF NextLoad, AtCommand
<1>2. Arg \in Names /\ frames # <<>>
  BY ArgumentIs DEF NextLoad, AtCommand, NetInv, Depth
<1> QED BY <1>1, <1>2, OpenKeeps

LEMMA NextFileKeeps ==
  ASSUME NetInv, NextFile
  PROVE  NetInv'
<1>1. PICK op \in {"exec", "disp"} : AtCommand(op) /\ HasArg /\ BeginFetch(op, Arg)
  BY DEF NextFile
<1>2. /\ pc = "command" /\ pc' = "fetch" /\ name' = Arg
      /\ fetching' = [why |-> op, retry |-> 0]
      /\ UNCHANGED <<server, rom, fileSize, bytesRead, lastPacket, written, steady, ramdisk>>
      /\ UNCHANGED <<frames, failed>>
  BY <1>1 DEF AtCommand, BeginFetch
<1>3. Arg \in Names /\ frames # <<>>
  BY <1>1, ArgumentIs DEF AtCommand, NetInv, Depth
<1>4. frames' \in Seq(FrameType) /\ failed' \in BOOLEAN
  BY <1>2 DEF NetInv, HostTypes
<1>5. Clean /\ ~failed'
  BY <1>2, GoesOn
<1>6. \A i \in 1..Len(frames) : Within(frames[i])
  BY <1>2, AllWithin DEF NetInv
<1>7. InText' /\ Depth'
  BY <1>2, <1>3, <1>6 DEF InText, Within, Depth, Fetching
<1>8. fetching' \in [why : {"exec", "disp", "load"}, retry : {0, 1}]
  BY <1>2
<1> QED BY <1>2, <1>3, <1>4, <1>5, <1>7, <1>8, HostKeeps

LEMMA DownloadedKeeps ==
  ASSUME NetInv, Downloaded
  PROVE  NetInv'
<1>1. /\ pc = "downloaded"
      /\ disk' = Append(disk, [name |-> entry, data |-> out, steady |-> steady])
      /\ entry' = NoEntry
      /\ UNCHANGED <<server, rom, name, fileSize, bytesRead, lastPacket, written, steady>>
      /\ UNCHANGED <<version, out, failed>>
      /\ pc' \in {"command", "fetch"}
  BY DEF Downloaded, CloseEntry, transfer, server, written
<1>2. /\ entry = name /\ name \in Names /\ out \in Seq(Byte) /\ steady \in BOOLEAN
      /\ ~rom.open /\ (steady => out = rom.file) /\ ~failed
      /\ (steady => Served(name) /\ rom.file = File(name))
  BY <1>1, InvWholeOnSuccess
     DEF NetInv, Left, Halted, Stopping, InDownload, TftpInv, TftpTypes, Opened, Downloading, WholeOnSuccess
<1> DEFINE e == [name |-> entry, data |-> out, steady |-> steady]
<1>3. e \in EntryType /\ e.name = name /\ e.data = out /\ e.steady = steady
  BY <1>2 DEF EntryType
<1> HIDE DEF e
<1>4. disk \in Seq(EntryType) /\ Len(disk) \in Nat /\ disk' = Append(disk, e)
  BY <1>1, LenProperties DEF NetInv, HostTypes, e
<1>5. /\ disk' \in Seq(EntryType) /\ Len(disk') = Len(disk) + 1
      /\ DOMAIN disk' = 1..(Len(disk) + 1) /\ DOMAIN disk = 1..Len(disk)
      /\ \A i \in 1..Len(disk) : disk'[i] = disk[i]
      /\ disk'[Len(disk) + 1] = e
  BY <1>3, <1>4, AppendProperties, LenProperties
<1>6. TftpInv'
  BY <1>1, <1>2, ElsewhereKeeps DEF NetInv
<1>7. frames \in Seq(FrameType) /\ \A i \in 1..Len(frames) : Within(frames[i])
  BY <1>1, AllWithin DEF NetInv, HostTypes
<1>8. /\ frames' \in Seq(FrameType)
      /\ fetching' \in [why : {"exec", "disp", "load"}, retry : {0, 1}]
      /\ InText' /\ Depth'
  <2>1. CASE fetching.why = "load" /\ frames' = NextArg(frames) /\ pc' = "command" /\ UNCHANGED fetching
    <3>1. frames # <<>>
      BY <1>1, <2>1 DEF NetInv, Depth, Fetching
    <3>2. /\ frames' \in Seq(FrameType) /\ frames' # <<>>
          /\ \A i \in 1..Len(frames') : Within(frames'[i])
      BY <1>7, <2>1, <3>1, NextArgIs
    <3> QED BY <2>1, <3>2 DEF InText, Within, Depth, Fetching, NetInv, HostTypes
  <2>2. CASE /\ fetching.why # "load" /\ pc' = "fetch" /\ UNCHANGED frames
             /\ fetching' = [fetching EXCEPT !.retry = @ + 1]
    <3>1. fetching.retry = 0
      BY <1>1 DEF NetInv, Depth, Fetching
    <3>2. /\ fetching' \in [why : {"exec", "disp", "load"}, retry : {0, 1}]
          /\ fetching'.why = fetching.why
      BY <2>2, <3>1 DEF NetInv, HostTypes
    <3>3. fetching.why # "exec" => frames # <<>>
      BY <1>1 DEF NetInv, Depth, Fetching
    <3> QED BY <1>7, <2>2, <3>2, <3>3 DEF InText, Within, Depth, Fetching
  <2> QED BY <2>1, <2>2 DEF Downloaded
<1>9. HostTypes'
  <2>1. disk' \in Seq(EntryType)
    BY <1>5
  <2>2. failed' \in BOOLEAN /\ entry' \in Names \cup {NoEntry}
    BY <1>1 DEF NetInv, HostTypes
  <2> QED BY <1>8, <2>1, <2>2 DEF HostTypes
<1>10. Left' /\ Halted'
  <2>1. Clean' /\ ~failed'
    BY <1>1, <1>2 DEF Clean
  <2> QED BY <1>1, <2>1 DEF Left, Halted, InDownload
<1>11. RamDiskServed'
  <2> SUFFICES ASSUME NEW i \in DOMAIN disk', disk'[i].steady
               PROVE  \E v \in DOMAIN Files[disk'[i].name] : disk'[i].data = Files[disk'[i].name][v]
    BY DEF RamDiskServed
  <2>1. CASE i \in DOMAIN disk
    BY <1>5, <2>1 DEF NetInv, RamDiskServed
  <2>2. CASE i \notin DOMAIN disk
    <3>1. disk'[i] = e
      BY <1>4, <1>5, <2>2
    <3>2. out = Files[name][version[name]] /\ Served(name)
      BY <1>2, <1>3, <3>1 DEF File
    <3>3. version[name] \in DOMAIN Files[name]
      <4>1. version[name] \in 1..Len(Files[name])
        BY <1>2, <3>2, FileIsBytes DEF NetInv, TftpInv
      <4>2. Files[name] \in Seq(Seq(Byte))
        BY <1>2, TftpAssumption
      <4> QED BY <4>1, <4>2, LenProperties
    <3> QED BY <1>3, <3>1, <3>2, <3>3
  <2> QED BY <2>1, <2>2
<1> QED BY <1>6, <1>8, <1>9, <1>10, <1>11 DEF NetInv

LEMMA BlankLineKeeps ==
  ASSUME NetInv, BlankLine
  PROVE  NetInv'
<1>1. /\ pc = "line" /\ ~AtEnd /\ UNCHANGED <<tftpVars, ramdisk, fetching, failed>>
      /\ frames' = SetTop(frames, NextLine(Frame, Frame.status))
  BY DEF BlankLine, AtLine
<1>2. /\ UNCHANGED <<server, rom, fileSize, bytesRead, lastPacket, written, steady>>
      /\ UNCHANGED <<pc, name>>
  BY <1>1 DEF tftpVars, transfer
<1>3. /\ frames \in Seq(FrameType) /\ frames # <<>> /\ Frame = Last(frames)
      /\ Frame.status \in Statuses
      /\ \A i \in 1..Len(frames) : Within(frames[i])
  BY <1>1, InnermostIs, AllWithin DEF NetInv, Depth, FrameType
<1>4. frames' \in Seq(FrameType) /\ frames' # <<>> /\ InText'
  BY <1>1, <1>2, <1>3, NextLineIs
<1>5. Depth'
  BY <1>1, <1>2, <1>4 DEF Depth, Fetching
<1>6. Clean /\ ~failed
  BY <1>1, GoesOn
<1> QED BY <1>1, <1>2, <1>4, <1>5, <1>6, HostKeeps DEF NetInv, HostTypes, TftpInv, TftpTypes

LEMMA BeginCommandKeeps ==
  ASSUME NetInv, BeginCommand
  PROVE  NetInv'
<1> DEFINE f == [Frame EXCEPT !.arg = 1]
<1>1. /\ pc = "line" /\ ~AtEnd /\ pc' = "command" /\ frames' = SetTop(frames, f)
      /\ UNCHANGED <<server, rom, name, fileSize, bytesRead, lastPacket, written, steady>>
      /\ UNCHANGED <<ramdisk, fetching, failed>>
  BY DEF BeginCommand, AtLine, transfer
<1>2. /\ frames \in Seq(FrameType) /\ frames # <<>> /\ Frame \in FrameType
      /\ Frame = frames[Len(frames)] /\ Len(frames) \in Nat \ {0}
      /\ \A i \in 1..Len(frames) : Within(frames[i])
  BY <1>1, InnermostIs, AllWithin DEF NetInv, Depth
<1>3. f \in FrameType /\ f.at = Frame.at /\ f.text = Frame.text
  BY <1>2, FrameMoves DEF Statuses
<1>4. Within(f)
  BY <1>2, <1>3 DEF Within
<1> HIDE DEF f
<1>5. /\ SetTop(frames, f) \in Seq(FrameType) /\ SetTop(frames, f) # <<>>
      /\ Len(SetTop(frames, f)) = Len(frames)
      /\ \A i \in 1..Len(frames) : SetTop(frames, f)[i] = IF i = Len(frames) THEN f ELSE frames[i]
  BY <1>2, <1>3, SetTopIs
<1>6. \A i \in 1..Len(frames') : Within(frames'[i])
  BY <1>1, <1>2, <1>4, <1>5
<1>7. InText' /\ Depth'
  BY <1>1, <1>5, <1>6 DEF InText, Within, Depth, Fetching
<1>8. Clean /\ ~failed
  BY <1>1, GoesOn
<1> QED BY <1>1, <1>5, <1>7, <1>8, HostKeeps DEF NetInv, HostTypes, TftpInv, TftpTypes

LEMMA CommandEndsKeeps ==
  ASSUME NetInv, UnknownCommand \/ Echo \/ Rem \/ NoMoreFiles
  PROVE  NetInv'
<1>1. /\ pc = "command" \/ (pc = "line" /\ ~AtEnd)
      /\ UNCHANGED <<server, transfer, written, steady, ramdisk, fetching>>
      /\ EndCommand(frames, Nothing) \/ EndCommand(frames, Ok)
  BY DEF UnknownCommand, Echo, Rem, NoMoreFiles, AtLine, AtCommand
<1>2. /\ frames \in Seq(FrameType) /\ frames # <<>>
      /\ \A i \in 1..Len(frames) : Within(frames[i])
  BY <1>1, AllWithin DEF NetInv, HostTypes, Depth
<1>3. Clean /\ ~failed
  BY <1>1, GoesOn
<1> QED BY <1>1, <1>2, <1>3, EndCommandKeeps DEF Statuses, Nothing, Ok

LEMMA EndOfScriptKeeps ==
  ASSUME NetInv, EndOfScript
  PROVE  NetInv'
<1>1. /\ pc = "line" /\ pc' = "return"
      /\ UNCHANGED <<server, rom, name, fileSize, bytesRead, lastPacket, written, steady>>
      /\ UNCHANGED <<ramdisk, frames, fetching, failed>>
  BY DEF EndOfScript, transfer, host
<1>2. InText' /\ Depth'
  BY <1>1 DEF NetInv, InText, Within, Depth, Fetching
<1>3. Clean /\ ~failed
  BY <1>1, GoesOn
<1> QED BY <1>1, <1>2, <1>3, HostKeeps DEF NetInv, HostTypes, TftpInv, TftpTypes

\* A script that has failed makes the one that executed it fail; this is what
\* carries a failure from whatever depth to main.
LEMMA ReturnKeeps ==
  ASSUME NetInv, Return
  PROVE  NetInv'
<1> DEFINE outer == Front(frames)
           ok    == Frame.status = Ok
<1>1. /\ pc = "return"
      /\ UNCHANGED <<server, transfer, written, steady, ramdisk, fetching>>
      /\ UNCHANGED <<rom, name, fileSize, bytesRead, lastPacket>>
  BY DEF Return, transfer
<1>2. frames # <<>> /\ Frame = Last(frames)
  BY <1>1 DEF NetInv, Depth, Frame
<1>3. outer \in Seq(FrameType) /\ \A i \in 1..Len(outer) : Within(outer[i])
  BY <1>2, FrontWithin DEF NetInv
<1>4. ok => Clean /\ ~failed
  BY <1>1, <1>2 DEF NetInv, Left, Halted, Stopping
<1>5. /\ name' \in Names
      /\ fetching' \in [why : {"exec", "disp", "load"}, retry : {0, 1}]
      /\ failed \in BOOLEAN
  BY <1>1 DEF NetInv, HostTypes, TftpInv, TftpTypes
<1>6. CASE outer # <<>> /\ ok /\ frames' = NextArg(outer) /\ pc' = "command" /\ UNCHANGED failed
  <2>1. /\ frames' \in Seq(FrameType) /\ frames' # <<>>
        /\ \A i \in 1..Len(frames') : Within(frames'[i])
    BY <1>3, <1>6, NextArgIs
  <2>2. InText' /\ Depth'
    BY <1>6, <2>1 DEF InText, Within, Depth, Fetching
  <2> QED BY <1>1, <1>4, <1>5, <1>6, <2>1, <2>2, HostKeeps
<1>7. CASE outer # <<>> /\ ~ok /\ EndCommand(outer, Error)
  <2> HIDE DEF outer
  <2> QED BY <1>1, <1>3, <1>7, EndCommandKeeps DEF Statuses, Error, Ok
<1>8. CASE /\ outer = <<>> /\ frames' = outer /\ pc' = (IF ok THEN "done" ELSE "aborted")
           /\ failed' = (failed \/ ~ok)
  <2>1. Len(<<>>) = 0
    OBVIOUS
  <2>2. InText' /\ Depth'
    BY <1>8, <2>1 DEF InText, Depth, Fetching
  <2>3. failed' \in BOOLEAN /\ (failed' => Stopping')
    BY <1>4, <1>5, <1>8 DEF Stopping
  <2>4. frames' \in Seq(FrameType)
    BY <1>3, <1>8
  <2>5. pc' \in {"done", "aborted"}
    BY <1>8
  <2> QED BY <1>1, <1>5, <2>2, <2>3, <2>4, <2>5, HostKeeps
<1> QED BY <1>6, <1>7, <1>8 DEF Return

LEMMA DownloadStepKeeps ==
  ASSUME NetInv, DownloadStep, UNCHANGED <<ramdisk, host, log, failed>>
  PROVE  NetInv'
<1>1. /\ pc \in {"get_fsize", "tftp_open", "tftp_read", "tftp_close"}
      /\ pc' \in {"get_fsize", "tftp_open", "tftp_read", "tftp_close", "downloaded", "download_failed"}
      /\ UNCHANGED name
      /\ (pc' = "tftp_open" => UNCHANGED rom) /\ pc' # "get_fsize"
      /\ (pc' = "tftp_open" => pc = "get_fsize")
  BY DEF DownloadStep, GetFileSize, TftpOpen, ReadPacket, ReadRefused, AllRead, TftpClose,
         Refused, Goto, transfer
<1>2. UNCHANGED <<disk, entry, frames, fetching, failed>>
  BY DEF ramdisk, host
<1>3. TftpInv'
  BY DownloadKeeps DEF NetInv
<1>4. \A i \in 1..Len(frames) : Within(frames[i])
  BY <1>1, AllWithin DEF NetInv
<1>5. HostTypes' /\ RamDiskServed'
  BY <1>2 DEF NetInv, HostTypes, RamDiskServed
<1>6. InText'
  BY <1>2, <1>4 DEF InText, Within
<1>7. Depth'
  BY <1>1, <1>2 DEF NetInv, Depth, Fetching
<1>8. Left'
  BY <1>1, <1>2 DEF NetInv, Left, InDownload
<1>9. Halted'
  BY <1>1, <1>2 DEF NetInv, Halted, Stopping
<1> QED BY <1>3, <1>5, <1>6, <1>7, <1>8, <1>9 DEF NetInv

\* Steps that leave the program where it is.
LEMMA OutsideKeeps ==
  ASSUME NetInv, TftpInv', UNCHANGED <<pc, rom, name, ramdisk, host, failed>>
  PROVE  NetInv'
<1>1. UNCHANGED <<disk, entry, frames, fetching>>
  BY DEF ramdisk, host
<1> QED BY <1>1
        DEF NetInv, HostTypes, InText, Within, Depth, Left, Clean, Stopping, InDownload, Halted, RamDiskServed

LEMMA NetNextKeeps == NetInv /\ [Next]_netVars => NetInv'
<1> SUFFICES ASSUME NetInv, [Next]_netVars PROVE NetInv'
  OBVIOUS
<1>1. CASE HostStep
  <2>1. CASE FetchFound
    BY <2>1, FetchFoundKeeps
  <2>2. CASE FetchMissing
    BY <2>2, FetchMissingKeeps
  <2>3. CASE FetchFailed
    BY <2>3, GiveUpKeeps DEF FetchFailed
  <2>4. CASE Downloaded
    BY <2>4, DownloadedKeeps
  <2>5. CASE DownloadFailed
    BY <2>5, GiveUpKeeps DEF DownloadFailed
  <2>6. CASE BlankLine
    BY <2>6, BlankLineKeeps
  <2>7. CASE BeginCommand
    BY <2>7, BeginCommandKeeps
  <2>8. CASE UnknownCommand \/ Echo \/ Rem \/ NoMoreFiles
    BY <2>8, CommandEndsKeeps
  <2>9. CASE NextFile
    BY <2>9, NextFileKeeps
  <2>10. CASE NextLoad
    BY <2>10, NextLoadKeeps
  <2>11. CASE EndOfScript
    BY <2>11, EndOfScriptKeeps
  <2>12. CASE Return
    BY <2>12, ReturnKeeps
  <2> QED BY <1>1, <2>1, <2>2, <2>3, <2>4, <2>5, <2>6, <2>7, <2>8, <2>9, <2>10, <2>11, <2>12
          DEF HostStep
<1>2. CASE DownloadStep /\ UNCHANGED <<ramdisk, host, log, failed>>
  BY <1>2, DownloadStepKeeps
<1>3. ASSUME NEW n \in Names, Publish(n), UNCHANGED <<ramdisk, host, log, failed>>
      PROVE  NetInv'
  <2>1. TftpInv'
    BY <1>3, PublishKeeps DEF NetInv
  <2>2. UNCHANGED <<pc, rom, name>>
    BY <1>3 DEF Publish, transfer
  <2> QED BY <1>3, <2>1, <2>2, OutsideKeeps
<1>4. CASE UNCHANGED netVars
  <2>1. UNCHANGED tftpVars /\ UNCHANGED <<ramdisk, host, failed>>
    BY <1>4 DEF netVars
  <2>2. UNCHANGED <<pc, rom, name>>
    BY <2>1 DEF tftpVars, transfer
  <2> QED BY <2>1, <2>2, StutterKeeps, OutsideKeeps DEF NetInv
<1> QED BY <1>1, <1>2, <1>3, <1>4 DEF Next, ProgramStep

LEMMA NetInvInit == Init => NetInv
<1> SUFFICES ASSUME Init PROVE NetInv
  OBVIOUS
<1>1. TftpInv
  <2> DEFINE was == [n \in Names |-> IF Files[n] = <<>> THEN 0 ELSE 1]
  <2>1. /\ version = was /\ rom = NoConnection /\ name \in Names /\ steady = TRUE
        /\ pc = "fetch" /\ fileSize = 0 /\ bytesRead = 0 /\ lastPacket = 0
        /\ out = <<>> /\ offset = 0
    BY NetBootAssumption DEF Init
  <2>2. TftpTypes
    BY <2>1, TypesAtStart
  <2> QED BY <2>1, <2>2
          DEF TftpInv, Fresh, Measured, Opened, Position, Finished, Closed, Downloading
<1>2. /\ <<>> \in Seq(EntryType) /\ <<>> \in Seq(FrameType) /\ Len(<<>>) = 0 /\ DOMAIN <<>> = {}
  <2>1. <<>> \in Seq(EntryType) /\ <<>> \in Seq(FrameType) /\ Len(<<>>) = 0
    BY EmptySeq
  <2>2. DOMAIN <<>> = 1..Len(<<>>)
    OBVIOUS
  <2> QED BY <2>1, <2>2
<1>3. HostTypes
  BY <1>2 DEF Init, HostTypes
<1>4. InText /\ Depth
  BY <1>2 DEF Init, InText, Depth, Fetching
<1>5. Left /\ Halted
  BY DEF Init, Left, Halted, Clean, InDownload, NoConnection
<1>6. RamDiskServed
  BY <1>2 DEF Init, RamDiskServed
<1> QED BY <1>1, <1>3, <1>4, <1>5, <1>6 DEF NetInv

-----------------------------------------------------------------------------
(* The theorems.                                                           *)

\* The invariant holds in every reachable state of the program.
THEOREM NetSafety == Spec => []NetInv
BY NetInvInit, NetNextKeeps, PTL DEF Spec

\* Where the program is, and how deep in which scripts, fits what it has on
\* its hands.
THEOREM NetTypeCorrect == Spec => []TypeOK
<1>1. NetInv => TypeOK
  <2> SUFFICES ASSUME NetInv PROVE TypeOK
    OBVIOUS
  <2>1. TftpTypeOK
    BY InvIsTyped DEF NetInv
  <2>2. ASSUME NEW i \in DOMAIN frames
        PROVE  frames[i].at \in 1..(Len(frames[i].text) + 1)
    <3>1. i \in 1..Len(frames) /\ frames[i] \in FrameType
      BY LenProperties, ElementOfSeq DEF NetInv, HostTypes
    <3>2. frames[i].at \in Nat \ {0} /\ Len(frames[i].text) \in Nat
      BY <3>1, LenProperties DEF FrameType
    <3>3. frames[i].at <= Len(frames[i].text) + 1
      BY <3>1, <3>2 DEF NetInv, InText, Within
    <3> QED BY <3>2, <3>3
  <2>3. fetching.why \in {"exec", "disp", "load"} /\ fetching.retry \in {0, 1}
    BY DEF NetInv, HostTypes
  <2>4. /\ pc \in {"line", "command", "return"} => frames # <<>>
        /\ fetching.why # "exec" /\ (pc = "fetch" \/ InDownload) => frames # <<>>
    BY DEF NetInv, Depth, Fetching, InDownload
  <2> QED BY <2>1, <2>2, <2>3, <2>4 DEF TypeOK, NetInv, HostTypes
<1> QED BY <1>1, NetSafety, PTL

\* Whatever fails, and however deep, no entry and no connection left open is
\* there when the program searches the ram disk or begins a download.
THEOREM NothingIsLeftOpen == Spec => []NothingLeftOpen
<1>1. NetInv => NothingLeftOpen
  BY DEF NetInv, Left, Clean, NothingLeftOpen
<1> QED BY <1>1, NetSafety, PTL

\* What the ram disk has is what the server had.
THEOREM RamDiskIsServed == Spec => []RamDiskServed
<1>1. NetInv => RamDiskServed
  BY DEF NetInv
<1> QED BY <1>1, NetSafety, PTL

\* The first failure is the last thing that happens to output and ram disk.
THEOREM FailureStops == Spec => StopsAtFailure
<1>1. NetInv /\ [Next]_netVars => [failed => UNCHANGED <<log, disk>>]_netVars
  <2> SUFFICES ASSUME NetInv, Next, failed PROVE UNCHANGED <<log, disk>>
    OBVIOUS
  <2>1. pc \in {"aborted", "return"}
    BY DEF NetInv, Halted, Stopping
  <2>2. CASE HostStep
    <3>1. Return
      BY <2>1, <2>2
         DEF HostStep, FetchFound, FetchMissing, FetchFailed, Downloaded, DownloadFailed,
             BlankLine, BeginCommand, UnknownCommand, Echo, Rem, NextFile, NextLoad,
             NoMoreFiles, EndOfScript, AtLine, AtCommand
    <3> QED BY <3>1 DEF Return, ramdisk
  <2>3. CASE UNCHANGED <<ramdisk, host, log, failed>>
    BY <2>3 DEF ramdisk
  <2> QED BY <2>2, <2>3 DEF Next, ProgramStep
<1> QED BY <1>1, NetSafety, PTL DEF Spec, StopsAtFailure

-----------------------------------------------------------------------------
(* The same of the program with its start.                                 *)

\* The ROM's answers and the reply of the DHCP server make the host do nothing
\* that it does not do by itself: a download that cannot have the reply is one
\* that cannot have the file's size.
THEOREM StartedHost == StartSpec => Init /\ [][Next]_netVars
<1>1. StartInit => Init
  BY DEF StartInit
<1>2. [StartNext]_startVars => [Next]_netVars
  <2> SUFFICES ASSUME [StartNext]_startVars PROVE [Next]_netVars
    OBVIOUS
  <2>1. ASSUME \/ InstallationCheck
               \/ \E pxenv \in PxenvPlus : Initialize(pxenv)
               \/ \E answer \in Replies : GrabReply(answer)
               \/ UNCHANGED startVars
        PROVE  UNCHANGED netVars
    BY <2>1 DEF InstallationCheck, Initialize, GrabReply, StartOver, startVars
  <2>2. ASSUME NEW answer \in Replies, AskReply(answer) PROVE [Next]_netVars
    <3>1. CASE UNCHANGED netVars
      BY <3>1
    <3>2. CASE Refused /\ UNCHANGED <<ramdisk, host, log, failed>>
      <4>1. pc = "get_fsize"
        BY <2>2 DEF AskReply
      <4>2. DownloadStep
        BY <3>2, <4>1 DEF DownloadStep, GetFileSize
      <4>3. QED
        BY <3>2, <4>2 DEF Next, ProgramStep
    <3>3. QED
      BY <2>2, <3>1, <3>2 DEF AskReply, ramdisk, host
  <2>3. ASSUME MainStep PROVE Next
    BY <2>3 DEF MainStep, Next
  <2>4. ASSUME NEW n \in Names, Publish(n), UNCHANGED <<ramdisk, host, log, failed>>
        PROVE  Next
    BY <2>4 DEF Next
  <2>5. QED
    BY <2>1, <2>2, <2>3, <2>4 DEF StartNext, StartProgram
<1>3. QED
  BY <1>1, <1>2, PTL DEF StartSpec

\* However the program has been started, its invariant holds.
THEOREM StartedSafety == StartSpec => []NetInv
BY StartedHost, NetInvInit, NetNextKeeps, PTL

\* A whole reply is never given up or asked for again, and every later download
\* asks the server it names.
THEOREM ReplyKept == StartSpec => WholeReplyKept
<1>1. ASSUME [StartNext]_startVars, reply.whole
      PROVE  \/ reply' = reply /\ options' \in {NoServer, options, "server"}
             \/ UNCHANGED startVars
  <2>1. CASE InstallationCheck \/ \E pxenv \in PxenvPlus : Initialize(pxenv)
    BY <2>1 DEF InstallationCheck, Initialize, StartOver
  <2>2. ASSUME NEW answer \in Replies, GrabReply(answer)
        PROVE  reply' = reply /\ options' = options
    BY <1>1, <2>2 DEF GrabReply, StartOver, Cached
  <2>3. ASSUME NEW answer \in Replies, AskReply(answer)
        PROVE  reply' = reply /\ options' \in {options, "server"}
    BY <1>1, <2>3 DEF AskReply, Cached, ServersOf
  <2>4. ASSUME MainStep
        PROVE  reply' = reply /\ options' \in {options, NoServer}
    BY <2>4 DEF MainStep
  <2>5. QED
    BY <1>1, <2>1, <2>2, <2>3, <2>4 DEF StartNext, StartProgram
<1>2. [StartNext]_startVars =>
        [reply.whole => reply' = reply /\ options' \in {NoServer, options, "server"}]_startVars
  BY <1>1
<1>3. QED
  BY <1>2, PTL DEF StartSpec, WholeReplyKept

-----------------------------------------------------------------------------
(* Sequences put together.                                                 *)

\* What the first i of the sequences in q are, one behind the other.
Sums(q) ==
  LET flatten[i \in 1..Len(q)] ==
        IF i = 1 THEN q[i] ELSE flatten[i - 1] \o q[i]
  IN  [i \in 0..Len(q) |-> IF i = 0 THEN <<>> ELSE flatten[i]]

\* The function that adds them up.
Adds(f, q, n) ==
  f = [i \in 1..n |-> IF i = 1 THEN q[i] ELSE f[i - 1] \o q[i]]

AddsUp(f, q, n) == \A i \in 1..n : f[i] = IF i = 1 THEN q[i] ELSE f[i - 1] \o q[i]

LEMMA AddsExists ==
  ASSUME NEW q, NEW n \in Nat
  PROVE  \E f : Adds(f, q, n)
<1> DEFINE Good(k) == \E f : f = [i \in 1..n |-> f[i]] /\ AddsUp(f, q, k)
           T == {k \in Nat : k <= n /\ ~Good(k)}
<1>1. Good(0)
  <2> DEFINE f == [i \in 1..n |-> 0]
  <2>1. f = [i \in 1..n |-> f[i]]
    OBVIOUS
  <2>2. AddsUp(f, q, 0)
    BY DEF AddsUp
  <2> QED BY <2>1, <2>2
<1>2. ASSUME NEW k \in Nat, k + 1 <= n, Good(k) PROVE Good(k + 1)
  <2>1. PICK f : f = [i \in 1..n |-> f[i]] /\ AddsUp(f, q, k)
    BY <1>2
  <2> DEFINE g == [i \in 1..n |-> IF i = k + 1 THEN IF i = 1 THEN q[i] ELSE f[i - 1] \o q[i] ELSE f[i]]
  <2>2. g = [i \in 1..n |-> g[i]]
    OBVIOUS
  <2>3. ASSUME NEW i \in 1..(k + 1)
        PROVE  g[i] = IF i = 1 THEN q[i] ELSE g[i - 1] \o q[i]
    <3>1. i \in 1..n /\ (i # 1 => i - 1 \in 1..n /\ i - 1 # k + 1)
      BY <1>2
    <3>2. i # 1 => g[i - 1] = f[i - 1]
      BY <3>1
    <3>3. CASE i = k + 1
      <4>1. g[i] = IF i = 1 THEN q[i] ELSE f[i - 1] \o q[i]
        BY <3>1, <3>3
      <4> HIDE DEF g
      <4> QED BY <3>2, <4>1
    <3>4. CASE i # k + 1
      <4>1. g[i] = f[i] /\ i \in 1..k
        BY <3>1, <3>4
      <4> HIDE DEF g
      <4>2. f[i] = IF i = 1 THEN q[i] ELSE f[i - 1] \o q[i]
        BY <2>1, <4>1 DEF AddsUp
      <4> QED BY <3>2, <4>1, <4>2
    <3> QED BY <3>3, <3>4
  <2> HIDE DEF g
  <2>4. AddsUp(g, q, k + 1)
    BY <2>3 DEF AddsUp
  <2> QED BY <2>2, <2>4
<1>3. T = {}
  <2> SUFFICES ASSUME T # {} PROVE FALSE
    OBVIOUS
  <2> HIDE DEF Good
  <2>1. T \subseteq Nat
    OBVIOUS
  <2>2. PICK k \in T : \A m \in T : k <= m
    <3> HIDE DEF T
    <3> QED BY <2>1, LeastNat
  <2>3. k \in Nat /\ k <= n /\ ~Good(k) /\ k # 0
    BY <1>1
  <2>4. k - 1 \in Nat /\ (k - 1) + 1 = k /\ k - 1 <= n /\ ~(k <= k - 1)
    BY <2>3
  <2>5. Good(k - 1)
    BY <2>2, <2>4
  <2>6. Good((k - 1) + 1)
    BY <1>2, <2>3, <2>4, <2>5
  <2> QED BY <2>3, <2>4, <2>6
<1>4. Good(n)
  <2> HIDE DEF Good
  <2> QED BY <1>3
<1>5. PICK f : f = [i \in 1..n |-> f[i]] /\ AddsUp(f, q, n)
  BY <1>4
<1>6. [i \in 1..n |-> f[i]] = [i \in 1..n |-> IF i = 1 THEN q[i] ELSE f[i - 1] \o q[i]]
  BY <1>5 DEF AddsUp
<1>7. f = [i \in 1..n |-> IF i = 1 THEN q[i] ELSE f[i - 1] \o q[i]]
  BY <1>5, <1>6
<1> QED BY <1>7 DEF Adds

LEMMA SumsAre ==
  ASSUME NEW U, NEW q \in Seq(Seq(U))
  PROVE  /\ Len(q) \in Nat
         /\ Sums(q) \in [0..Len(q) -> Seq(U)] /\ Sums(q)[0] = <<>>
         /\ \A i \in 1..Len(q) : Sums(q)[i] = Sums(q)[i - 1] \o q[i]
         /\ FlattenSeq(q) = Sums(q)[Len(q)]
<1> DEFINE n == Len(q)
           f == CHOOSE f : f = [i \in 1..n |-> IF i = 1 THEN q[i] ELSE f[i - 1] \o q[i]]
           s == [i \in 0..n |-> IF i = 0 THEN <<>> ELSE f[i]]
<1>1. n \in Nat /\ \A i \in 1..n : q[i] \in Seq(U)
  BY LenProperties, ElementOfSeq
<1>2. Sums(q) = s
  BY DEF Sums
<1>3. FlattenSeq(q) = IF n = 0 THEN q ELSE f[n]
  BY DEF FlattenSeq
<1>4. f = [i \in 1..n |-> IF i = 1 THEN q[i] ELSE f[i - 1] \o q[i]]
  <2> HIDE DEF n
  <2>1. \E g : g = [i \in 1..n |-> IF i = 1 THEN q[i] ELSE g[i - 1] \o q[i]]
    BY <1>1, AddsExists DEF Adds
  <2> QED BY <2>1
<1> HIDE DEF f
<1>5. \A i \in 1..n : f[i] = IF i = 1 THEN q[i] ELSE f[i - 1] \o q[i]
  BY <1>4
<1> HIDE DEF n
<1>6. s[0] = <<>> /\ \A i \in 1..n : s[i] = f[i]
  BY <1>1
<1>7. s = [i \in 0..n |-> s[i]]
  OBVIOUS
<1> HIDE DEF s
<1>8. ASSUME NEW i \in 1..n
      PROVE  /\ i - 1 \in 0..n
             /\ s[i] = IF i = 1 THEN q[i] ELSE s[i - 1] \o q[i]
             /\ i = 1 => s[i - 1] = <<>>
  <2>1. i - 1 \in 0..n /\ (i # 1 => i - 1 \in 1..n) /\ (i = 1 => i - 1 = 0)
    BY <1>1
  <2>2. i # 1 => s[i - 1] = f[i - 1]
    BY <1>6, <2>1
  <2> QED BY <1>5, <1>6, <2>1, <2>2
<1> DEFINE T == {i \in 0..n : s[i] \notin Seq(U)}
<1>9. T = {}
  <2> SUFFICES ASSUME T # {} PROVE FALSE
    OBVIOUS
  <2>1. T \subseteq Nat
    BY <1>1
  <2>2. PICK i \in T : \A m \in T : i <= m
    <3> HIDE DEF T
    <3> QED BY <2>1, LeastNat
  <2>3. i \in 1..n /\ s[i] \notin Seq(U)
    <3>1. s[0] \in Seq(U)
      BY <1>6, EmptySeq
    <3> QED BY <1>1, <3>1
  <2>4. i # 1 => s[i - 1] \in Seq(U)
    <3>1. i - 1 \in 0..n /\ ~(i <= i - 1)
      BY <1>1, <2>3
    <3> QED BY <2>2, <3>1
  <2>5. q[i] \in Seq(U)
    BY <1>1, <2>3
  <2>6. ASSUME i # 1 PROVE s[i - 1] \o q[i] \in Seq(U)
    BY <2>4, <2>5, <2>6, ConcatProperties
  <2>7. s[i] = IF i = 1 THEN q[i] ELSE s[i - 1] \o q[i]
    BY <1>8, <2>3
  <2> QED BY <2>3, <2>5, <2>6, <2>7
<1>10. s \in [0..n -> Seq(U)]
  BY <1>7, <1>9
<1>11. ASSUME NEW i \in 1..n PROVE s[i] = s[i - 1] \o q[i]
  <2>1. q[i] \in Seq(U)
    BY <1>1
  <2>2. <<>> \o q[i] = q[i]
    BY <2>1, ConcatEmptySeq
  <2> QED BY <1>8, <2>2
<1>12. FlattenSeq(q) = s[n]
  <2>1. CASE n = 0
    <3>1. q = <<>>
      BY <2>1, EmptySeq DEF n
    <3> QED BY <1>3, <1>6, <2>1, <3>1
  <2>2. CASE n # 0
    <3>1. n \in 1..n
      BY <1>1, <2>2
    <3> QED BY <1>3, <1>6, <2>2, <3>1
  <2> QED BY <2>1, <2>2
<1> QED BY <1>1, <1>2, <1>6, <1>10, <1>11, <1>12 DEF n

LEMMA FlattenTyped ==
  ASSUME NEW U, NEW q \in Seq(Seq(U))
  PROVE  FlattenSeq(q) \in Seq(U)
<1>1. /\ Len(q) \in Nat /\ Sums(q) \in [0..Len(q) -> Seq(U)]
      /\ FlattenSeq(q) = Sums(q)[Len(q)]
  BY SumsAre
<1>2. Len(q) \in 0..Len(q)
  BY <1>1
<1> QED BY <1>1, <1>2

-----------------------------------------------------------------------------
(* The words of a line.                                                    *)

LEMMA MinIs ==
  ASSUME NEW T, T \subseteq Nat, T # {}
  PROVE  Min(T) \in T /\ \A m \in T : Min(T) <= m
BY LeastNat DEF Min

LEMMA MaxIs ==
  ASSUME NEW n \in Nat, NEW T, T \subseteq 1..n, T # {}
  PROVE  Max(T) \in T
<1> DEFINE U == {k \in Nat : \E t \in T : k = n - t}
<1>1. U \subseteq Nat
  OBVIOUS
<1>2. U # {}
  <2>1. PICK t \in T : TRUE
    OBVIOUS
  <2>2. t \in 1..n
    OBVIOUS
  <2>3. n - t \in Nat
    BY <2>2
  <2> QED BY <2>1, <2>3
<1>3. PICK k \in U : \A m \in U : k <= m
  <2> HIDE DEF U
  <2> QED BY <1>1, <1>2, LeastNat
<1>4. PICK t \in T : k = n - t
  BY <1>3
<1>5. ASSUME NEW s \in T PROVE t >= s
  <2>1. s \in 1..n /\ t \in 1..n
    OBVIOUS
  <2>2. n - s \in U
    BY <2>1
  <2>3. k <= n - s
    BY <1>3, <2>2
  <2> QED BY <1>4, <2>1, <2>3
<1>6. \E x \in T : \A y \in T : x >= y
  BY <1>5
<1> QED BY <1>6 DEF Max

LEMMA SubSeqMade ==
  ASSUME NEW s, NEW a \in Int, NEW b \in Int
  PROVE  \E n \in Nat : DOMAIN SubSeq(s, a, b) = 1..n /\ Len(SubSeq(s, a, b)) = n
<1> DEFINE T == {s[i] : i \in a..b}
<1>1. SubSeq(s, a, b) \in Seq(T)
  <2>1. \A i \in a..b : s[i] \in T
    OBVIOUS
  <2> HIDE DEF T
  <2> QED BY <2>1, SubSeqProperties
<1> HIDE DEF T
<1> QED BY <1>1, LenProperties

\* Its places are numbered.
Numbered(text) == \E n \in Nat : DOMAIN text = 1..n /\ Len(text) = n

LEMMA TrimmedIs ==
  ASSUME NEW text, Numbered(text)
  PROVE  Numbered(TrimWhite(TrimComments(text)))
<1> DEFINE t == TrimComments(text)
<1>1. Numbered(t)
  <2>1. CASE At(text, {Hash}) = {}
    BY <2>1 DEF TrimComments
  <2>2. CASE At(text, {Hash}) # {}
    <3>1. At(text, {Hash}) \subseteq Nat
      BY DEF At, Numbered
    <3>2. Min(At(text, {Hash})) \in Nat
      BY <2>2, <3>1, MinIs
    <3>3. Min(At(text, {Hash})) - 1 \in Int /\ 1 \in Int
      BY <3>2
    <3>4. t = SubSeq(text, 1, Min(At(text, {Hash})) - 1)
      BY <2>2 DEF TrimComments
    <3> QED BY <3>3, <3>4, SubSeqMade DEF Numbered
  <2> QED BY <2>1, <2>2
<1> HIDE DEF t
<1> DEFINE ink == DOMAIN t \ At(t, White)
<1>2. CASE ink = {}
  <2>1. TrimWhite(t) = <<>>
    BY <1>2 DEF TrimWhite
  <2>2. Numbered(<<>>)
    <3>1. DOMAIN <<>> = 1..0 /\ Len(<<>>) = 0 /\ 0 \in Nat
      OBVIOUS
    <3> QED BY <3>1 DEF Numbered
  <2> QED BY <2>1, <2>2 DEF t
<1>3. CASE ink # {}
  <2>1. PICK n \in Nat : DOMAIN t = 1..n
    BY <1>1 DEF Numbered
  <2>2. ink \subseteq Nat /\ ink \subseteq 1..n
    BY <2>1
  <2>3. TrimWhite(t) = SubSeq(t, Min(ink), Max(ink))
    BY <1>3 DEF TrimWhite
  <2>4. PICK T \in SUBSET Nat : T = ink /\ T # {} /\ T \subseteq 1..n
    BY <1>3, <2>2
  <2> HIDE DEF ink
  <2>5. Min(T) \in Int /\ Max(T) \in Int
    <3>1. Min(T) \in T
      BY <2>4, MinIs
    <3>2. Max(T) \in T
      BY <2>1, <2>4, MaxIs
    <3>3. \A k \in T : k \in Int
      OBVIOUS
    <3> QED BY <3>1, <3>2, <3>3, Zenon
  <2>6. Min(ink) \in Int /\ Max(ink) \in Int
    BY <2>4, <2>5
  <2> QED BY <2>3, <2>6, SubSeqMade DEF Numbered, t
<1> QED BY <1>2, <1>3

\* What may be a word, and the words from a place on, when those from later ones
\* are in f.
Cut(text) == {SubSeq(text, r[1], r[2]) : r \in Int \X Int}

LEMMA CutIs == ASSUME NEW text, NEW a \in Int, NEW b \in Int PROVE SubSeq(text, a, b) \in Cut(text)
<1>1. PICK r \in Int \X Int : r[1] = a /\ r[2] = b
  <2>1. <<a, b>> \in Int \X Int /\ <<a, b>>[1] = a /\ <<a, b>>[2] = b
    OBVIOUS
  <2> QED BY <2>1
<1>2. SubSeq(text, r[1], r[2]) \in Cut(text)
  BY DEF Cut
<1> QED BY <1>1, <1>2

AfterWord(text, p) == Min({Len(text) + 1} \cup {i \in At(text, White) : i > p})

WordAt(text, f, p) ==
  IF p = Len(text) + 1 THEN <<>>
  ELSE IF text[p] \in White THEN f[p + 1]
  ELSE IF text[p] # Quote
  THEN <<SubSeq(text, p, AfterWord(text, p) - 1)>> \o f[AfterWord(text, p)]
  ELSE IF Closing(text, p) = {} THEN <<>>
  ELSE <<SubSeq(text, p + 1, Min(Closing(text, p)) - 1)>> \o f[Min(Closing(text, p)) + 1]

From(text) == CHOOSE f : f = [p \in 1..(Len(text) + 1) |-> WordAt(text, f, p)]

LEMMA WordsAre == ASSUME NEW text PROVE Words(text) = From(text)[1]
BY DEF Words, From, WordAt, AfterWord

LEMMA AfterIs ==
  ASSUME NEW text, Numbered(text), NEW p \in 1..Len(text)
  PROVE  /\ Len(text) \in Nat
         /\ AfterWord(text, p) \in (p + 1)..(Len(text) + 1)
         /\ Closing(text, p) # {} => Min(Closing(text, p)) + 1 \in (p + 1)..(Len(text) + 1)
<1>1. Len(text) \in Nat /\ DOMAIN text = 1..Len(text)
  BY DEF Numbered
<1> DEFINE T == {Len(text) + 1} \cup {i \in At(text, White) : i > p}
           U == Closing(text, p)
<1>2. T \subseteq (p + 1)..(Len(text) + 1) /\ Len(text) + 1 \in T
  BY <1>1 DEF At
<1>3. U \subseteq (p + 1)..Len(text)
  BY <1>1 DEF At, Closing
<1>4. AfterWord(text, p) = Min(T)
  BY DEF AfterWord
<1> HIDE DEF T, U
<1>5. T \subseteq Nat /\ T # {} /\ U \subseteq Nat
  BY <1>1, <1>2, <1>3
<1>6. Min(T) \in T /\ (U # {} => Min(U) \in U)
  BY <1>5, MinIs
<1>7. U # {} => Min(U) + 1 \in (p + 1)..(Len(text) + 1)
  <2>1. \A m \in (p + 1)..Len(text) : m + 1 \in (p + 1)..(Len(text) + 1)
    BY <1>1
  <2> QED BY <1>3, <1>6, <2>1
<1> QED BY <1>1, <1>2, <1>4, <1>6, <1>7 DEF U

LEMMA WordAtIs ==
  ASSUME NEW text, Numbered(text), NEW p \in 1..(Len(text) + 1), NEW f,
         \A q \in (p + 1)..(Len(text) + 1) : f[q] \in Seq(Cut(text))
  PROVE  WordAt(text, f, p) \in Seq(Cut(text))
<1>1. CASE p = Len(text) + 1
  BY <1>1, EmptySeq DEF WordAt
<1>2. CASE p # Len(text) + 1
  <2>1. Len(text) \in Nat
    BY DEF Numbered
  <2>2. p \in 1..Len(text) /\ p + 1 \in (p + 1)..(Len(text) + 1) /\ p \in Int /\ p + 1 \in Int
    BY <1>2, <2>1
  <2> DEFINE q == AfterWord(text, p)
             m == Min(Closing(text, p))
  <2>3. q \in (p + 1)..(Len(text) + 1)
        /\ (Closing(text, p) # {} => m + 1 \in (p + 1)..(Len(text) + 1) /\ m \in Nat)
    <3>1. q \in (p + 1)..(Len(text) + 1)
      BY <2>2, AfterIs
    <3>2. Closing(text, p) # {} => m + 1 \in (p + 1)..(Len(text) + 1)
      BY <2>2, AfterIs
    <3>3. Closing(text, p) \subseteq Nat
      BY DEF Closing, At, Numbered
    <3>4. Closing(text, p) # {} => m \in Nat
      BY <3>3, MinIs
    <3> QED BY <3>1, <3>2, <3>4
  <2>4. WordAt(text, f, p) =
          IF text[p] \in White THEN f[p + 1]
          ELSE IF text[p] # Quote THEN <<SubSeq(text, p, q - 1)>> \o f[q]
          ELSE IF Closing(text, p) = {} THEN <<>>
          ELSE <<SubSeq(text, p + 1, m - 1)>> \o f[m + 1]
    BY <1>2 DEF WordAt
  <2> HIDE DEF q, m
  <2>5. f[q] \in Seq(Cut(text)) /\ f[p + 1] \in Seq(Cut(text))
        /\ (Closing(text, p) # {} => f[m + 1] \in Seq(Cut(text)))
    BY <2>2, <2>3
  <2>6. <<SubSeq(text, p, q - 1)>> \in Seq(Cut(text))
    <3>1. q - 1 \in Int
      BY <2>2, <2>3
    <3>2. SubSeq(text, p, q - 1) \in Cut(text)
      BY <2>2, <3>1, CutIs
    <3> QED BY <3>2
  <2>7. Closing(text, p) # {} => <<SubSeq(text, p + 1, m - 1)>> \in Seq(Cut(text))
    <3> SUFFICES ASSUME Closing(text, p) # {} PROVE <<SubSeq(text, p + 1, m - 1)>> \in Seq(Cut(text))
      OBVIOUS
    <3>1. m - 1 \in Int
      BY <2>3
    <3>2. SubSeq(text, p + 1, m - 1) \in Cut(text)
      BY <2>2, <3>1, CutIs
    <3> QED BY <3>2
  <2>8. \A s, t \in Seq(Cut(text)) : s \o t \in Seq(Cut(text))
    BY ConcatProperties
  <2> QED BY <2>4, <2>5, <2>6, <2>7, <2>8, EmptySeq
<1> QED BY <1>1, <1>2

LEMMA WordAtSame ==
  ASSUME NEW text, Numbered(text), NEW p \in 1..(Len(text) + 1), NEW f, NEW g,
         \A q \in (p + 1)..(Len(text) + 1) : f[q] = g[q]
  PROVE  WordAt(text, f, p) = WordAt(text, g, p)
<1>1. CASE p = Len(text) + 1
  BY <1>1 DEF WordAt
<1>2. CASE p # Len(text) + 1
  <2>1. Len(text) \in Nat
    BY DEF Numbered
  <2>2. p \in 1..Len(text) /\ p + 1 \in (p + 1)..(Len(text) + 1)
    BY <1>2, <2>1
  <2>3. /\ AfterWord(text, p) \in (p + 1)..(Len(text) + 1)
        /\ Closing(text, p) # {} => Min(Closing(text, p)) + 1 \in (p + 1)..(Len(text) + 1)
    BY <2>2, AfterIs
  <2>4. /\ f[p + 1] = g[p + 1] /\ f[AfterWord(text, p)] = g[AfterWord(text, p)]
        /\ Closing(text, p) # {} =>
             f[Min(Closing(text, p)) + 1] = g[Min(Closing(text, p)) + 1]
    BY <2>2, <2>3
  <2> QED BY <2>4 DEF WordAt
<1> QED BY <1>1, <1>2

\* There is such a function.
LEMMA FromIs ==
  ASSUME NEW text, Numbered(text)
  PROVE  \A p \in 1..(Len(text) + 1) : From(text)[p] = WordAt(text, From(text), p)
<1> DEFINE end == Len(text) + 1
           Good(k) == \E f : /\ f = [p \in 1..end |-> f[p]]
                             /\ \A p \in 1..end : p + k > end => f[p] = WordAt(text, f, p)
           T == {k \in Nat : ~Good(k)}
<1>1. end \in Nat
  BY DEF Numbered
<1>2. Good(0)
  <2> DEFINE f == [p \in 1..end |-> <<>>]
  <2>1. f = [p \in 1..end |-> f[p]]
    OBVIOUS
  <2>2. \A p \in 1..end : ~(p + 0 > end)
    BY <1>1
  <2> HIDE DEF f
  <2> QED BY <2>1, <2>2
<1>3. ASSUME NEW k \in Nat, Good(k) PROVE Good(k + 1)
  <2>1. PICK f : \A p \in 1..end : p + k > end => f[p] = WordAt(text, f, p)
    BY <1>3
  <2>2. PICK g : /\ g = [p \in 1..end |-> g[p]]
                 /\ \A p \in 1..end : g[p] = WordAt(text, f, p)
    <3> DEFINE g == [p \in 1..end |-> WordAt(text, f, p)]
    <3>1. g = [p \in 1..end |-> g[p]] /\ \A p \in 1..end : g[p] = WordAt(text, f, p)
      OBVIOUS
    <3> QED BY <3>1
  <2>3. \A p \in 1..end : p + k > end => g[p] = f[p]
    BY <2>1, <2>2
  <2>4. ASSUME NEW p \in 1..end, p + (k + 1) > end PROVE g[p] = WordAt(text, g, p)
    <3>1. ASSUME NEW q \in (p + 1)..end PROVE g[q] = f[q]
      <4>1. q \in 1..end /\ q + k > end
        BY <1>1, <2>4
      <4> QED BY <2>3, <4>1
    <3>2. WordAt(text, g, p) = WordAt(text, f, p)
      BY <3>1, WordAtSame
    <3> QED BY <2>2, <3>2
  <2> QED BY <2>2, <2>4
<1>4. T = {}
  <2> SUFFICES ASSUME T # {} PROVE FALSE
    OBVIOUS
  <2> HIDE DEF Good
  <2>1. T \subseteq Nat
    OBVIOUS
  <2>2. PICK k \in T : \A m \in T : k <= m
    <3> HIDE DEF T
    <3> QED BY <2>1, LeastNat
  <2>3. k \in Nat /\ ~Good(k) /\ k # 0
    BY <1>2
  <2>4. k - 1 \in Nat /\ (k - 1) + 1 = k /\ ~(k <= k - 1)
    BY <2>3
  <2>5. Good(k - 1)
    BY <2>2, <2>4
  <2>6. Good((k - 1) + 1)
    BY <1>3, <2>4, <2>5
  <2> QED BY <2>3, <2>4, <2>6
<1>5. Good(end)
  <2> HIDE DEF Good
  <2> QED BY <1>1, <1>4
<1>6. PICK f : /\ f = [p \in 1..end |-> f[p]]
               /\ \A p \in 1..end : p + end > end => f[p] = WordAt(text, f, p)
  BY <1>5
<1>7. \A p \in 1..end : f[p] = WordAt(text, f, p)
  <2>1. \A p \in 1..end : p + end > end
    BY <1>1
  <2> QED BY <1>6, <2>1
<1>8. f = [p \in 1..end |-> WordAt(text, f, p)]
  <2>1. [p \in 1..end |-> f[p]] = [p \in 1..end |-> WordAt(text, f, p)]
    BY <1>7
  <2> QED BY <1>6, <2>1
<1>9. From(text) = [p \in 1..end |-> WordAt(text, From(text), p)]
  BY <1>8 DEF From
<1> SUFFICES ASSUME NEW p \in 1..end PROVE From(text)[p] = WordAt(text, From(text), p)
  OBVIOUS
<1> DEFINE o == From(text)
<1>10. o = [q \in 1..end |-> WordAt(text, o, q)]
  BY <1>9
<1> HIDE DEF o
<1>11. o[p] = WordAt(text, o, p)
  BY <1>10
<1> QED BY <1>11 DEF o

LEMMA WordsTyped ==
  ASSUME NEW text, Numbered(text)
  PROVE  Words(text) \in Seq(Cut(text))
<1> DEFINE end == Len(text) + 1
           o == From(text)
           D == {k \in Nat : \E p \in 1..end : p + k = end /\ o[p] \notin Seq(Cut(text))}
<1>1. end \in Nat \ {0}
  BY DEF Numbered
<1>2. D = {}
  <2> SUFFICES ASSUME D # {} PROVE FALSE
    OBVIOUS
  <2>1. D \subseteq Nat
    OBVIOUS
  <2>2. PICK k \in D : \A m \in D : k <= m
    <3> HIDE DEF D
    <3> QED BY <2>1, LeastNat
  <2>3. PICK p \in 1..end : p + k = end /\ o[p] \notin Seq(Cut(text))
    OBVIOUS
  <2>4. ASSUME NEW q \in (p + 1)..end PROVE o[q] \in Seq(Cut(text))
    <3>1. q \in 1..end /\ end - q \in Nat /\ q + (end - q) = end /\ ~(k <= end - q) /\ k \in Nat
      BY <1>1, <2>3
    <3>2. end - q \notin D
      <4> HIDE DEF D
      <4> QED BY <2>2, <3>1
    <3> HIDE DEF o
    <3> QED BY <3>1, <3>2
  <2>5. WordAt(text, o, p) \in Seq(Cut(text))
    BY <2>4, WordAtIs
  <2>6. o[p] = WordAt(text, o, p)
    BY FromIs
  <2> QED BY <2>3, <2>5, <2>6
<1>3. o[1] \in Seq(Cut(text))
  <2>1. 1 \in 1..end /\ end - 1 \in Nat /\ 1 + (end - 1) = end
    BY <1>1
  <2> HIDE DEF o
  <2> QED BY <1>2, <2>1
<1> QED BY <1>3, WordsAre

\* The arguments of a line are numbered.
LEMMA CommandNumbered ==
  ASSUME NEW text, Numbered(text), Command(text).op \in Table
  PROVE  \E n \in Nat : DOMAIN Command(text).args = 1..n
                       /\ Command(text).args = [i \in 1..n |-> Command(text).args[i]]
<1> DEFINE line == TrimWhite(TrimComments(text))
           words == Words(line)
           first == Min(Named(words))
           tail == SubSeq(words, first + 1, Len(words))
           op == words[first][1]
<1>1. words \in Seq(Cut(line)) /\ Len(words) \in Nat
  <2>1. Numbered(line)
    BY TrimmedIs
  <2> HIDE DEF line
  <2> QED BY <2>1, WordsTyped, LenProperties
<1>2. Command(text) = [op |-> op, args |-> Arguments(op, tail)]
  BY DEF Command, Emitted, Blank, NoCommand, Table
<1>3. Named(words) # {}
  <2>1. CASE line = <<>>
    BY <2>1 DEF Command, Blank, Table
  <2>2. CASE line # <<>>
    <3>1. Command(text) = Emitted(words)
      BY <2>2 DEF Command
    <3> HIDE DEF words
    <3>2. Named(words) = {} => Emitted(words) = NoCommand
      BY DEF Emitted
    <3>3. NoCommand.op \notin Table
      BY DEF NoCommand, Table
    <3> QED BY <3>1, <3>2, <3>3
  <2> QED BY <2>1, <2>2
<1>4. first \in Int
  <2>1. Named(words) \subseteq Nat
    BY <1>1, LenProperties DEF Named
  <2> HIDE DEF words
  <2> QED BY <1>3, <2>1, MinIs
<1>5. PICK n \in Nat : DOMAIN tail = 1..n
  <2>1. first + 1 \in Int /\ Len(words) \in Int
    BY <1>1, <1>4
  <2> HIDE DEF first, words
  <2> QED BY <2>1, SubSeqMade
<1>6. Command(text).args = Arguments(op, tail)
  BY <1>2
<1> HIDE DEF op, tail
<1>7. Arguments(op, tail) = [i \in 1..n |-> Converted(op, tail[i])]
  BY <1>5 DEF Arguments
<1> QED BY <1>6, <1>7
LEMMA EchoArgs ==
  ASSUME NEW line \in Byte, Op(line) = "echo"
  PROVE  \E n \in Nat : Args(line) = [i \in 1..n |-> Args(line)[i]]
<1>1. Commands[line] = IF line.tag = "line" THEN Command(line.text) ELSE NoCommand
  BY DEF Commands
<1>2. line.tag = "line"
  <2> SUFFICES ASSUME line.tag # "line" PROVE FALSE
    OBVIOUS
  <2>1. Commands[line] = NoCommand
    BY <1>1
  <2>2. Op(line) = NoCommand.op
    BY <2>1 DEF Op
  <2>3. NoCommand.op = "no command"
    BY DEF NoCommand
  <2> QED BY <2>2, <2>3
<1>3. Numbered(line.text)
  BY <1>2, NetBootAssumption, LenProperties DEF Numbered
<1>4. Command(line.text).op \in Table /\ Args(line) = Command(line.text).args
  BY <1>1, <1>2 DEF Op, Args, Table
<1> QED BY <1>3, <1>4, CommandNumbered

-----------------------------------------------------------------------------
(* What a reading of the scripts gives.                                    *)

\* What can be printed.
Word == Names \cup {Args(line)[i] : line \in Byte, i \in Nat}

LineOut(out_, line) ==
  IF Op(line) \in {"echo", "disp"} THEN Args(line)
  ELSE IF Op(line) = "exec"
  THEN FlattenSeq([k \in DOMAIN Args(line) |-> out_[Args(line)[k]]])
  ELSE <<>>

LinesOut(out_, text) == [i \in DOMAIN text |-> LineOut(out_, text[i])]

ScriptOut(out_, n) ==
  IF Files[n] = <<>> THEN <<>> ELSE FlattenSeq(LinesOut(out_, Files[n][1]))

Out == CHOOSE output : output = [n \in Names |-> ScriptOut(output, n)]

LEMMA OutputIs == Output = Out[Autoexec]
BY DEF Output, Out, ScriptOut, LinesOut, LineOut

\* Scripts execute each other without a circle: each comes before those that it
\* executes, in some order of finite depth.
NoCircle(rank, depth) ==
  /\ depth \in Nat /\ rank \in [Names -> 0..depth]
  /\ \A n \in Names : Files[n] # <<>> =>
       \A i \in DOMAIN Files[n][1] :
         LET line == Files[n][1][i] IN
         Op(line) = "exec" => \A k \in DOMAIN Args(line) : rank[Args(line)[k]] < rank[n]

LEMMA ArgsAre ==
  ASSUME NEW line \in Byte, Op(line) \in {"echo", "disp", "exec", "load"}
  PROVE  /\ Args(line) \in Seq(Word) /\ Len(Args(line)) \in Nat
         /\ DOMAIN Args(line) = 1..Len(Args(line))
         /\ Op(line) # "echo" => Args(line) \in Seq(Names)
<1>1. CASE Op(line) = "echo"
  <2>1. PICK n \in Nat : Args(line) = [i \in 1..n |-> Args(line)[i]]
    BY <1>1, EchoArgs
  <2>2. \A i \in 1..n : Args(line)[i] \in Word
    BY DEF Word
  <2>3. Args(line) \in Seq(Word)
    <3> DEFINE a == Args(line)
    <3>1. a = [i \in 1..n |-> a[i]] /\ \A i \in 1..n : a[i] \in Word
      BY <2>1, <2>2
    <3> HIDE DEF a
    <3>2. a \in [1..n -> Word]
      BY <3>1
    <3> QED BY <3>2, SeqDef DEF a
  <2> QED BY <1>1, <2>3, LenProperties
<1>2. CASE Op(line) # "echo"
  <2>1. Args(line) \in Seq(Names)
    BY <1>2, NetBootAssumption
  <2>2. Args(line) \in Seq(Word)
    <3> DEFINE a == Args(line)
    <3>1. a \in [1..Len(a) -> Names] /\ Len(a) \in Nat
      BY <2>1, LenProperties
    <3> HIDE DEF a
    <3>2. a \in [1..Len(a) -> Word]
      BY <3>1 DEF Word
    <3> QED BY <3>1, <3>2, SeqDef DEF a
  <2> QED BY <1>2, <2>1, <2>2, LenProperties
<1> QED BY <1>1, <1>2

LEMMA SeqMade ==
  ASSUME NEW S, NEW n \in Nat, NEW s, s = [i \in 1..n |-> s[i]], \A i \in 1..n : s[i] \in S
  PROVE  s \in Seq(S) /\ Len(s) = n
<1>1. s \in [1..n -> S]
  OBVIOUS
<1> QED BY <1>1, LenProperties

\* What the arguments of an exec print, one by one.
Parts(out_, line) == [k \in DOMAIN Args(line) |-> out_[Args(line)[k]]]

LEMMA PartsAre ==
  ASSUME NEW o \in [Names -> Seq(Word)], NEW line \in Byte, Op(line) = "exec"
  PROVE  /\ Parts(o, line) \in Seq(Seq(Word)) /\ Len(Parts(o, line)) = Len(Args(line))
         /\ \A k \in 1..Len(Args(line)) :
              Args(line)[k] \in Names /\ Parts(o, line)[k] = o[Args(line)[k]]
<1> DEFINE n == Len(Args(line))
           s == Parts(o, line)
<1>1. Args(line) \in Seq(Names) /\ n \in Nat /\ DOMAIN Args(line) = 1..n
  BY ArgsAre
<1>2. \A k \in 1..n : Args(line)[k] \in Names
  BY <1>1, ElementOfSeq
<1>3. s = [k \in 1..n |-> o[Args(line)[k]]]
  BY <1>1 DEF Parts
<1> HIDE DEF n, s
<1>4. s = [k \in 1..n |-> s[k]] /\ \A k \in 1..n : s[k] = o[Args(line)[k]]
  BY <1>3
<1>5. \A k \in 1..n : s[k] \in Seq(Word)
  BY <1>2, <1>4
<1>6. s \in Seq(Seq(Word)) /\ Len(s) = n
  BY <1>1, <1>4, <1>5, SeqMade
<1> QED BY <1>2, <1>4, <1>6 DEF n, s

LEMMA LineOutIs ==
  ASSUME NEW o \in [Names -> Seq(Word)], NEW line \in Byte
  PROVE  LineOut(o, line) \in Seq(Word)
<1>1. CASE Op(line) \in {"echo", "disp"}
  BY <1>1, ArgsAre DEF LineOut
<1>2. CASE Op(line) = "exec"
  <2>1. Parts(o, line) \in Seq(Seq(Word))
    BY <1>2, PartsAre
  <2>2. FlattenSeq(Parts(o, line)) \in Seq(Word)
    BY <2>1, FlattenTyped
  <2>3. LineOut(o, line) = FlattenSeq(Parts(o, line))
    BY <1>2 DEF LineOut, Parts
  <2> QED BY <2>2, <2>3
<1>3. CASE Op(line) \notin {"echo", "disp", "exec"}
  <2>1. LineOut(o, line) = <<>>
    BY <1>3 DEF LineOut
  <2> QED BY <2>1, EmptySeq
<1> QED BY <1>1, <1>2, <1>3

LEMMA LinesOutAre ==
  ASSUME NEW o \in [Names -> Seq(Word)], NEW text \in Seq(Byte)
  PROVE  /\ LinesOut(o, text) \in Seq(Seq(Word)) /\ Len(LinesOut(o, text)) = Len(text)
         /\ \A i \in 1..Len(text) :
              text[i] \in Byte /\ LinesOut(o, text)[i] = LineOut(o, text[i])
<1> DEFINE s == LinesOut(o, text)
           n == Len(text)
<1>1. n \in Nat /\ DOMAIN text = 1..n /\ \A i \in 1..n : text[i] \in Byte
  BY LenProperties, ElementOfSeq
<1>2. s = [i \in 1..n |-> LineOut(o, text[i])]
  BY <1>1 DEF LinesOut
<1> HIDE DEF s, n
<1>3. s = [i \in 1..n |-> s[i]] /\ \A i \in 1..n : s[i] = LineOut(o, text[i])
  BY <1>2
<1>4. \A i \in 1..n : s[i] \in Seq(Word)
  BY <1>1, <1>3, LineOutIs
<1>5. s \in Seq(Seq(Word)) /\ Len(s) = n
  BY <1>1, <1>3, <1>4, SeqMade
<1> QED BY <1>1, <1>3, <1>5 DEF s, n

LEMMA ScriptOutIs ==
  ASSUME NEW o \in [Names -> Seq(Word)], NEW n \in Names
  PROVE  ScriptOut(o, n) \in Seq(Word)
<1>1. CASE Files[n] = <<>>
  BY <1>1, EmptySeq DEF ScriptOut
<1>2. CASE Files[n] # <<>>
  <2>1. Files[n][1] \in Seq(Byte)
    BY <1>2, TftpAssumption, EmptySeq, LenProperties, ElementOfSeq
  <2> DEFINE q == LinesOut(o, Files[n][1])
  <2>2. q \in Seq(Seq(Word))
    BY <2>1, LinesOutAre
  <2>3. ScriptOut(o, n) = FlattenSeq(q)
    BY <1>2 DEF ScriptOut
  <2> QED BY <2>2, <2>3, FlattenTyped
<1> QED BY <1>1, <1>2

LEMMA FirstIs ==
  ASSUME NEW n \in Names, Files[n] # <<>>
  PROVE  Files[n][1] \in Seq(Byte) /\ DOMAIN Files[n][1] = 1..Len(Files[n][1])
<1>1. Files[n] \in Seq(Seq(Byte))
  BY TftpAssumption
<1>2. 1 \in 1..Len(Files[n])
  BY <1>1, EmptySeq, LenProperties
<1> QED BY <1>1, <1>2, ElementOfSeq, LenProperties

\* What a script prints is known when it is known of those it executes.
LEMMA ScriptOutSame ==
  ASSUME NEW rank, NEW depth, NoCircle(rank, depth), NEW n \in Names, NEW f, NEW g,
         \A a \in Names : rank[a] < rank[n] => f[a] = g[a]
  PROVE  ScriptOut(f, n) = ScriptOut(g, n)
<1>1. CASE Files[n] = <<>>
  BY <1>1 DEF ScriptOut
<1>2. CASE Files[n] # <<>>
  <2> DEFINE text == Files[n][1]
  <2>1. text \in Seq(Byte) /\ DOMAIN text = 1..Len(text)
    BY <1>2, FirstIs
  <2>2. ASSUME NEW i \in DOMAIN text PROVE LineOut(f, text[i]) = LineOut(g, text[i])
    <3>1. text[i] \in Byte
      BY <2>1, ElementOfSeq
    <3>2. CASE Op(text[i]) = "exec"
      <4>1. Args(text[i]) \in Seq(Names) /\ DOMAIN Args(text[i]) = 1..Len(Args(text[i]))
        BY <3>1, <3>2, ArgsAre
      <4>2. ASSUME NEW k \in DOMAIN Args(text[i]) PROVE f[Args(text[i])[k]] = g[Args(text[i])[k]]
        <5>1. Args(text[i])[k] \in Names
          BY <4>1, ElementOfSeq
        <5>2. rank[Args(text[i])[k]] < rank[n]
          BY <1>2, <3>2 DEF NoCircle
        <5> QED BY <5>1, <5>2
      <4>3. [k \in DOMAIN Args(text[i]) |-> f[Args(text[i])[k]]]
              = [k \in DOMAIN Args(text[i]) |-> g[Args(text[i])[k]]]
        BY <4>2
      <4> QED BY <3>2, <4>3 DEF LineOut
    <3>3. CASE Op(text[i]) # "exec"
      BY <3>3 DEF LineOut
    <3> QED BY <3>2, <3>3
  <2> HIDE DEF text
  <2>3. LinesOut(f, text) = LinesOut(g, text)
    BY <2>2 DEF LinesOut
  <2> QED BY <1>2, <2>3 DEF ScriptOut, text
<1> QED BY <1>1, <1>2

LEMMA OutIs ==
  ASSUME NEW rank, NEW depth, NoCircle(rank, depth)
  PROVE  Out \in [Names -> Seq(Word)] /\ \A n \in Names : Out[n] = ScriptOut(Out, n)
<1> DEFINE Good(k) == \E f \in [Names -> Seq(Word)] :
                        \A n \in Names : rank[n] < k => f[n] = ScriptOut(f, n)
           T == {k \in Nat : ~Good(k)}
<1>1. depth \in Nat /\ rank \in [Names -> 0..depth]
  BY DEF NoCircle
<1>2. Good(0)
  <2> DEFINE f == [n \in Names |-> <<>>]
  <2>1. f \in [Names -> Seq(Word)]
    BY EmptySeq
  <2>2. \A n \in Names : ~(rank[n] < 0)
    BY <1>1
  <2> QED BY <2>1, <2>2
<1>3. ASSUME NEW k \in Nat, Good(k) PROVE Good(k + 1)
  <2>1. PICK f \in [Names -> Seq(Word)] : \A n \in Names : rank[n] < k => f[n] = ScriptOut(f, n)
    BY <1>3
  <2>2. PICK g \in [Names -> Seq(Word)] : \A n \in Names : g[n] = ScriptOut(f, n)
    <3> DEFINE g == [n \in Names |-> ScriptOut(f, n)]
    <3>1. g \in [Names -> Seq(Word)] /\ \A n \in Names : g[n] = ScriptOut(f, n)
      BY ScriptOutIs
    <3> QED BY <3>1
  <2>3. \A n \in Names : rank[n] < k => g[n] = f[n]
    BY <2>1, <2>2
  <2>4. ASSUME NEW n \in Names, rank[n] < k + 1 PROVE g[n] = ScriptOut(g, n)
    <3>1. \A a \in Names : rank[a] < rank[n] => rank[a] < k
      BY <1>1, <2>4
    <3>2. ASSUME NEW a \in Names, rank[a] < rank[n] PROVE g[a] = f[a]
      BY <2>3, <3>1, <3>2
    <3>3. ScriptOut(g, n) = ScriptOut(f, n)
      BY <3>2, ScriptOutSame
    <3> QED BY <2>2, <3>3
  <2> QED BY <2>2, <2>4
<1>4. T = {}
  <2> SUFFICES ASSUME T # {} PROVE FALSE
    OBVIOUS
  <2> HIDE DEF Good
  <2>1. T \subseteq Nat
    OBVIOUS
  <2>2. PICK k \in T : \A m \in T : k <= m
    <3> HIDE DEF T
    <3> QED BY <2>1, LeastNat
  <2>3. k \in Nat /\ ~Good(k) /\ k # 0
    BY <1>2
  <2>4. k - 1 \in Nat /\ (k - 1) + 1 = k /\ ~(k <= k - 1)
    BY <2>3
  <2>5. Good(k - 1)
    BY <2>2, <2>4
  <2>6. Good((k - 1) + 1)
    BY <1>3, <2>4, <2>5
  <2> QED BY <2>3, <2>4, <2>6
<1>5. Good(depth + 1)
  <2> HIDE DEF Good
  <2> QED BY <1>1, <1>4
<1>6. PICK f \in [Names -> Seq(Word)] : \A n \in Names : rank[n] < depth + 1 => f[n] = ScriptOut(f, n)
  BY <1>5
<1>7. \A n \in Names : f[n] = ScriptOut(f, n)
  <2>1. \A n \in Names : rank[n] < depth + 1
    BY <1>1
  <2> QED BY <1>6, <2>1
<1>8. f = [n \in Names |-> ScriptOut(f, n)]
  <2>1. f = [n \in Names |-> f[n]]
    OBVIOUS
  <2>2. [n \in Names |-> f[n]] = [n \in Names |-> ScriptOut(f, n)]
    BY <1>7
  <2> QED BY <2>1, <2>2
<1>9. Out = [n \in Names |-> ScriptOut(Out, n)]
  BY <1>8 DEF Out
\* Any such function is f, so that it has f's values.
<1> DEFINE D == {k \in Nat : \E n \in Names : rank[n] = k /\ Out[n] # f[n]}
<1>10. D = {}
  <2> SUFFICES ASSUME D # {} PROVE FALSE
    OBVIOUS
  <2>1. D \subseteq Nat
    OBVIOUS
  <2>2. PICK k \in D : \A m \in D : k <= m
    <3> HIDE DEF D
    <3> QED BY <2>1, LeastNat
  <2>3. PICK n \in Names : rank[n] = k /\ Out[n] # f[n]
    OBVIOUS
  <2>4. ASSUME NEW a \in Names, rank[a] < rank[n] PROVE Out[a] = f[a]
    <3>1. rank[a] \in Nat /\ k \in Nat /\ ~(k <= rank[a])
      BY <1>1, <2>3, <2>4
    <3>2. rank[a] \notin D
      <4> HIDE DEF D
      <4> QED BY <2>2, <3>1
    <3> QED BY <3>1, <3>2
  <2>5. ScriptOut(Out, n) = ScriptOut(f, n)
    BY <2>4, ScriptOutSame
  <2>6. Out[n] = ScriptOut(Out, n)
    <3> DEFINE o == Out
    <3>1. o = [m \in Names |-> ScriptOut(o, m)]
      BY <1>9
    <3> HIDE DEF o
    <3>2. o[n] = ScriptOut(o, n)
      BY <3>1
    <3> QED BY <3>2 DEF o
  <2> QED BY <1>7, <2>3, <2>5, <2>6
<1>11. \A n \in Names : Out[n] = f[n]
  <2>1. \A n \in Names : rank[n] \in Nat
    BY <1>1
  <2> QED BY <1>10, <2>1
<1>12. Out = f
  <2> DEFINE o == Out
             h == [n \in Names |-> ScriptOut(o, n)]
  <2>1. o = h
    BY <1>9
  <2>2. h = [n \in Names |-> h[n]]
    OBVIOUS
  <2>3. \A n \in Names : h[n] = f[n]
    BY <1>11, <2>1
  <2> HIDE DEF o, h
  <2>4. h = f
    BY <2>2, <2>3
  <2> QED BY <2>1, <2>4 DEF o
<1> QED BY <1>7, <1>12

-----------------------------------------------------------------------------
(* What has been printed on the way through a script.                      *)

Begins(s, t) == \E m \in Seq(Word) : s \o m = t

LEMMA Joined ==
  ASSUME NEW r \in Seq(Word), NEW s \in Seq(Word), NEW t \in Seq(Word)
  PROVE  /\ (r \o s) \o t = r \o (s \o t) /\ s \o t \in Seq(Word)
         /\ s \o <<>> = s /\ <<>> \o s = s /\ <<>> \in Seq(Word)
<1>1. (r \o s) \o t = r \o (s \o t)
  BY ConcatAssociative
<1>2. s \o t \in Seq(Word)
  BY ConcatProperties
<1> QED BY <1>1, <1>2, ConcatEmptySeq, EmptySeq

LEMMA Assoc ==
  \A r, s, t \in Seq(Word) : (r \o s) \o t = r \o (s \o t)
BY ConcatAssociative

Cat(s, t) == s \o t

LEMMA JoinedAgain ==
  ASSUME NEW p \in Seq(Word), NEW b \in Seq(Word), NEW a \in Seq(Word), NEW x \in Seq(Word)
  PROVE  Cat(Cat(p, Cat(b, a)), x) = Cat(p, Cat(b, Cat(a, x)))
<1>1. \A r, s, t \in Seq(Word) : Cat(Cat(r, s), t) = Cat(r, Cat(s, t))
  BY Assoc, Zenon DEF Cat
<1>2. Cat(b, a) \in Seq(Word)
  BY Joined DEF Cat
<1> QED BY <1>1, <1>2

LEMMA BeginsIs ==
  ASSUME NEW r \in Seq(Word), NEW s \in Seq(Word), NEW t \in Seq(Word)
  PROVE  /\ Begins(s, s) /\ Begins(r, r \o s)
         /\ Begins(r, s) /\ Begins(s, t) => Begins(r, t)
         /\ Begins(s, t) => Begins(r \o s, r \o t)
         /\ Begins(r \o s, t) => Begins(r, t)
<1>1. Begins(s, s)
  <2>1. s \o <<>> = s /\ <<>> \in Seq(Word)
    BY ConcatEmptySeq, EmptySeq
  <2> QED BY <2>1 DEF Begins
<1>2. Begins(r, r \o s)
  BY DEF Begins
<1>3. ASSUME Begins(r, s), Begins(s, t) PROVE Begins(r, t)
  <2>1. PICK m \in Seq(Word) : r \o m = s
    BY <1>3 DEF Begins
  <2>2. PICK n \in Seq(Word) : s \o n = t
    BY <1>3 DEF Begins
  <2>3. (r \o m) \o n = r \o (m \o n) /\ m \o n \in Seq(Word)
    <3>1. m \o n \in Seq(Word)
      BY ConcatProperties
    <3>2. (r \o m) \o n = r \o (m \o n)
      BY Assoc
    <3> QED BY <3>1, <3>2
  <2>4. r \o (m \o n) = t
    BY <2>1, <2>2, <2>3
  <2> QED BY <2>3, <2>4 DEF Begins
<1>4. ASSUME Begins(s, t) PROVE Begins(r \o s, r \o t)
  <2>1. PICK m \in Seq(Word) : s \o m = t
    BY <1>4 DEF Begins
  <2>2. (r \o s) \o m = r \o (s \o m)
    BY Assoc
  <2>3. (r \o s) \o m = r \o t
    BY <2>1, <2>2
  <2> QED BY <2>3 DEF Begins
<1>5. ASSUME Begins(r \o s, t) PROVE Begins(r, t)
  <2>1. PICK m \in Seq(Word) : (r \o s) \o m = t
    BY <1>5 DEF Begins
  <2>2. (r \o s) \o m = r \o (s \o m) /\ s \o m \in Seq(Word)
    <3>1. s \o m \in Seq(Word)
      BY ConcatProperties
    <3>2. (r \o s) \o m = r \o (s \o m)
      BY Assoc
    <3> QED BY <3>1, <3>2
  <2>3. r \o (s \o m) = t
    BY <2>1, <2>2
  <2> QED BY <2>2, <2>3 DEF Begins
<1> QED BY <1>1, <1>2, <1>3, <1>4, <1>5

LEMMA SumsBegin ==
  ASSUME NEW q \in Seq(Seq(Word)), NEW i \in 0..Len(q)
  PROVE  Begins(Sums(q)[i], FlattenSeq(q))
<1> DEFINE n == Len(q)
           s == Sums(q)
           T == {d \in 0..n : ~Begins(s[n - d], FlattenSeq(q))}
<1>1. /\ n \in Nat /\ s \in [0..n -> Seq(Word)] /\ FlattenSeq(q) = s[n]
      /\ \A k \in 1..n : s[k] = s[k - 1] \o q[k] /\ q[k] \in Seq(Word)
  BY SumsAre, ElementOfSeq
<1> HIDE DEF n, s
<1>2. \A k \in 0..n : s[k] \in Seq(Word)
  BY <1>1
<1>3. FlattenSeq(q) \in Seq(Word)
  BY FlattenTyped
<1>4. T = {}
  <2> SUFFICES ASSUME T # {} PROVE FALSE
    OBVIOUS
  <2>1. T \subseteq Nat
    BY <1>1
  <2>2. PICK d \in T : \A m \in T : d <= m
    <3> HIDE DEF T
    <3> QED BY <2>1, LeastNat
  <2>3. d \in 0..n /\ ~Begins(s[n - d], FlattenSeq(q))
    OBVIOUS
  <2>4. d # 0
    <3>1. n - 0 = n /\ n \in 0..n
      BY <1>1
    <3>2. Begins(s[n], s[n])
      BY <1>2, <3>1, BeginsIs
    <3> QED BY <1>1, <2>3, <3>1, <3>2
  <2> HIDE DEF T
  <2>5. /\ d - 1 \in 0..n /\ ~(d <= d - 1) /\ n - (d - 1) \in 1..n
        /\ (n - (d - 1)) - 1 = n - d /\ n - d \in 0..n
    BY <1>1, <2>3, <2>4
  <2>6. d - 1 \notin T
    BY <2>2, <2>5
  <2>7. Begins(s[n - (d - 1)], FlattenSeq(q))
    BY <2>5, <2>6 DEF T
  <2>8. PICK k \in 1..n : k = n - (d - 1)
    BY <2>5
  <2>9. s[k] = s[k - 1] \o q[k] /\ q[k] \in Seq(Word) /\ k - 1 = n - d
    BY <1>1, <2>5, <2>8
  <2>10. s[n - d] \in Seq(Word)
    BY <1>2, <2>5
  <2>11. Begins(s[n - d] \o q[k], FlattenSeq(q))
    BY <2>7, <2>8, <2>9
  <2> QED BY <1>3, <2>3, <2>9, <2>10, <2>11, BeginsIs
<1>5. n - i \in 0..n /\ n - (n - i) = i
  BY <1>1 DEF n
<1>6. Begins(s[n - (n - i)], FlattenSeq(q))
  BY <1>4, <1>5
<1> QED BY <1>5, <1>6 DEF s

\* By the arguments of a line before this one; by the lines before this one; in
\* all.
Part(line, arg) ==
  IF Op(line) = "disp" THEN SubSeq(Args(line), 1, arg - 1)
  ELSE IF Op(line) = "exec" THEN Sums(Parts(Out, line))[arg - 1]
  ELSE <<>>

Before(text, at) == Sums(LinesOut(Out, text))[at - 1]

TextOut(text) == FlattenSeq(LinesOut(Out, text))

LEMMA DispPart ==
  ASSUME NEW line \in Byte, Op(line) = "disp", NEW arg \in 1..(Len(Args(line)) + 1)
  PROVE  /\ Part(line, arg) \in Seq(Word) /\ Part(line, 1) = <<>>
         /\ arg <= Len(Args(line)) =>
              /\ Args(line)[arg] \in Word
              /\ Part(line, arg + 1) = Append(Part(line, arg), Args(line)[arg])
         /\ arg = Len(Args(line)) + 1 => Part(line, arg) = LineOut(Out, line)
         /\ Begins(Part(line, arg), LineOut(Out, line))
<1> DEFINE a == Args(line)
<1>1. a \in Seq(Word) /\ Len(a) \in Nat /\ a = LineOut(Out, line)
  BY ArgsAre DEF LineOut
<1>2. \A k : Part(line, k) = SubSeq(a, 1, k - 1)
  BY DEF Part
<1>3. arg \in 1..(Len(a) + 1)
  OBVIOUS
<1> HIDE DEF a
<1>4. arg - 1 \in 0..Len(a) /\ arg \in Nat
  BY <1>1, <1>3
<1>5. SubSeq(a, 1, arg - 1) \in Seq(Word) /\ Len(SubSeq(a, 1, arg - 1)) = arg - 1
  BY <1>1, <1>4
<1>6. SubSeq(a, 1, 0) = <<>>
  BY <1>1
<1>7. ASSUME arg <= Len(a)
      PROVE  a[arg] \in Word /\ SubSeq(a, 1, arg) = Append(SubSeq(a, 1, arg - 1), a[arg])
  <2>1. arg \in 1..Len(a)
    BY <1>3, <1>7
  <2>2. a[arg] \in Word
    BY <1>1, <2>1, ElementOfSeq
  <2> QED BY <1>1, <2>1, <2>2
<1>8. SubSeq(a, 1, Len(a)) = a
  BY <1>1
<1>9. Begins(SubSeq(a, 1, arg - 1), a)
  <2>1. SubSeq(a, arg, Len(a)) \in Seq(Word)
    BY <1>1, <1>3
  <2>2. SubSeq(a, 1, arg - 1) \o SubSeq(a, arg, Len(a)) = a
    <3> DEFINE u == SubSeq(a, 1, arg - 1)
               v == SubSeq(a, arg, Len(a))
    <3>1. u \in Seq(Word) /\ Len(u) = arg - 1 /\ \A i \in 1..(arg - 1) : u[i] = a[i]
      BY <1>1, <1>3, <1>4
    <3>2. v \in Seq(Word) /\ Len(v) = Len(a) - arg + 1
          /\ \A i \in 1..(Len(a) - arg + 1) : v[i] = a[arg + i - 1]
      BY <1>1, <1>3, <1>4
    <3> HIDE DEF u, v
    <3>3. u \o v \in Seq(Word) /\ Len(u \o v) = Len(a)
      BY <1>1, <1>3, <3>1, <3>2
    <3>4. ASSUME NEW i \in 1..Len(a) PROVE (u \o v)[i] = a[i]
      <4>1. CASE i <= arg - 1
        BY <1>1, <1>3, <3>1, <3>2, <4>1
      <4>2. CASE ~(i <= arg - 1)
        <5>1. i - (arg - 1) \in 1..(Len(a) - arg + 1) /\ arg + (i - (arg - 1)) - 1 = i
          BY <1>1, <1>3, <4>2
        <5>2. (u \o v)[i] = v[i - (arg - 1)]
          BY <1>1, <1>3, <3>1, <3>2, <4>2
        <5> QED BY <3>2, <5>1, <5>2
      <4> QED BY <4>1, <4>2
    <3> QED BY <1>1, <3>3, <3>4, SeqEqual DEF u, v
  <2> QED BY <2>1, <2>2 DEF Begins
<1>10. arg + 1 - 1 = arg /\ 1 - 1 = 0 /\ (arg = Len(a) + 1 => arg - 1 = Len(a))
  BY <1>1, <1>4
<1>11. /\ Part(line, 1) = SubSeq(a, 1, 0) /\ Part(line, arg) = SubSeq(a, 1, arg - 1)
       /\ Part(line, arg + 1) = SubSeq(a, 1, arg)
  <2>1. Part(line, 1) = SubSeq(a, 1, 1 - 1) /\ Part(line, arg + 1) = SubSeq(a, 1, arg + 1 - 1)
    BY <1>2
  <2> QED BY <1>2, <1>10, <2>1
<1>12. arg = Len(a) + 1 => Part(line, arg) = LineOut(Out, line)
  BY <1>1, <1>8, <1>10, <1>11
<1>13. /\ Part(line, arg) \in Seq(Word) /\ Part(line, 1) = <<>>
       /\ Begins(Part(line, arg), LineOut(Out, line))
  BY <1>1, <1>5, <1>6, <1>9, <1>11
<1>14. arg <= Len(a) => a[arg] \in Word /\ Part(line, arg + 1) = Append(Part(line, arg), a[arg])
  BY <1>7, <1>11
<1> QED BY <1>12, <1>13, <1>14 DEF a

LEMMA ExecPart ==
  ASSUME Out \in [Names -> Seq(Word)],
         NEW line \in Byte, Op(line) = "exec", NEW arg \in 1..(Len(Args(line)) + 1)
  PROVE  /\ Part(line, arg) \in Seq(Word) /\ Part(line, 1) = <<>>
         /\ arg <= Len(Args(line)) =>
              /\ Args(line)[arg] \in Names
              /\ Part(line, arg + 1) = Part(line, arg) \o Out[Args(line)[arg]]
              /\ Begins(Part(line, arg) \o Out[Args(line)[arg]], LineOut(Out, line))
         /\ arg = Len(Args(line)) + 1 => Part(line, arg) = LineOut(Out, line)
         /\ Begins(Part(line, arg), LineOut(Out, line))
<1> DEFINE a == Args(line)
           q == Parts(Out, line)
           s == Sums(q)
<1>1. /\ q \in Seq(Seq(Word)) /\ Len(q) = Len(a) /\ Len(a) \in Nat
      /\ \A k \in 1..Len(a) : a[k] \in Names /\ q[k] = Out[a[k]]
  BY PartsAre, ArgsAre
<1>2. LineOut(Out, line) = FlattenSeq(q)
  BY DEF LineOut, Parts
<1>3. \A k : Part(line, k) = s[k - 1]
  BY DEF Part
<1>4. arg \in 1..(Len(a) + 1)
  OBVIOUS
<1> HIDE DEF a, q
<1>5. /\ s \in [0..Len(a) -> Seq(Word)] /\ s[0] = <<>>
      /\ \A i \in 1..Len(a) : s[i] = s[i - 1] \o q[i]
      /\ FlattenSeq(q) = s[Len(a)]
      /\ \A i \in 0..Len(a) : Begins(s[i], FlattenSeq(q))
  BY <1>1, SumsAre, SumsBegin
<1> HIDE DEF s
<1>6. arg - 1 \in 0..Len(a) /\ arg + 1 - 1 = arg /\ 1 - 1 = 0 /\ (arg = Len(a) + 1 => arg - 1 = Len(a))
  BY <1>1, <1>4
<1>7. ASSUME arg <= Len(a)
      PROVE  a[arg] \in Names /\ s[arg] = s[arg - 1] \o Out[a[arg]] /\ Begins(s[arg], FlattenSeq(q))
  <2>1. arg \in 1..Len(a) /\ arg \in 0..Len(a)
    BY <1>1, <1>4, <1>7
  <2> QED BY <1>1, <1>5, <2>1
<1>8. Part(line, 1) = s[0] /\ Part(line, arg) = s[arg - 1] /\ Part(line, arg + 1) = s[arg]
  <2>1. Part(line, 1) = s[1 - 1] /\ Part(line, arg + 1) = s[arg + 1 - 1]
    BY <1>3
  <2> QED BY <1>3, <1>6, <2>1
<1>9. arg = Len(a) + 1 => Part(line, arg) = LineOut(Out, line)
  BY <1>2, <1>5, <1>6, <1>8
<1>10. /\ Part(line, arg) \in Seq(Word) /\ Part(line, 1) = <<>>
       /\ Begins(Part(line, arg), LineOut(Out, line))
  BY <1>2, <1>5, <1>6, <1>8
<1>11. arg <= Len(a) =>
         /\ a[arg] \in Names
         /\ Part(line, arg + 1) = Part(line, arg) \o Out[a[arg]]
         /\ Begins(Part(line, arg) \o Out[a[arg]], LineOut(Out, line))
  BY <1>2, <1>7, <1>8
<1> QED BY <1>9, <1>10, <1>11 DEF a

LEMMA BeforeIs ==
  ASSUME Out \in [Names -> Seq(Word)], NEW text \in Seq(Byte), NEW at \in 1..(Len(text) + 1)
  PROVE  /\ Len(text) \in Nat
         /\ Before(text, at) \in Seq(Word) /\ Before(text, 1) = <<>>
         /\ at <= Len(text) =>
              /\ text[at] \in Byte /\ LineOut(Out, text[at]) \in Seq(Word)
              /\ Before(text, at + 1) = Before(text, at) \o LineOut(Out, text[at])
              /\ Begins(Before(text, at) \o LineOut(Out, text[at]), TextOut(text))
         /\ at = Len(text) + 1 => Before(text, at) = TextOut(text)
         /\ Begins(Before(text, at), TextOut(text)) /\ TextOut(text) \in Seq(Word)
<1> DEFINE q == LinesOut(Out, text)
           s == Sums(q)
           n == Len(text)
<1>1. /\ q \in Seq(Seq(Word)) /\ Len(q) = n /\ n \in Nat
      /\ \A k \in 1..n : text[k] \in Byte /\ q[k] = LineOut(Out, text[k])
  BY LinesOutAre, LenProperties
<1>2. \A k : Before(text, k) = s[k - 1]
  BY DEF Before
<1>3. TextOut(text) = FlattenSeq(q)
  BY DEF TextOut
<1>4. at \in 1..(n + 1)
  OBVIOUS
<1> HIDE DEF q, n
<1>5. /\ s \in [0..n -> Seq(Word)] /\ s[0] = <<>>
      /\ \A i \in 1..n : s[i] = s[i - 1] \o q[i]
      /\ FlattenSeq(q) = s[n]
      /\ \A i \in 0..n : Begins(s[i], FlattenSeq(q))
  BY <1>1, SumsAre, SumsBegin
<1> HIDE DEF s
<1>6. at - 1 \in 0..n /\ at + 1 - 1 = at /\ 1 - 1 = 0 /\ (at = n + 1 => at - 1 = n)
  BY <1>1, <1>4
<1>7. ASSUME at <= n
      PROVE  /\ text[at] \in Byte /\ LineOut(Out, text[at]) \in Seq(Word)
             /\ s[at] = s[at - 1] \o LineOut(Out, text[at]) /\ Begins(s[at], FlattenSeq(q))
  <2>1. at \in 1..n /\ at \in 0..n
    BY <1>1, <1>4, <1>7
  <2>2. text[at] \in Byte /\ q[at] = LineOut(Out, text[at])
    BY <1>1, <2>1
  <2> QED BY <1>5, <2>1, <2>2, LineOutIs
<1>8. FlattenSeq(q) \in Seq(Word)
  BY <1>1, FlattenTyped
<1>9. Before(text, 1) = s[0] /\ Before(text, at) = s[at - 1] /\ Before(text, at + 1) = s[at]
  <2>1. Before(text, 1) = s[1 - 1] /\ Before(text, at + 1) = s[at + 1 - 1]
    BY <1>2
  <2> QED BY <1>2, <1>6, <2>1
<1>10. at = n + 1 => Before(text, at) = TextOut(text)
  BY <1>3, <1>5, <1>6, <1>9
<1>11. /\ Before(text, at) \in Seq(Word) /\ Before(text, 1) = <<>>
       /\ Begins(Before(text, at), TextOut(text)) /\ TextOut(text) \in Seq(Word)
  BY <1>3, <1>5, <1>6, <1>8, <1>9
<1>12. at <= n =>
         /\ text[at] \in Byte /\ LineOut(Out, text[at]) \in Seq(Word)
         /\ Before(text, at + 1) = Before(text, at) \o LineOut(Out, text[at])
         /\ Begins(Before(text, at) \o LineOut(Out, text[at]), TextOut(text))
  BY <1>3, <1>7, <1>9
<1> QED BY <1>1, <1>10, <1>11, <1>12 DEF n

-----------------------------------------------------------------------------
(* What has been printed by the scripts that are open.                     *)

\* Scripts that do not change on the server and execute only such.
ScriptsStay(S) ==
  /\ S \subseteq Names /\ Autoexec \in S
  /\ \A n \in S : Len(Files[n]) <= 1
  /\ \A n \in S : Files[n] # <<>> =>
       \A i \in DOMAIN Files[n][1] :
         LET line == Files[n][1][i] IN
         Op(line) = "exec" => \A k \in DOMAIN Args(line) : Args(line)[k] \in S

\* The text is that of the script n.
Runs(S, text, n) == n \in S /\ Files[n] # <<>> /\ text = Files[n][1]

LineOf(frame) == frame.text[frame.at]
NameOf(frame) == Args(LineOf(frame))[frame.arg]

\* The frame is at an argument of an exec.
Executing(frame) ==
  /\ frame.at \in 1..Len(frame.text) /\ Op(LineOf(frame)) = "exec"
  /\ frame.arg \in 1..Len(Args(LineOf(frame)))

Printed(frame) == Before(frame.text, frame.at) \o Part(LineOf(frame), frame.arg)

\* p was printed before the innermost script began: by each script around it what
\* it prints before the argument that it is at.
Below(S, fs, p) ==
  \E pre \in [1..Len(fs) -> Seq(Word)] :
    /\ pre[1] = <<>> /\ p = pre[Len(fs)]
    /\ Runs(S, fs[1].text, Autoexec)
    /\ \A k \in 1..Len(fs) : Begins(pre[k] \o TextOut(fs[k].text), Output)
    /\ \A k \in 1..(Len(fs) - 1) :
         /\ Executing(fs[k]) /\ Runs(S, fs[k + 1].text, NameOf(fs[k]))
         /\ pre[k + 1] = pre[k] \o Printed(fs[k])

LEMMA RunsOut ==
  ASSUME NEW rank, NEW depth, NoCircle(rank, depth), NEW S, ScriptsStay(S),
         NEW text, NEW n, Runs(S, text, n)
  PROVE  TextOut(text) = Out[n] /\ n \in Names /\ text \in Seq(Byte)
<1>1. n \in Names /\ Files[n] # <<>> /\ text = Files[n][1]
  BY DEF Runs, ScriptsStay
<1>2. Out[n] = FlattenSeq(LinesOut(Out, Files[n][1]))
  <2>1. Out[n] = ScriptOut(Out, n)
    BY <1>1, OutIs
  <2>2. ScriptOut(Out, n) = FlattenSeq(LinesOut(Out, Files[n][1]))
    BY <1>1 DEF ScriptOut
  <2> QED BY <2>1, <2>2
<1> QED BY <1>1, <1>2, FirstIs DEF TextOut

LEMMA RunsExec ==
  ASSUME NEW S, ScriptsStay(S), NEW frame \in FrameType, NEW n, Runs(S, frame.text, n),
         Executing(frame)
  PROVE  NameOf(frame) \in S
<1>1. n \in S /\ Files[n] # <<>> /\ frame.text = Files[n][1] /\ n \in Names
  BY DEF Runs, ScriptsStay
<1>2. frame.at \in DOMAIN Files[n][1]
  BY <1>1, FirstIs DEF Executing
<1>3. /\ Op(Files[n][1][frame.at]) = "exec"
      /\ NameOf(frame) = Args(Files[n][1][frame.at])[frame.arg]
      /\ frame.arg \in 1..Len(Args(Files[n][1][frame.at]))
  BY <1>1 DEF Executing, LineOf, NameOf
<1>4. Files[n][1][frame.at] \in Byte
  BY <1>1, <1>2, FirstIs, ElementOfSeq
<1>5. frame.arg \in DOMAIN Args(Files[n][1][frame.at])
  BY <1>3, <1>4, ArgsAre
<1> QED BY <1>1, <1>2, <1>3, <1>5 DEF ScriptsStay

\* What a frame in the middle of an exec has printed, with what the script it
\* executes prints, and with all the line prints.
LEMMA ExecDone ==
  ASSUME Out \in [Names -> Seq(Word)], NEW frame \in FrameType, Executing(frame)
  PROVE  /\ Printed(frame) \in Seq(Word) /\ NameOf(frame) \in Names
         /\ Begins(Printed(frame) \o Out[NameOf(frame)], TextOut(frame.text))
<1> DEFINE b == Before(frame.text, frame.at)
           line == LineOf(frame)
           s == Part(line, frame.arg)
           t == Out[NameOf(frame)]
           l == LineOut(Out, line)
           all == TextOut(frame.text)
<1>1. frame.text \in Seq(Byte) /\ frame.at \in 1..Len(frame.text) /\ Len(frame.text) \in Nat
  BY LenProperties DEF FrameType, Executing
<1>2. frame.at \in 1..(Len(frame.text) + 1) /\ frame.at <= Len(frame.text)
  BY <1>1
<1>3. /\ b \in Seq(Word) /\ line \in Byte /\ l \in Seq(Word) /\ Begins(b \o l, all)
      /\ all \in Seq(Word)
  BY <1>1, <1>2, BeforeIs DEF LineOf
<1>4. Len(Args(line)) \in Nat /\ Op(line) = "exec" /\ frame.arg \in 1..Len(Args(line))
  BY <1>3, ArgsAre DEF Executing
<1>5. frame.arg \in 1..(Len(Args(line)) + 1) /\ frame.arg <= Len(Args(line))
  BY <1>4
<1>6. s \in Seq(Word) /\ NameOf(frame) \in Names /\ Begins(s \o t, l)
  BY <1>3, <1>4, <1>5, ExecPart DEF NameOf
<1>7. t \in Seq(Word)
  BY <1>6
<1>8. Printed(frame) = b \o s
  BY DEF Printed
<1> HIDE DEF b, line, s, t, l, all
<1>9. s \o t \in Seq(Word) /\ b \o (s \o t) \in Seq(Word) /\ b \o l \in Seq(Word)
      /\ b \o s \in Seq(Word) /\ (b \o s) \o t = b \o (s \o t)
  <2>1. s \o t \in Seq(Word) /\ b \o l \in Seq(Word) /\ b \o s \in Seq(Word)
    BY <1>3, <1>6, <1>7, Joined
  <2>2. (b \o s) \o t = b \o (s \o t)
    BY <1>3, <1>6, <1>7, Joined
  <2>3. b \o (s \o t) \in Seq(Word)
    BY <1>3, <2>1, Joined
  <2> QED BY <2>1, <2>2, <2>3
<1>10. Begins(b \o (s \o t), b \o l)
  BY <1>3, <1>6, <1>9, BeginsIs
<1>11. Begins(b \o (s \o t), all)
  BY <1>3, <1>9, <1>10, BeginsIs
<1>12. Begins((b \o s) \o t, all)
  BY <1>9, <1>11
<1> QED BY <1>6, <1>8, <1>9, <1>12 DEF t, all

LEMMA BelowStart ==
  ASSUME NEW rank, NEW depth, NoCircle(rank, depth), NEW S, ScriptsStay(S),
         NEW fs, Len(fs) = 1, Runs(S, fs[1].text, Autoexec)
  PROVE  Below(S, fs, <<>>)
<1> DEFINE pre == [k \in 1..1 |-> <<>>]
<1>1. pre \in [1..Len(fs) -> Seq(Word)] /\ pre[1] = <<>>
  BY EmptySeq
<1>2. TextOut(fs[1].text) = Output /\ Output \in Seq(Word)
  BY RunsOut, OutputIs, OutIs
<1>3. <<>> \o Output = Output /\ Begins(Output, Output)
  BY <1>2, Joined, BeginsIs
<1>4. \A k \in 1..Len(fs) : Begins(pre[k] \o TextOut(fs[k].text), Output)
  <2> SUFFICES ASSUME NEW k \in 1..Len(fs) PROVE Begins(pre[k] \o TextOut(fs[k].text), Output)
    OBVIOUS
  <2>1. k = 1
    OBVIOUS
  <2> QED BY <1>1, <1>2, <1>3, <2>1
<1>5. 1..(Len(fs) - 1) = {}
  OBVIOUS
<1> HIDE DEF pre
<1> QED BY <1>1, <1>4, <1>5 DEF Below

\* It does not matter where the innermost script is.
LEMMA BelowTop ==
  ASSUME NEW S, NEW fs, NEW gs, Len(fs) \in Nat \ {0}, Len(gs) = Len(fs),
         \A k \in 1..(Len(fs) - 1) : gs[k] = fs[k],
         gs[Len(fs)].text = fs[Len(fs)].text,
         NEW p, Below(S, fs, p)
  PROVE  Below(S, gs, p)
<1> DEFINE n == Len(fs)
<1>1. PICK pre \in [1..n -> Seq(Word)] :
    /\ pre[1] = <<>> /\ p = pre[n]
    /\ Runs(S, fs[1].text, Autoexec)
    /\ \A k \in 1..n : Begins(pre[k] \o TextOut(fs[k].text), Output)
    /\ \A k \in 1..(n - 1) :
         /\ Executing(fs[k]) /\ Runs(S, fs[k + 1].text, NameOf(fs[k]))
         /\ pre[k + 1] = pre[k] \o Printed(fs[k])
  BY DEF Below
<1>2. n \in Nat \ {0} /\ Len(gs) = n
  OBVIOUS
<1>3. \A k \in 1..(n - 1) : gs[k] = fs[k]
  OBVIOUS
<1>4. \A k \in 1..n : gs[k].text = fs[k].text
  <2> SUFFICES ASSUME NEW k \in 1..n PROVE gs[k].text = fs[k].text
    OBVIOUS
  <2>1. CASE k = n
    BY <2>1
  <2>2. CASE k # n
    <3> HIDE DEF n
    <3>1. k \in 1..(n - 1)
      BY <1>2, <2>2
    <3> QED BY <1>3, <3>1
  <2> QED BY <2>1, <2>2
<1> HIDE DEF n
<1>5. 1 \in 1..n /\ \A k \in 1..(n - 1) : k + 1 \in 1..n
  BY <1>2
<1>6. Runs(S, gs[1].text, Autoexec)
  BY <1>1, <1>4, <1>5
<1>7. \A k \in 1..n : Begins(pre[k] \o TextOut(gs[k].text), Output)
  BY <1>1, <1>4
<1>8. \A k \in 1..(n - 1) :
         /\ Executing(gs[k]) /\ Runs(S, gs[k + 1].text, NameOf(gs[k]))
         /\ pre[k + 1] = pre[k] \o Printed(gs[k])
  BY <1>1, <1>3, <1>4, <1>5
<1> QED BY <1>1, <1>2, <1>6, <1>7, <1>8 DEF Below

\* What is known of the innermost script.
LEMMA BelowIs ==
  ASSUME NEW rank, NEW depth, NoCircle(rank, depth), NEW S, ScriptsStay(S),
         NEW fs \in Seq(FrameType), fs # <<>>, NEW p, Below(S, fs, p)
  PROVE  /\ p \in Seq(Word) /\ Output \in Seq(Word)
         /\ Begins(p \o TextOut(Last(fs).text), Output)
         /\ \E n \in S : Runs(S, Last(fs).text, n)
         /\ Len(fs) = 1 => p = <<>> /\ Runs(S, Last(fs).text, Autoexec)
<1> DEFINE n == Len(fs)
<1>1. PICK pre \in [1..n -> Seq(Word)] :
    /\ pre[1] = <<>> /\ p = pre[n]
    /\ Runs(S, fs[1].text, Autoexec)
    /\ \A k \in 1..n : Begins(pre[k] \o TextOut(fs[k].text), Output)
    /\ \A k \in 1..(n - 1) :
         /\ Executing(fs[k]) /\ Runs(S, fs[k + 1].text, NameOf(fs[k]))
         /\ pre[k + 1] = pre[k] \o Printed(fs[k])
  BY DEF Below
<1>2. n \in Nat \ {0} /\ Last(fs) = fs[n]
  BY LastIs
<1> HIDE DEF n
<1>3. n \in 1..n
  BY <1>2
<1>4. p \in Seq(Word) /\ Begins(p \o TextOut(Last(fs).text), Output)
  BY <1>1, <1>2, <1>3
<1>5. \E m \in S : Runs(S, Last(fs).text, m)
  <2>1. CASE n = 1
    <3>1. Runs(S, Last(fs).text, Autoexec) /\ Autoexec \in S
      BY <1>1, <1>2, <2>1 DEF ScriptsStay
    <3> QED BY <3>1
  <2>2. CASE n # 1
    <3>1. n - 1 \in 1..(n - 1) /\ (n - 1) + 1 = n
      BY <1>2, <2>2
    <3>2. Runs(S, fs[(n - 1) + 1].text, NameOf(fs[n - 1]))
      BY <1>1, <3>1
    <3>3. Runs(S, Last(fs).text, NameOf(fs[n - 1]))
      BY <1>2, <3>1, <3>2
    <3> QED BY <3>3 DEF Runs
  <2> QED BY <2>1, <2>2
<1>6. n = 1 => p = <<>> /\ Runs(S, Last(fs).text, Autoexec)
  BY <1>1, <1>2
<1>7. Output \in Seq(Word)
  BY OutputIs, OutIs, NetBootAssumption
<1> QED BY <1>4, <1>5, <1>6, <1>7 DEF n

LEMMA BelowPush ==
  ASSUME NEW rank, NEW depth, NoCircle(rank, depth), NEW S, ScriptsStay(S),
         NEW fs \in Seq(FrameType), fs # <<>>, NEW f \in FrameType, NEW p, Below(S, fs, p),
         Executing(Last(fs)), Runs(S, f.text, NameOf(Last(fs)))
  PROVE  Below(S, Append(fs, f), p \o Printed(Last(fs)))
<1> DEFINE n == Len(fs)
           gs == Append(fs, f)
           d == Printed(Last(fs))
           all == TextOut(Last(fs).text)
           t == TextOut(f.text)
<1>1. PICK pre \in [1..n -> Seq(Word)] :
    /\ pre[1] = <<>> /\ p = pre[n]
    /\ Runs(S, fs[1].text, Autoexec)
    /\ \A k \in 1..n : Begins(pre[k] \o TextOut(fs[k].text), Output)
    /\ \A k \in 1..(n - 1) :
         /\ Executing(fs[k]) /\ Runs(S, fs[k + 1].text, NameOf(fs[k]))
         /\ pre[k + 1] = pre[k] \o Printed(fs[k])
  BY DEF Below
<1>2. n \in Nat \ {0} /\ Last(fs) = fs[n] /\ Last(fs) \in FrameType
  BY LastIs
<1>3. Len(gs) = n + 1 /\ gs[n + 1] = f /\ \A k \in 1..n : gs[k] = fs[k]
  BY AppendProperties
<1>4. Out \in [Names -> Seq(Word)]
  BY OutIs
<1>5. t = Out[NameOf(Last(fs))] /\ NameOf(Last(fs)) \in Names
  BY RunsOut
<1>6. d \in Seq(Word) /\ Begins(d \o Out[NameOf(Last(fs))], all)
  BY <1>2, <1>4, ExecDone
<1>7. t \in Seq(Word) /\ Begins(d \o t, all)
  BY <1>4, <1>5, <1>6
<1>8. all \in Seq(Word)
  <2>1. \E m \in S : Runs(S, Last(fs).text, m)
    BY BelowIs
  <2>2. PICK m \in S : Runs(S, Last(fs).text, m)
    BY <2>1
  <2>3. all = Out[m] /\ m \in Names
    BY <2>2, RunsOut
  <2> QED BY <1>4, <2>3
<1>9. p \in Seq(Word) /\ Output \in Seq(Word) /\ Begins(p \o all, Output)
  BY BelowIs
<1> HIDE DEF n, gs, d, all, t
<1>10. Begins((p \o d) \o t, Output) /\ p \o d \in Seq(Word)
  <2>1. d \o t \in Seq(Word) /\ p \o all \in Seq(Word) /\ p \o d \in Seq(Word)
    BY <1>6, <1>7, <1>8, <1>9, Joined
  <2>2. p \o (d \o t) \in Seq(Word) /\ (p \o d) \o t = p \o (d \o t)
    BY <1>6, <1>7, <1>9, <2>1, Joined
  <2>3. Begins(p \o (d \o t), p \o all)
    BY <1>7, <1>8, <1>9, <2>1, BeginsIs
  <2>4. Begins(p \o (d \o t), Output)
    BY <1>9, <2>1, <2>2, <2>3, BeginsIs
  <2> QED BY <2>1, <2>2, <2>4
<1> DEFINE qre == [k \in 1..(n + 1) |-> IF k = n + 1 THEN p \o d ELSE pre[k]]
<1>11. /\ qre \in [1..(n + 1) -> Seq(Word)] /\ qre[n + 1] = p \o d
       /\ \A k \in 1..n : qre[k] = pre[k]
  <2>1. \A k \in 1..(n + 1) : k = n + 1 \/ k \in 1..n
    BY <1>2
  <2>2. n + 1 \in 1..(n + 1) /\ \A k \in 1..n : k \in 1..(n + 1) /\ k # n + 1
    BY <1>2
  <2> QED BY <1>10, <2>1, <2>2
<1> HIDE DEF qre
<1>12. 1 \in 1..n /\ n \in 1..n /\ (n + 1) - 1 = n
  BY <1>2
<1>13. qre[1] = <<>> /\ Runs(S, gs[1].text, Autoexec)
  BY <1>1, <1>3, <1>11, <1>12
<1>14. ASSUME NEW k \in 1..(n + 1) PROVE Begins(qre[k] \o TextOut(gs[k].text), Output)
  <2>1. CASE k \in 1..n
    BY <1>1, <1>3, <1>11, <2>1
  <2>2. CASE k = n + 1
    BY <1>3, <1>10, <1>11, <2>2 DEF t
  <2> QED BY <1>2, <2>1, <2>2
<1>15. ASSUME NEW k \in 1..n
       PROVE  /\ Executing(gs[k]) /\ Runs(S, gs[k + 1].text, NameOf(gs[k]))
              /\ qre[k + 1] = qre[k] \o Printed(gs[k])
  <2>1. CASE k = n
    <3>1. gs[k] = Last(fs) /\ gs[k + 1] = f /\ qre[k + 1] = p \o d /\ qre[k] = p
      BY <1>1, <1>2, <1>3, <1>11, <1>12, <2>1
    <3> QED BY <3>1 DEF d
  <2>2. CASE k # n
    <3>1. k \in 1..(n - 1) /\ k + 1 \in 1..n
      BY <1>2, <2>2
    <3>2. gs[k] = fs[k] /\ gs[k + 1] = fs[k + 1] /\ qre[k + 1] = pre[k + 1] /\ qre[k] = pre[k]
      BY <1>3, <1>11, <3>1
    <3> QED BY <1>1, <3>1, <3>2
  <2> QED BY <2>1, <2>2
<1>16. Below(S, gs, p \o d)
  <2>1. PICK m \in Nat : m = n + 1 /\ m - 1 = n
    BY <1>2, <1>12
  <2>2. /\ Len(gs) = m /\ qre \in [1..m -> Seq(Word)] /\ p \o d = qre[m]
        /\ \A k \in 1..m : Begins(qre[k] \o TextOut(gs[k].text), Output)
        /\ \A k \in 1..(m - 1) :
             /\ Executing(gs[k]) /\ Runs(S, gs[k + 1].text, NameOf(gs[k]))
             /\ qre[k + 1] = qre[k] \o Printed(gs[k])
    BY <1>3, <1>11, <1>14, <1>15, <2>1
  <2> QED BY <1>13, <2>2 DEF Below
<1> QED BY <1>16 DEF gs, d

LEMMA BelowPop ==
  ASSUME NEW S, NEW fs \in Seq(FrameType), fs # <<>>, Front(fs) # <<>>, NEW q, Below(S, fs, q)
  PROVE  \E p \in Seq(Word) :
           /\ Below(S, Front(fs), p) /\ q = p \o Printed(Last(Front(fs)))
           /\ Executing(Last(Front(fs))) /\ Runs(S, Last(fs).text, NameOf(Last(Front(fs))))
<1> DEFINE n == Len(fs)
           gs == Front(fs)
<1>1. PICK pre \in [1..n -> Seq(Word)] :
    /\ pre[1] = <<>> /\ q = pre[n]
    /\ Runs(S, fs[1].text, Autoexec)
    /\ \A k \in 1..n : Begins(pre[k] \o TextOut(fs[k].text), Output)
    /\ \A k \in 1..(n - 1) :
         /\ Executing(fs[k]) /\ Runs(S, fs[k + 1].text, NameOf(fs[k]))
         /\ pre[k + 1] = pre[k] \o Printed(fs[k])
  BY DEF Below
<1>2. n \in Nat \ {0} /\ Last(fs) = fs[n]
  BY LastIs
<1>3. gs \in Seq(FrameType) /\ Len(gs) = n - 1 /\ \A k \in 1..(n - 1) : gs[k] = fs[k]
  BY FrontIs
<1>4. Len(gs) \in Nat \ {0} /\ Last(gs) = gs[Len(gs)]
  BY <1>3, LastIs
<1> HIDE DEF n, gs
<1>5. PICK m \in Nat \ {0} : m = n - 1 /\ n = m + 1
  BY <1>2, <1>3, <1>4
<1>6. /\ Last(gs) = fs[m] /\ m \in 1..(n - 1) /\ 1 \in 1..(n - 1) /\ m \in 1..n
      /\ \A k \in 1..m : k \in 1..n /\ k \in 1..(n - 1)
  BY <1>2, <1>3, <1>4, <1>5
<1> DEFINE ore == [k \in 1..m |-> pre[k]]
<1>7. ore \in [1..m -> Seq(Word)] /\ \A k \in 1..m : ore[k] = pre[k]
  BY <1>6
<1> HIDE DEF ore
<1>8. 1 \in 1..m /\ m \in 1..m /\ \A k \in 1..(m - 1) : k \in 1..m /\ k + 1 \in 1..m
  BY <1>5
<1>9. ore[1] = <<>> /\ Runs(S, gs[1].text, Autoexec)
  BY <1>1, <1>3, <1>6, <1>7, <1>8
<1>10. \A k \in 1..m : Begins(ore[k] \o TextOut(gs[k].text), Output)
  BY <1>1, <1>3, <1>6, <1>7
<1>11. ASSUME NEW k \in 1..(m - 1)
       PROVE  /\ Executing(gs[k]) /\ Runs(S, gs[k + 1].text, NameOf(gs[k]))
              /\ ore[k + 1] = ore[k] \o Printed(gs[k])
  <2>1. k \in 1..m /\ k + 1 \in 1..m /\ k \in 1..(n - 1) /\ k + 1 \in 1..(n - 1)
    BY <1>6, <1>8
  <2>2. gs[k] = fs[k] /\ gs[k + 1] = fs[k + 1] /\ ore[k] = pre[k] /\ ore[k + 1] = pre[k + 1]
    BY <1>3, <1>7, <2>1
  <2> QED BY <1>1, <2>1, <2>2
<1>12. Below(S, gs, pre[m])
  <2>1. Len(gs) = m /\ pre[m] = ore[m]
    BY <1>3, <1>5, <1>7, <1>8
  <2> QED BY <1>7, <1>9, <1>10, <1>11, <2>1 DEF Below
<1>13. pre[m] \in Seq(Word) /\ q = pre[m] \o Printed(Last(gs)) /\ Executing(Last(gs))
       /\ Runs(S, Last(fs).text, NameOf(Last(gs)))
  BY <1>1, <1>2, <1>5, <1>6
<1> QED BY <1>12, <1>13 DEF gs

-----------------------------------------------------------------------------
(* What has been printed where a script is at a line, and where it is at an*)
(* argument of one.                                                        *)

AtLines(S, fs, l) ==
  \E p \in Seq(Word) :
    Below(S, fs, p) /\ l = p \o Before(Last(fs).text, Last(fs).at)

InCommand(S, fs, l) ==
  \E p \in Seq(Word) : Below(S, fs, p) /\ l = p \o Printed(Last(fs))

\* The argument a command is at, if it has any left.
Counted(frame) ==
  Op(LineOf(frame)) \in {"exec", "disp"} =>
    frame.arg \in 1..(Len(Args(LineOf(frame))) + 1)

FrameIn(frame) == frame.at \in 1..Len(frame.text)

LEMMA FrameInIs ==
  ASSUME Out \in [Names -> Seq(Word)], NEW frame \in FrameType, FrameIn(frame)
  PROVE  /\ LineOf(frame) \in Byte /\ LineOut(Out, LineOf(frame)) \in Seq(Word)
         /\ frame.text \in Seq(Byte) /\ frame.at \in Nat /\ Len(frame.text) \in Nat
         /\ Before(frame.text, frame.at) \in Seq(Word)
         /\ Before(frame.text, frame.at + 1)
              = Before(frame.text, frame.at) \o LineOut(Out, LineOf(frame))
         /\ Begins(Before(frame.text, frame.at) \o LineOut(Out, LineOf(frame)), TextOut(frame.text))
         /\ TextOut(frame.text) \in Seq(Word)
<1>1. frame.text \in Seq(Byte) /\ frame.at \in 1..Len(frame.text) /\ Len(frame.text) \in Nat
  BY LenProperties DEF FrameType, FrameIn
<1>2. frame.at \in 1..(Len(frame.text) + 1) /\ frame.at <= Len(frame.text) /\ frame.at \in Nat
  BY <1>1
<1> QED BY <1>1, <1>2, BeforeIs DEF LineOf

LEMMA PartIs ==
  ASSUME Out \in [Names -> Seq(Word)], NEW frame \in FrameType, FrameIn(frame), Counted(frame)
  PROVE  /\ Part(LineOf(frame), frame.arg) \in Seq(Word)
         /\ Begins(Part(LineOf(frame), frame.arg), LineOut(Out, LineOf(frame)))
         /\ Part(LineOf(frame), 1) = <<>>
<1> DEFINE line == LineOf(frame)
<1>1. line \in Byte /\ LineOut(Out, line) \in Seq(Word)
  BY FrameInIs
<1>2. Op(line) \in {"exec", "disp"} => frame.arg \in 1..(Len(Args(line)) + 1)
  BY DEF Counted
<1> HIDE DEF line
<1>3. CASE Op(line) = "disp"
  BY <1>1, <1>2, <1>3, DispPart DEF line
<1>4. CASE Op(line) = "exec"
  BY <1>1, <1>2, <1>4, ExecPart DEF line
<1>5. CASE Op(line) \notin {"exec", "disp"}
  <2>1. \A k : Part(line, k) = <<>>
    BY <1>5 DEF Part
  <2>2. <<>> \in Seq(Word) /\ <<>> \o LineOut(Out, line) = LineOut(Out, line)
    BY <1>1, Joined
  <2>3. Begins(<<>>, LineOut(Out, line))
    BY <1>1, <2>2 DEF Begins
  <2> QED BY <2>1, <2>2, <2>3 DEF line
<1> QED BY <1>3, <1>4, <1>5

LEMMA LinesBegin ==
  ASSUME NEW rank, NEW depth, NoCircle(rank, depth), NEW S, ScriptsStay(S),
         NEW fs \in Seq(FrameType), fs # <<>>, NEW l, AtLines(S, fs, l),
         Last(fs).at \in 1..(Len(Last(fs).text) + 1)
  PROVE  l \in Seq(Word) /\ Begins(l, Output)
<1>1. PICK p \in Seq(Word) : Below(S, fs, p) /\ l = p \o Before(Last(fs).text, Last(fs).at)
  BY DEF AtLines
<1> DEFINE b == Before(Last(fs).text, Last(fs).at)
           t == TextOut(Last(fs).text)
<1>2. Last(fs).text \in Seq(Byte) /\ Out \in [Names -> Seq(Word)]
  <2>1. Last(fs) \in FrameType
    BY LastIs
  <2> QED BY <2>1, OutIs DEF FrameType
<1>3. b \in Seq(Word) /\ Begins(b, t) /\ t \in Seq(Word)
  BY <1>2, BeforeIs
<1>4. Output \in Seq(Word) /\ Begins(p \o t, Output)
  BY <1>1, BelowIs
<1>5. l = p \o b
  BY <1>1
<1> HIDE DEF b, t
<1>6. p \o b \in Seq(Word) /\ p \o t \in Seq(Word)
  BY <1>3, Joined
<1>7. Begins(p \o b, p \o t)
  BY <1>3, BeginsIs
<1>8. Begins(p \o b, Output)
  BY <1>4, <1>6, <1>7, BeginsIs
<1> QED BY <1>5, <1>6, <1>8

LEMMA CommandBegins ==
  ASSUME NEW rank, NEW depth, NoCircle(rank, depth), NEW S, ScriptsStay(S),
         NEW fs \in Seq(FrameType), fs # <<>>, NEW l, InCommand(S, fs, l),
         FrameIn(Last(fs)), Counted(Last(fs))
  PROVE  l \in Seq(Word) /\ Begins(l, Output)
<1>1. PICK p \in Seq(Word) : Below(S, fs, p) /\ l = p \o Printed(Last(fs))
  BY DEF InCommand
<1> DEFINE b == Before(Last(fs).text, Last(fs).at)
           a == Part(LineOf(Last(fs)), Last(fs).arg)
           o == LineOut(Out, LineOf(Last(fs)))
           t == TextOut(Last(fs).text)
<1>2. Last(fs) \in FrameType /\ Out \in [Names -> Seq(Word)]
  BY LastIs, OutIs
<1>3. b \in Seq(Word) /\ o \in Seq(Word) /\ Begins(b \o o, t) /\ t \in Seq(Word)
  BY <1>2, FrameInIs
<1>4. a \in Seq(Word) /\ Begins(a, o)
  BY <1>2, PartIs
<1>5. Output \in Seq(Word) /\ Begins(p \o t, Output)
  BY <1>1, BelowIs
<1>6. l = p \o (b \o a)
  BY <1>1 DEF Printed
<1> HIDE DEF a, b, o, t
<1>7. b \o a \in Seq(Word) /\ b \o o \in Seq(Word)
  BY <1>3, <1>4, Joined
<1>8. Begins(b \o a, b \o o)
  BY <1>3, <1>4, BeginsIs
<1>9. Begins(b \o a, t)
  BY <1>3, <1>7, <1>8, BeginsIs
<1>10. p \o (b \o a) \in Seq(Word) /\ p \o t \in Seq(Word)
  BY <1>3, <1>7, Joined
<1>11. Begins(p \o (b \o a), p \o t)
  BY <1>3, <1>7, <1>9, BeginsIs
<1>12. Begins(p \o (b \o a), Output)
  BY <1>5, <1>10, <1>11, BeginsIs
<1> QED BY <1>6, <1>10, <1>12

\* The innermost script moves.
LEMMA TopMoves ==
  ASSUME NEW S, NEW fs \in Seq(FrameType), fs # <<>>, NEW f \in FrameType,
         f.text = Last(fs).text, NEW p, Below(S, fs, p)
  PROVE  Below(S, SetTop(fs, f), p) /\ Last(SetTop(fs, f)) = f
<1> DEFINE gs == SetTop(fs, f)
<1>1. /\ Len(fs) \in Nat \ {0} /\ Last(fs) = fs[Len(fs)]
      /\ Len(gs) = Len(fs) /\ Last(gs) = f
      /\ \A k \in 1..Len(fs) : gs[k] = IF k = Len(fs) THEN f ELSE fs[k]
  BY LastIs, SetTopIs
<1> HIDE DEF gs
<1>2. gs[Len(fs)].text = fs[Len(fs)].text
  <2>1. Len(fs) \in 1..Len(fs)
    BY <1>1
  <2> QED BY <1>1, <2>1
<1>3. \A k \in 1..(Len(fs) - 1) : gs[k] = fs[k]
  <2>1. \A k \in 1..(Len(fs) - 1) : k \in 1..Len(fs) /\ k # Len(fs)
    BY <1>1
  <2> QED BY <1>1, <2>1
<1>4. Below(S, gs, p)
  BY <1>1, <1>2, <1>3, BelowTop
<1> QED BY <1>1, <1>4 DEF gs

LEMMA LineEnds ==
  ASSUME Out \in [Names -> Seq(Word)],
         NEW S, NEW fs \in Seq(FrameType), fs # <<>>, FrameIn(Last(fs)),
         NEW status \in Statuses, NEW p \in Seq(Word), Below(S, fs, p),
         NEW l, l = p \o (Before(Last(fs).text, Last(fs).at) \o LineOut(Out, LineOf(Last(fs))))
  PROVE  AtLines(S, SetTop(fs, NextLine(Last(fs), status)), l)
<1> DEFINE x == Last(fs)
           f == NextLine(x, status)
<1>1. x \in FrameType
  BY LastIs
<1> HIDE DEF x
<1>2. f \in FrameType /\ f.at = x.at + 1 /\ f.text = x.text
  BY <1>1, FrameMoves
<1> HIDE DEF f
<1>3. Before(x.text, x.at + 1) = Before(x.text, x.at) \o LineOut(Out, LineOf(x))
  BY <1>1, FrameInIs DEF x
<1>4. Below(S, SetTop(fs, f), p) /\ Last(SetTop(fs, f)) = f
  BY <1>2, TopMoves DEF x
<1>5. l = p \o Before(f.text, f.at)
  BY <1>2, <1>3 DEF x
<1>6. AtLines(S, SetTop(fs, f), l)
  BY <1>4, <1>5 DEF AtLines
<1> QED BY <1>6 DEF f, x

\* A blank line, or the end of a command that prints x now.
LEMMA BlankMoves ==
  ASSUME Out \in [Names -> Seq(Word)],
         NEW S, NEW fs \in Seq(FrameType), fs # <<>>, FrameIn(Last(fs)),
         NEW status \in Statuses, NEW l, AtLines(S, fs, l),
         LineOut(Out, LineOf(Last(fs))) = <<>>
  PROVE  AtLines(S, SetTop(fs, NextLine(Last(fs), status)), l)
<1>1. PICK p \in Seq(Word) : Below(S, fs, p) /\ l = p \o Before(Last(fs).text, Last(fs).at)
  BY DEF AtLines
<1>2. Last(fs) \in FrameType
  BY LastIs
<1> DEFINE b == Before(Last(fs).text, Last(fs).at)
<1>3. b \in Seq(Word)
  BY <1>2, FrameInIs
<1>4. b \o <<>> = b
  <2> HIDE DEF b
  <2> QED BY <1>3, Joined
<1>5. l = p \o (b \o LineOut(Out, LineOf(Last(fs))))
  BY <1>1, <1>4
<1> QED BY <1>1, <1>5, LineEnds

LEMMA CommandMoves ==
  ASSUME Out \in [Names -> Seq(Word)],
         NEW S, NEW fs \in Seq(FrameType), fs # <<>>, FrameIn(Last(fs)), Counted(Last(fs)),
         NEW status \in Statuses, NEW l, InCommand(S, fs, l), NEW x \in Seq(Word),
         Part(LineOf(Last(fs)), Last(fs).arg) \o x = LineOut(Out, LineOf(Last(fs)))
  PROVE  AtLines(S, SetTop(fs, NextLine(Last(fs), status)), l \o x)
<1>1. PICK p \in Seq(Word) : Below(S, fs, p) /\ l = p \o Printed(Last(fs))
  BY DEF InCommand
<1>2. Last(fs) \in FrameType
  BY LastIs
<1> DEFINE b == Before(Last(fs).text, Last(fs).at)
           a == Part(LineOf(Last(fs)), Last(fs).arg)
           o == LineOut(Out, LineOf(Last(fs)))
<1>3. b \in Seq(Word) /\ a \in Seq(Word)
  BY <1>2, FrameInIs, PartIs
<1>4. l = p \o (b \o a) /\ a \o x = o
  BY <1>1 DEF Printed
<1>5. l \o x = p \o (b \o o)
  <2> HIDE DEF b, a, o
  <2>1. PICK c \in Seq(Word), d \in Seq(Word) : c = b /\ d = a
    BY <1>3
  <2>2. l = p \o (c \o d)
    BY <1>4, <2>1
  <2>3. Cat(Cat(p, Cat(c, d)), x) = Cat(p, Cat(c, Cat(d, x)))
    BY JoinedAgain
  <2>4. l \o x = p \o (c \o (d \o x))
    BY <2>2, <2>3 DEF Cat
  <2> QED BY <1>4, <2>1, <2>4
<1> QED BY <1>1, <1>5, LineEnds

LEMMA FrameArg ==
  ASSUME NEW x \in FrameType, NEW n \in Nat \ {0}
  PROVE  LET f == [x EXCEPT !.arg = n]
         IN  /\ f \in FrameType /\ f.at = x.at /\ f.text = x.text /\ f.arg = n
             /\ f.status = x.status
<1>1. /\ x = [text |-> x.text, at |-> x.at, arg |-> x.arg, status |-> x.status]
      /\ x.text \in Seq(Byte) /\ x.at \in Nat \ {0} /\ x.status \in Statuses
  BY DEF FrameType
<1>2. [x EXCEPT !.arg = n] = [text |-> x.text, at |-> x.at, arg |-> n, status |-> x.status]
  BY <1>1
<1>3. [text |-> x.text, at |-> x.at, arg |-> n, status |-> x.status] \in FrameType
  BY <1>1 DEF FrameType
<1> QED BY <1>2, <1>3

\* A command begins.
LEMMA EnterMoves ==
  ASSUME Out \in [Names -> Seq(Word)],
         NEW S, NEW fs \in Seq(FrameType), fs # <<>>, FrameIn(Last(fs)),
         NEW l, AtLines(S, fs, l)
  PROVE  /\ InCommand(S, SetTop(fs, [Last(fs) EXCEPT !.arg = 1]), l)
         /\ Counted(Last(SetTop(fs, [Last(fs) EXCEPT !.arg = 1])))
<1>1. PICK p \in Seq(Word) : Below(S, fs, p) /\ l = p \o Before(Last(fs).text, Last(fs).at)
  BY DEF AtLines
<1> DEFINE x == Last(fs)
           f == [x EXCEPT !.arg = 1]
<1>2. x \in FrameType
  BY LastIs
<1> HIDE DEF x
<1>3. f \in FrameType /\ f.at = x.at /\ f.text = x.text /\ f.arg = 1
  <2>1. 1 \in Nat \ {0}
    OBVIOUS
  <2> QED BY <1>2, <2>1, FrameArg
<1> HIDE DEF f
<1>4. FrameIn(f) /\ LineOf(f) \in Byte /\ Before(f.text, f.at) \in Seq(Word)
  <2>1. FrameIn(f)
    BY <1>3 DEF FrameIn, x
  <2> QED BY <1>3, <2>1, FrameInIs
<1>5. Counted(f)
  <2>1. ASSUME Op(LineOf(f)) \in {"exec", "disp"} PROVE f.arg \in 1..(Len(Args(LineOf(f))) + 1)
    <3>1. Len(Args(LineOf(f))) \in Nat
      BY <1>4, <2>1, ArgsAre
    <3> QED BY <1>3, <3>1
  <2> QED BY <2>1 DEF Counted
<1>6. Part(LineOf(f), f.arg) = <<>>
  BY <1>3, <1>4, <1>5, PartIs
<1>7. Printed(f) = Before(f.text, f.at)
  <2> DEFINE b == Before(f.text, f.at)
  <2>1. b \o <<>> = b
    <3> HIDE DEF b
    <3>1. b \in Seq(Word)
      BY <1>4 DEF b
    <3> QED BY <3>1, Joined
  <2> QED BY <1>6, <2>1 DEF Printed
<1>8. Below(S, SetTop(fs, f), p) /\ Last(SetTop(fs, f)) = f
  BY <1>1, <1>3, TopMoves DEF x
<1>9. l = p \o Printed(f)
  BY <1>1, <1>3, <1>7 DEF x
<1>10. InCommand(S, SetTop(fs, f), l)
  BY <1>8, <1>9 DEF InCommand
<1> QED BY <1>5, <1>8, <1>10 DEF f, x

\* A command goes to its next argument, which printed x.
LEMMA ArgMoves ==
  ASSUME Out \in [Names -> Seq(Word)],
         NEW S, NEW fs \in Seq(FrameType), fs # <<>>, FrameIn(Last(fs)),
         Op(LineOf(Last(fs))) \in {"exec", "disp", "load"},
         Last(fs).arg \in 1..Len(Args(LineOf(Last(fs)))),
         NEW l, InCommand(S, fs, l), NEW x \in Seq(Word),
         Part(LineOf(Last(fs)), Last(fs).arg + 1) = Part(LineOf(Last(fs)), Last(fs).arg) \o x
  PROVE  /\ InCommand(S, NextArg(fs), l \o x)
         /\ NextArg(fs) # <<>> /\ Counted(Last(NextArg(fs)))
<1>1. PICK p \in Seq(Word) : Below(S, fs, p) /\ l = p \o Printed(Last(fs))
  BY DEF InCommand
<1> DEFINE y == Last(fs)
           f == [y EXCEPT !.arg = y.arg + 1]
<1>2. y \in FrameType
  BY LastIs
<1>3. NextArg(fs) = SetTop(fs, f)
  BY DEF NextArg
<1>4. FrameIn(y) /\ y.arg \in 1..Len(Args(LineOf(y))) /\ Op(LineOf(y)) \in {"exec", "disp", "load"}
      /\ Part(LineOf(y), y.arg + 1) = Part(LineOf(y), y.arg) \o x
  OBVIOUS
<1> HIDE DEF y
<1>5. y.arg + 1 \in Nat \ {0}
  <2>1. PICK n \in Nat \ {0} : n = y.arg
    BY <1>2 DEF FrameType
  <2>2. n + 1 \in Nat \ {0}
    OBVIOUS
  <2> QED BY <2>1, <2>2
<1>6. f \in FrameType /\ f.at = y.at /\ f.text = y.text /\ f.arg = y.arg + 1
  BY <1>2, <1>5, FrameArg
<1> HIDE DEF f
<1>7. LineOf(f) = LineOf(y) /\ LineOf(y) \in Byte
  BY <1>2, <1>4, <1>6, FrameInIs DEF LineOf
<1>8. Len(Args(LineOf(y))) \in Nat
  BY <1>4, <1>7, ArgsAre
<1>9. Counted(f) /\ Counted(y)
  <2>1. PICK n \in Nat : n = Len(Args(LineOf(y)))
    BY <1>8
  <2>2. y.arg \in 1..n
    BY <1>4, <2>1
  <2>3. y.arg \in 1..(n + 1) /\ y.arg + 1 \in 1..(n + 1)
    BY <2>2
  <2> QED BY <1>6, <1>7, <2>1, <2>3 DEF Counted
<1> DEFINE b == Before(y.text, y.at)
           a == Part(LineOf(y), y.arg)
<1>10. b \in Seq(Word) /\ a \in Seq(Word)
  BY <1>2, <1>4, <1>9, FrameInIs, PartIs
<1>11. l = p \o (b \o a) /\ Printed(f) = b \o (a \o x)
  BY <1>1, <1>4, <1>6, <1>7 DEF Printed, y
<1>12. l \o x = p \o Printed(f)
  <2> HIDE DEF b, a
  <2>1. PICK c \in Seq(Word), d \in Seq(Word) : c = b /\ d = a
    BY <1>10
  <2>2. l = p \o (c \o d)
    BY <1>11, <2>1
  <2>3. Cat(Cat(p, Cat(c, d)), x) = Cat(p, Cat(c, Cat(d, x)))
    BY JoinedAgain
  <2>4. l \o x = p \o (c \o (d \o x))
    BY <2>2, <2>3 DEF Cat
  <2> QED BY <1>11, <2>1, <2>4
<1>13. Below(S, SetTop(fs, f), p) /\ Last(SetTop(fs, f)) = f
  BY <1>1, <1>6, TopMoves DEF y
<1>14. SetTop(fs, f) # <<>>
  BY <1>6, SetTopIs
<1> QED BY <1>3, <1>9, <1>12, <1>13, <1>14 DEF InCommand

\* A script begins, from one that executes it or as the first.
LEMMA ScriptBegins ==
  ASSUME NEW rank, NEW depth, NoCircle(rank, depth), NEW S, ScriptsStay(S),
         NEW fs \in Seq(FrameType), NEW f \in FrameType, f.at = 1, NEW l,
         \/ fs # <<>> /\ InCommand(S, fs, l) /\ Executing(Last(fs)) /\ Runs(S, f.text, NameOf(Last(fs)))
         \/ fs = <<>> /\ l = <<>> /\ Runs(S, f.text, Autoexec)
  PROVE  AtLines(S, Append(fs, f), l)
<1> DEFINE gs == Append(fs, f)
<1>1. Len(gs) = Len(fs) + 1 /\ Len(fs) \in Nat /\ gs[Len(fs) + 1] = f
  BY AppendProperties, LenProperties
<1>2. Last(gs) = f
  BY <1>1 DEF Last
<1>3. Out \in [Names -> Seq(Word)] /\ f.text \in Seq(Byte)
  BY OutIs DEF FrameType
<1>4. Before(f.text, f.at) = <<>>
  <2>1. Len(f.text) \in Nat
    BY <1>3, LenProperties
  <2>2. 1 \in 1..(Len(f.text) + 1)
    BY <2>1
  <2> QED BY <1>3, <2>2, BeforeIs
<1>5. CASE fs # <<>> /\ InCommand(S, fs, l) /\ Executing(Last(fs)) /\ Runs(S, f.text, NameOf(Last(fs)))
  <2>1. PICK p \in Seq(Word) : Below(S, fs, p) /\ l = p \o Printed(Last(fs))
    BY <1>5 DEF InCommand
  <2>2. Below(S, gs, l)
    BY <1>5, <2>1, BelowPush
  <2>3. Printed(Last(fs)) \in Seq(Word)
    BY <1>3, <1>5, LastIs, ExecDone
  <2>4. l \in Seq(Word)
    <3> DEFINE d == Printed(Last(fs))
    <3> HIDE DEF d
    <3>1. d \in Seq(Word) /\ l = p \o d
      BY <2>1, <2>3 DEF d
    <3> QED BY <3>1, Joined
  <2>5. l = l \o <<>>
    BY <2>4, Joined
  <2> HIDE DEF gs
  <2>6. AtLines(S, gs, l)
    BY <1>2, <1>4, <2>2, <2>4, <2>5 DEF AtLines
  <2> QED BY <2>6 DEF gs
<1>6. CASE fs = <<>> /\ l = <<>> /\ Runs(S, f.text, Autoexec)
  <2>1. Len(gs) = 1 /\ gs[1] = f
    <3>1. Len(fs) = 0
      BY <1>6, EmptySeq
    <3> QED BY <1>1, <3>1
  <2>2. Below(S, gs, <<>>)
    BY <1>6, <2>1, BelowStart
  <2>3. <<>> \o <<>> = <<>> /\ <<>> \in Seq(Word)
    BY ConcatEmptySeq, EmptySeq
  <2> HIDE DEF gs
  <2>4. AtLines(S, gs, l)
    BY <1>2, <1>4, <1>6, <2>2, <2>3 DEF AtLines
  <2> QED BY <2>4 DEF gs
<1> QED BY <1>5, <1>6

\* A script has come to its end.
LEMMA ScriptEnds ==
  ASSUME NEW rank, NEW depth, NoCircle(rank, depth), NEW S, ScriptsStay(S),
         NEW fs \in Seq(FrameType), fs # <<>>, NEW l, AtLines(S, fs, l),
         Last(fs).at = Len(Last(fs).text) + 1
  PROVE  /\ Front(fs) = <<>> => l = Output
         /\ Front(fs) # <<>> =>
              /\ InCommand(S, NextArg(Front(fs)), l)
              /\ NextArg(Front(fs)) # <<>> /\ Counted(Last(NextArg(Front(fs))))
<1>1. PICK q \in Seq(Word) : Below(S, fs, q) /\ l = q \o Before(Last(fs).text, Last(fs).at)
  BY DEF AtLines
<1> DEFINE t == TextOut(Last(fs).text)
<1>2. Last(fs) \in FrameType /\ Out \in [Names -> Seq(Word)]
  BY LastIs, OutIs
<1>3. l = q \o t /\ t \in Seq(Word)
  <2>1. Last(fs).text \in Seq(Byte) /\ Len(Last(fs).text) \in Nat
    BY <1>2, LenProperties DEF FrameType
  <2>2. Last(fs).at \in 1..(Len(Last(fs).text) + 1)
    BY <2>1
  <2>3. Before(Last(fs).text, Last(fs).at) = t /\ t \in Seq(Word)
    BY <1>2, <2>1, <2>2, BeforeIs
  <2> QED BY <1>1, <2>3
<1>4. CASE Front(fs) = <<>>
  <2>1. Len(fs) = 1
    <3>1. Len(Front(fs)) = Len(fs) - 1 /\ Len(fs) \in Nat
      BY FrontIs, LenProperties
    <3>2. Len(Front(fs)) = 0
      BY <1>4, EmptySeq
    <3> QED BY <3>1, <3>2
  <2>2. q = <<>> /\ Runs(S, Last(fs).text, Autoexec)
    BY <1>1, <2>1, BelowIs
  <2>3. t = Output
    BY <2>2, RunsOut, OutputIs
  <2>4. <<>> \o t = t
    <3> HIDE DEF t
    <3> QED BY <1>3, Joined
  <2> QED BY <1>3, <1>4, <2>2, <2>3, <2>4
<1>5. CASE Front(fs) # <<>>
  <2> DEFINE gs == Front(fs)
             y == Last(gs)
             x == Out[NameOf(y)]
  <2>1. gs \in Seq(FrameType) /\ gs # <<>>
    BY <1>5, FrontIs
  <2>2. PICK p \in Seq(Word) :
           /\ Below(S, gs, p) /\ q = p \o Printed(y)
           /\ Executing(y) /\ Runs(S, Last(fs).text, NameOf(y))
    BY <1>1, <1>5, BelowPop
  <2>3. t = x
    BY <2>2, RunsOut
  <2> HIDE DEF gs
  <2>4. InCommand(S, gs, q)
    BY <2>2 DEF InCommand
  <2>5. y \in FrameType /\ FrameIn(y)
    BY <2>1, <2>2, LastIs DEF FrameIn, Executing
  <2>6. /\ Op(LineOf(y)) = "exec" /\ y.arg \in 1..Len(Args(LineOf(y)))
        /\ LineOf(y) \in Byte
    BY <1>2, <2>2, <2>5, FrameInIs DEF Executing
  <2>7. Part(LineOf(y), y.arg + 1) = Part(LineOf(y), y.arg) \o x
    <3>1. PICK n \in Nat : n = Len(Args(LineOf(y)))
      BY <2>6, ArgsAre
    <3>2. y.arg \in 1..(n + 1) /\ y.arg <= n
      BY <2>6, <3>1
    <3> QED BY <1>2, <2>6, <3>1, <3>2, ExecPart DEF NameOf
  <2>8. x \in Seq(Word)
    BY <1>3, <2>3
  <2> HIDE DEF x
  <2>9. /\ InCommand(S, NextArg(gs), q \o x)
        /\ NextArg(gs) # <<>> /\ Counted(Last(NextArg(gs)))
    BY <1>2, <2>1, <2>4, <2>5, <2>6, <2>7, <2>8, ArgMoves
  <2> QED BY <1>3, <1>5, <2>3, <2>9 DEF gs
<1> QED BY <1>4, <1>5

-----------------------------------------------------------------------------
(* The run.                                                                *)

Receiving == {"tftp_open", "tftp_read", "tftp_close", "downloaded"}

\* A script of S is, on the server, in a download and on the ram disk, the one
\* there is.
Steady(S) ==
  /\ \A n \in S : version[n] = Len(Files[n])
  /\ pc \in Receiving /\ name \in S => steady
  /\ \A i \in DOMAIN disk : disk[i].name \in S => disk[i].steady

\* The frame is at the argument n of a command that asks for it as why.
Asked(frame, why, n) ==
  /\ Op(LineOf(frame)) = why
  /\ frame.arg \in 1..Len(Args(LineOf(frame)))
  /\ n = NameOf(frame)

\* What has been printed is, wherever the program is, what the open scripts
\* print up to there.
OnTheWay(S) ==
  /\ pc \in {"line", "return"} /\ ~Stopping => AtLines(S, frames, log)
  /\ pc = "return" /\ ~Stopping => Last(frames).at = Len(Last(frames).text) + 1
  /\ pc = "command" => InCommand(S, frames, log) /\ Counted(Last(frames))
  /\ pc \in Fetching /\ frames # <<>> =>
       InCommand(S, frames, log) /\ Asked(Last(frames), fetching.why, name)
  /\ pc \in Fetching /\ frames = <<>> =>
       log = <<>> /\ name = Autoexec /\ fetching.why = "exec"
  /\ pc = "done" => log = Output

\* Where the program is in the middle of a script, or at the end of the first.
Going == {"line", "command", "done"} \cup Fetching

RunInv(S) ==
  /\ NetInv /\ Steady(S) /\ OnTheWay(S)
  /\ log \in Seq(Word)
  /\ pc \notin Going => Begins(log, Output)

LEMMA SteadyInit == ASSUME NEW S, ScriptsStay(S), Init PROVE Steady(S)
<1>1. \A n \in S : version[n] = Len(Files[n])
  <2> SUFFICES ASSUME NEW n \in S PROVE version[n] = Len(Files[n])
    OBVIOUS
  <2>1. n \in Names /\ Len(Files[n]) <= 1 /\ Files[n] \in Seq(Seq(Byte))
    BY TftpAssumption DEF ScriptsStay
  <2>2. Len(Files[n]) \in Nat /\ (Files[n] = <<>> <=> Len(Files[n]) = 0)
    BY <2>1, EmptySeq, LenProperties
  <2>3. version[n] = IF Files[n] = <<>> THEN 0 ELSE 1
    BY <2>1 DEF Init
  <2> QED BY <2>1, <2>2, <2>3
<1>2. steady /\ DOMAIN disk = {}
  <2>1. DOMAIN <<>> = {}
    OBVIOUS
  <2> QED BY <2>1 DEF Init
<1> QED BY <1>1, <1>2 DEF Steady

LEMMA HostStepIs ==
  ASSUME HostStep
  PROVE  version' = version /\ pc' \notin Receiving /\ (disk' = disk \/ Downloaded)
<1>1. CASE FetchFound
  BY <1>1 DEF FetchFound, Receiving, server, ramdisk
<1>2. CASE FetchMissing
  BY <1>2 DEF FetchMissing, OpenEntry, Start, Receiving, server, ramdisk
<1>3. CASE FetchFailed \/ DownloadFailed
  BY <1>3 DEF FetchFailed, DownloadFailed, GiveUp, EndCommand, Receiving, server, ramdisk
<1>4. CASE Downloaded
  BY <1>4 DEF Downloaded, CloseEntry, Receiving, server
<1>5. CASE BlankLine
  BY <1>5 DEF BlankLine, AtLine, tftpVars, Receiving, server, ramdisk
<1>6. CASE BeginCommand \/ EndOfScript
  BY <1>6 DEF BeginCommand, EndOfScript, Receiving, server, ramdisk
<1>7. CASE UnknownCommand \/ Echo \/ Rem \/ NoMoreFiles
  BY <1>7 DEF UnknownCommand, Echo, Rem, NoMoreFiles, EndCommand, Receiving, server, ramdisk
<1>8. CASE NextFile
  BY <1>8 DEF NextFile, BeginFetch, Receiving, server, ramdisk
<1>9. CASE NextLoad
  BY <1>9 DEF NextLoad, OpenEntry, Start, Receiving, server, ramdisk
<1>10. CASE Return
  BY <1>10 DEF Return, EndCommand, Receiving, server, ramdisk
<1> QED BY <1>1, <1>2, <1>3, <1>4, <1>5, <1>6, <1>7, <1>8, <1>9, <1>10 DEF HostStep

\* A script of S that is downloaded has not been changed meanwhile.
LEMMA SteadyDownloaded ==
  ASSUME NEW S, NetInv, Steady(S), Downloaded
  PROVE  \A i \in DOMAIN disk' : disk'[i].name \in S => disk'[i].steady
<1> DEFINE e == [name |-> entry, data |-> out, steady |-> steady]
<1>1. pc = "downloaded" /\ disk' = Append(disk, e) /\ entry = name
  BY DEF Downloaded, CloseEntry, NetInv, Left, InDownload
<1>2. disk \in Seq(EntryType) /\ Len(disk) \in Nat /\ DOMAIN disk = 1..Len(disk)
  BY LenProperties DEF NetInv, HostTypes
<1>3. e.name = name /\ e.steady = steady /\ e \in EntryType
  BY <1>1 DEF NetInv, HostTypes, TftpInv, TftpTypes, EntryType
<1> HIDE DEF e
<1>4. /\ DOMAIN disk' = 1..(Len(disk) + 1)
      /\ \A i \in 1..Len(disk) : disk'[i] = disk[i]
      /\ disk'[Len(disk) + 1] = e
  BY <1>1, <1>2, <1>3, AppendProperties, LenProperties
<1>5. name \in S => steady
  BY <1>1 DEF Steady, Receiving
<1> SUFFICES ASSUME NEW i \in DOMAIN disk', disk'[i].name \in S PROVE disk'[i].steady
  OBVIOUS
<1>6. CASE i \in DOMAIN disk
  BY <1>2, <1>4, <1>6 DEF Steady
<1>7. CASE i \notin DOMAIN disk
  BY <1>2, <1>3, <1>4, <1>5, <1>7
<1> QED BY <1>6, <1>7

LEMMA SteadyKeeps ==
  ASSUME NEW S, ScriptsStay(S), NetInv, Steady(S), [Next]_netVars
  PROVE  Steady(S)'
<1>1. CASE HostStep
  <2>1. version' = version /\ pc' \notin Receiving
    BY <1>1, HostStepIs
  <2>2. \A i \in DOMAIN disk' : disk'[i].name \in S => disk'[i].steady
    BY <1>1, HostStepIs, SteadyDownloaded DEF Steady
  <2> QED BY <2>1, <2>2 DEF Steady
<1>2. CASE DownloadStep /\ UNCHANGED <<ramdisk, host, log, failed>>
  <2>1. version' = version /\ disk' = disk /\ name' = name
    BY <1>2 DEF DownloadStep, GetFileSize, TftpOpen, ReadPacket, ReadRefused, AllRead, TftpClose,
         Refused, Goto, transfer, server, ramdisk
  <2>2. pc' \in Receiving => steady' = TRUE \/ (pc \in Receiving /\ steady' = steady)
    BY <1>2 DEF DownloadStep, GetFileSize, TftpOpen, ReadPacket, ReadRefused, AllRead, TftpClose,
         Refused, Goto, Receiving
  <2> QED BY <2>1, <2>2 DEF Steady
<1>3. ASSUME NEW n \in Names, Publish(n), UNCHANGED <<ramdisk, host, log, failed>>
      PROVE  Steady(S)'
  <2>1. /\ version[n] \in 1..(Len(Files[n]) - 1) /\ version' = [version EXCEPT ![n] = @ + 1]
        /\ steady' = (steady /\ n # name) /\ pc' = pc /\ name' = name /\ disk' = disk
    BY <1>3 DEF Publish, transfer, ramdisk
  <2>2. n \notin S
    <3>1. Len(Files[n]) \in Nat
      BY TftpAssumption, LenProperties
    <3> QED BY <2>1, <3>1 DEF Steady
  <2>3. \A m \in S : version'[m] = version[m]
    <3>1. DOMAIN version = Names /\ S \subseteq Names
      BY DEF NetInv, TftpInv, TftpTypes, ScriptsStay
    <3> QED BY <2>1, <2>2, <3>1
  <2> QED BY <2>1, <2>2, <2>3 DEF Steady
<1>4. CASE UNCHANGED netVars
  BY <1>4 DEF Steady, netVars, tftpVars, server, transfer, ramdisk
<1> QED BY <1>1, <1>2, <1>3, <1>4 DEF Next, ProgramStep

\* What the ram disk has under the name of a script of S is that script.
LEMMA ScriptFound ==
  ASSUME NEW S, ScriptsStay(S), NetInv, Steady(S), NEW n \in S, OnDisk(n)
  PROVE  Runs(S, Contents(n), n)
<1> DEFINE H == Hits(n)
           first == CHOOSE i \in H : \A j \in H : i <= j
<1>1. DOMAIN disk = 1..Len(disk) /\ Len(disk) \in Nat
  BY LenProperties DEF NetInv, HostTypes
<1>2. H \subseteq Nat /\ H # {} /\ H \subseteq DOMAIN disk /\ \A i \in H : disk[i].name = n
  BY <1>1 DEF Hits, OnDisk
<1> HIDE DEF H
<1>3. \E i \in H : \A j \in H : i <= j
  BY <1>2, LeastNat
<1>4. first \in H
  BY <1>3
<1> HIDE DEF first
<1>5. disk[first].name = n /\ disk[first].steady /\ first \in DOMAIN disk
  BY <1>2, <1>4 DEF Steady
<1>6. PICK v \in DOMAIN Files[n] : disk[first].data = Files[n][v]
  BY <1>5 DEF NetInv, RamDiskServed
<1>7. Files[n] \in Seq(Seq(Byte)) /\ Len(Files[n]) <= 1
  BY TftpAssumption DEF ScriptsStay
<1>8. v = 1 /\ Files[n] # <<>>
  <2>1. DOMAIN Files[n] = 1..Len(Files[n]) /\ Len(Files[n]) \in Nat
    BY <1>7, LenProperties
  <2>2. v = 1 /\ Len(Files[n]) # 0
    BY <1>6, <1>7, <2>1
  <2> QED BY <1>7, <2>2, EmptySeq
<1>9. Contents(n) = disk[first].data
  BY DEF Contents, first, H
<1> QED BY <1>6, <1>8, <1>9 DEF Runs

\* A command that is being executed, or that something is fetched for.
LEMMA CommandIs ==
  ASSUME NEW rank, NEW depth, NoCircle(rank, depth), NEW S, NetInv, OnTheWay(S),
         pc = "command" \/ (pc \in Fetching /\ frames # <<>>)
  PROVE  /\ frames \in Seq(FrameType) /\ frames # <<>> /\ Last(frames) \in FrameType
         /\ FrameIn(Last(frames)) /\ LineOf(Last(frames)) \in Byte
         /\ InCommand(S, frames, log) /\ Out \in [Names -> Seq(Word)]
<1>1. frames # <<>>
  BY DEF NetInv, Depth
<1>2. /\ frames \in Seq(FrameType) /\ Last(frames) \in FrameType
      /\ Last(frames) = frames[Len(frames)] /\ Len(frames) \in 1..Len(frames)
  BY <1>1, InnermostIs
<1>3. Within(Last(frames))
  BY <1>2, AllWithin DEF NetInv, Fetching
<1>4. FrameIn(Last(frames))
  BY <1>2, <1>3, LenProperties DEF FrameIn, Within, FrameType
<1>5. Out \in [Names -> Seq(Word)]
  BY OutIs
<1>6. InCommand(S, frames, log)
  BY <1>1 DEF OnTheWay
<1> QED BY <1>1, <1>2, <1>4, <1>5, <1>6, FrameInIs

LEMMA LineIs ==
  ASSUME NEW rank, NEW depth, NoCircle(rank, depth), NEW S, NetInv, OnTheWay(S), AtLine
  PROVE  /\ frames \in Seq(FrameType) /\ frames # <<>> /\ Last(frames) \in FrameType
         /\ FrameIn(Last(frames)) /\ LineOf(Last(frames)) = Line /\ Line \in Byte
         /\ Frame = Last(frames)
         /\ AtLines(S, frames, log) /\ Out \in [Names -> Seq(Word)]
<1>1. pc = "line" /\ ~AtEnd /\ frames # <<>>
  BY DEF NetInv, Depth, AtLine
<1>2. /\ frames \in Seq(FrameType) /\ Last(frames) \in FrameType /\ Frame = Last(frames)
      /\ Last(frames) = frames[Len(frames)] /\ Len(frames) \in 1..Len(frames)
  BY <1>1, InnermostIs
<1>3. Within(Last(frames))
  BY <1>1, <1>2, AllWithin DEF NetInv
<1>4. FrameIn(Last(frames))
  BY <1>2, <1>3, LenProperties DEF FrameIn, Within, FrameType
<1>5. Out \in [Names -> Seq(Word)]
  BY OutIs
<1>6. AtLines(S, frames, log)
  BY <1>1 DEF OnTheWay, Stopping
<1>7. LineOf(Last(frames)) = Line
  BY <1>2 DEF LineOf, Line
<1> QED BY <1>1, <1>2, <1>4, <1>5, <1>6, <1>7, FrameInIs

\* Steps of a download and of fetch on the way to one.
LEMMA OnAndOn ==
  ASSUME NEW S, OnTheWay(S), pc \in Fetching, pc' \in Fetching,
         UNCHANGED <<frames, name, log>>, fetching'.why = fetching.why
  PROVE  OnTheWay(S)'
<1>1. pc' \notin {"line", "return", "command", "done"}
  BY DEF Fetching
<1>2. frames # <<>> => InCommand(S, frames, log) /\ Asked(Last(frames), fetching.why, name)
  BY DEF OnTheWay
<1>3. frames = <<>> => log = <<>> /\ name = Autoexec /\ fetching.why = "exec"
  BY DEF OnTheWay
<1> QED BY <1>1, <1>2, <1>3 DEF OnTheWay

\* What comes to an end needs no more.
LEMMA Stops ==
  ASSUME NEW S, pc' = "aborted" \/ (pc' = "return" /\ Last(frames').status # Ok)
  PROVE  OnTheWay(S)'
<1>1. Stopping'
  BY DEF Stopping
<1>2. pc' \notin {"line", "command", "done"} /\ pc' \notin Fetching
  BY DEF Fetching
<1> QED BY <1>1, <1>2 DEF OnTheWay

\* The first line of a script, one of the next, or the end of the first script.
LEMMA ToLine ==
  ASSUME NEW S, pc' = "line", AtLines(S, frames', log')
  PROVE  OnTheWay(S)'
<1>1. pc' \notin {"return", "command", "done"} /\ pc' \notin Fetching
  BY DEF Fetching
<1> QED BY <1>1 DEF OnTheWay

LEMMA ToCommand ==
  ASSUME NEW S, pc' = "command", InCommand(S, frames', log'), Counted(Last(frames'))
  PROVE  OnTheWay(S)'
<1>1. pc' \notin {"line", "return", "done"} /\ pc' \notin Fetching
  BY DEF Fetching
<1> QED BY <1>1 DEF OnTheWay

LEMMA ToFetch ==
  ASSUME NEW S, pc' \in Fetching, frames' # <<>>, InCommand(S, frames', log'),
         Asked(Last(frames'), fetching'.why, name')
  PROVE  OnTheWay(S)'
<1>1. pc' \notin {"line", "return", "command", "done"}
  BY DEF Fetching
<1> QED BY <1>1 DEF OnTheWay

LEMMA FetchFoundRuns ==
  ASSUME NEW rank, NEW depth, NoCircle(rank, depth), NEW S, ScriptsStay(S), RunInv(S),
         FetchFound
  PROVE  OnTheWay(S)' /\ log' \in Seq(Word)
<1>1. /\ pc = "fetch" /\ OnDisk(name) /\ name \in Names /\ pc \in Fetching
      /\ NetInv /\ Steady(S) /\ OnTheWay(S) /\ log \in Seq(Word)
      /\ frames \in Seq(FrameType)
  BY DEF FetchFound, RunInv, NetInv, TftpInv, TftpTypes, HostTypes, Fetching
<1>2. CASE /\ fetching.why = "exec" /\ frames' = Append(frames, NewFrame(Contents(name)))
           /\ pc' = "line" /\ UNCHANGED log
  <2> DEFINE f == NewFrame(Contents(name))
  <2>1. f \in FrameType /\ f.at = 1 /\ f.text = Contents(name)
    <3>1. Contents(name) \in Seq(Byte)
      BY <1>1, ContentsIs DEF NetInv
    <3>2. 1 \in Nat \ {0}
      OBVIOUS
    <3> QED BY <3>1, <3>2 DEF NewFrame, FrameType, Statuses
  <2> HIDE DEF f
  <2>2. PICK g \in FrameType : g = f
    BY <2>1
  <2>3. ASSUME frames # <<>> PROVE AtLines(S, Append(frames, g), log)
    <3>1. InCommand(S, frames, log) /\ Asked(Last(frames), "exec", name)
      BY <1>1, <1>2, <2>3 DEF OnTheWay
    <3>2. FrameIn(Last(frames)) /\ Last(frames) \in FrameType
      BY <1>1, <2>3, CommandIs
    <3>3. Executing(Last(frames)) /\ name = NameOf(Last(frames))
      BY <3>1, <3>2 DEF Asked, Executing, FrameIn
    <3>4. name \in S
      <4>1. PICK p \in Seq(Word) : Below(S, frames, p)
        BY <3>1 DEF InCommand
      <4>2. PICK n \in S : Runs(S, Last(frames).text, n)
        BY <1>1, <2>3, <4>1, BelowIs
      <4> QED BY <3>2, <3>3, <4>2, RunsExec
    <3>5. Runs(S, g.text, NameOf(Last(frames))) /\ g.at = 1
      BY <1>1, <2>1, <2>2, <3>3, <3>4, ScriptFound
    <3> QED BY <1>1, <2>3, <3>1, <3>3, <3>5, ScriptBegins
  <2>4. ASSUME frames = <<>> PROVE AtLines(S, Append(frames, g), log)
    <3>1. log = <<>> /\ name = Autoexec
      BY <1>1, <2>4 DEF OnTheWay
    <3>2. name \in S
      BY <3>1 DEF ScriptsStay
    <3>3. Runs(S, g.text, Autoexec) /\ g.at = 1
      BY <1>1, <2>1, <2>2, <3>1, <3>2, ScriptFound
    <3> QED BY <1>1, <2>4, <3>1, <3>3, ScriptBegins
  <2>5. AtLines(S, frames', log')
    <3>1. frames' = Append(frames, g)
      BY <1>2, <2>2 DEF f
    <3> QED BY <1>2, <2>3, <2>4, <3>1
  <2> QED BY <1>1, <1>2, <2>5, ToLine
<1>3. CASE /\ fetching.why = "disp" /\ log' = Append(log, name)
           /\ frames' = NextArg(frames) /\ pc' = "command"
  <2>1. frames # <<>>
    BY <1>1, <1>3 DEF NetInv, Depth
  <2>2. InCommand(S, frames, log) /\ Asked(Last(frames), "disp", name)
    BY <1>1, <1>3, <2>1 DEF OnTheWay
  <2>3. /\ FrameIn(Last(frames)) /\ Out \in [Names -> Seq(Word)]
        /\ LineOf(Last(frames)) \in Byte
    BY <1>1, <2>1, CommandIs
  <2> DEFINE y == LineOf(Last(frames))
             k == Last(frames).arg
  <2>4. Op(y) = "disp" /\ k \in 1..Len(Args(y)) /\ name = Args(y)[k]
    BY <2>2 DEF Asked, NameOf
  <2> HIDE DEF y, k
  <2>5. Part(y, k) \in Seq(Word) /\ name \in Word /\ Part(y, k + 1) = Append(Part(y, k), name)
    <3>1. y \in Byte
      BY <2>3 DEF y
    <3>2. PICK n \in Nat : n = Len(Args(y))
      BY <2>4, <3>1, ArgsAre
    <3>3. k \in 1..(n + 1) /\ k <= n
      BY <2>4, <3>2
    <3> QED BY <2>4, <3>1, <3>2, <3>3, DispPart
  <2>6. Part(y, k + 1) = Part(y, k) \o <<name>>
    BY <2>5, AppendIsConcat
  <2>7. log' = log \o <<name>> /\ log' \in Seq(Word) /\ <<name>> \in Seq(Word)
    <3>1. Append(log, name) = log \o <<name>> /\ Append(log, name) \in Seq(Word)
      BY <1>1, <2>5, AppendIsConcat, AppendProperties
    <3>2. <<name>> \in Seq(Word)
      BY <2>5
    <3> QED BY <1>3, <3>1, <3>2
  <2>8. InCommand(S, NextArg(frames), log \o <<name>>) /\ Counted(Last(NextArg(frames)))
    <3>1. PICK x \in Seq(Word) : x = <<name>>
      BY <2>7
    <3>2. Part(y, k + 1) = Part(y, k) \o x
      BY <2>6, <3>1
    <3>3. /\ Op(LineOf(Last(frames))) \in {"exec", "disp", "load"}
          /\ Last(frames).arg \in 1..Len(Args(LineOf(Last(frames))))
          /\ Part(LineOf(Last(frames)), Last(frames).arg + 1)
               = Part(LineOf(Last(frames)), Last(frames).arg) \o x
      BY <2>4, <3>2 DEF y, k
    <3>4. InCommand(S, NextArg(frames), log \o x) /\ Counted(Last(NextArg(frames)))
      BY <1>1, <2>1, <2>2, <2>3, <3>3, ArgMoves
    <3> QED BY <3>1, <3>4
  <2>9. InCommand(S, frames', log') /\ Counted(Last(frames'))
    BY <1>3, <2>7, <2>8
  <2> QED BY <1>3, <2>7, <2>9, ToCommand
<1> QED BY <1>2, <1>3 DEF FetchFound

LEMMA GiveUpRuns ==
  ASSUME NEW rank, NEW depth, NoCircle(rank, depth), NEW S, ScriptsStay(S), RunInv(S),
         GiveUp, pc \in {"fetch", "download_failed"}
  PROVE  OnTheWay(S)' /\ log' \in Seq(Word)
<1>1. log' = log /\ log \in Seq(Word) /\ NetInv
  BY DEF GiveUp, RunInv
<1>2. CASE frames # <<>> /\ EndCommand(frames, Error)
  <2>1. frames \in Seq(FrameType) /\ \A i \in 1..Len(frames) : Within(frames[i])
    BY <1>1, AllWithin DEF NetInv, HostTypes
  <2>2. frames' = SetTop(frames, NextLine(Last(frames), Error)) /\ pc' = "return"
    BY <1>2 DEF EndCommand, Error, Ok
  <2>3. Last(frames').status = Error
    BY <1>2, <2>1, <2>2, NextLineIs DEF Statuses
  <2>4. OnTheWay(S)'
    BY <2>2, <2>3, Stops DEF Error, Ok
  <2> QED BY <1>1, <2>4
<1>3. CASE frames = <<>> /\ pc' = "aborted"
  BY <1>1, <1>3, Stops
<1> QED BY <1>2, <1>3 DEF GiveUp

LEMMA DownloadedRuns ==
  ASSUME NEW rank, NEW depth, NoCircle(rank, depth), NEW S, ScriptsStay(S), RunInv(S),
         Downloaded
  PROVE  OnTheWay(S)' /\ log' \in Seq(Word)
<1>1. /\ pc = "downloaded" /\ pc \in Fetching /\ NetInv /\ OnTheWay(S)
      /\ log \in Seq(Word) /\ UNCHANGED <<log, name>>
  BY DEF Downloaded, CloseEntry, RunInv, Fetching, transfer
<1>2. CASE fetching.why = "load" /\ frames' = NextArg(frames) /\ pc' = "command"
  <2>1. frames # <<>>
    BY <1>1, <1>2 DEF NetInv, Depth
  <2>2. InCommand(S, frames, log) /\ Asked(Last(frames), "load", name)
    BY <1>1, <1>2, <2>1 DEF OnTheWay
  <2>3. /\ FrameIn(Last(frames)) /\ Out \in [Names -> Seq(Word)]
        /\ frames \in Seq(FrameType)
    BY <1>1, <2>1, CommandIs
  <2>4. /\ Op(LineOf(Last(frames))) \in {"exec", "disp", "load"}
        /\ Last(frames).arg \in 1..Len(Args(LineOf(Last(frames))))
        /\ \A k : Part(LineOf(Last(frames)), k) = <<>>
    BY <2>2 DEF Asked, Part
  <2>5. PICK x \in Seq(Word) : x = <<>>
    BY EmptySeq
  <2>6. <<>> \o x = <<>> /\ log \o x = log
    BY <1>1, <2>5, ConcatEmptySeq
  <2>7. InCommand(S, NextArg(frames), log \o x) /\ Counted(Last(NextArg(frames)))
    <3>1. Part(LineOf(Last(frames)), Last(frames).arg + 1)
            = Part(LineOf(Last(frames)), Last(frames).arg) \o x
      BY <2>4, <2>6
    <3> QED BY <2>1, <2>2, <2>3, <2>4, <3>1, ArgMoves
  <2>8. InCommand(S, frames', log') /\ Counted(Last(frames'))
    BY <1>1, <1>2, <2>6, <2>7
  <2> QED BY <1>1, <1>2, <2>8, ToCommand
<1>3. CASE /\ fetching' = [fetching EXCEPT !.retry = @ + 1] /\ pc' = "fetch"
           /\ UNCHANGED frames
  <2>1. fetching'.why = fetching.why
    BY <1>1, <1>3 DEF NetInv, HostTypes
  <2>2. pc' \in Fetching
    BY <1>3 DEF Fetching
  <2>3. OnTheWay(S)'
    BY <1>1, <1>3, <2>1, <2>2, OnAndOn
  <2> QED BY <1>1, <2>3
<1> QED BY <1>2, <1>3 DEF Downloaded

LEMMA BlankLineRuns ==
  ASSUME NEW rank, NEW depth, NoCircle(rank, depth), NEW S, ScriptsStay(S), RunInv(S),
         BlankLine
  PROVE  OnTheWay(S)' /\ log' \in Seq(Word)
<1>1. /\ AtLine /\ Op(Line) = "blank" /\ pc' = pc /\ pc = "line" /\ log' = log
      /\ frames' = SetTop(frames, NextLine(Frame, Frame.status))
      /\ NetInv /\ OnTheWay(S) /\ log \in Seq(Word)
  BY DEF BlankLine, AtLine, RunInv, tftpVars
<1>2. /\ frames \in Seq(FrameType) /\ frames # <<>> /\ Last(frames) \in FrameType
      /\ FrameIn(Last(frames)) /\ LineOf(Last(frames)) = Line
      /\ Frame = Last(frames)
      /\ AtLines(S, frames, log) /\ Out \in [Names -> Seq(Word)]
  BY <1>1, LineIs
<1>3. PICK status \in Statuses : status = Last(frames).status
  BY <1>2 DEF FrameType
<1>4. LineOut(Out, LineOf(Last(frames))) = <<>>
  BY <1>1, <1>2 DEF LineOut
<1>5. AtLines(S, SetTop(frames, NextLine(Last(frames), status)), log)
  BY <1>2, <1>4, BlankMoves
<1>6. AtLines(S, frames', log')
  BY <1>1, <1>2, <1>3, <1>5
<1> QED BY <1>1, <1>6, ToLine

LEMMA BeginCommandRuns ==
  ASSUME NEW rank, NEW depth, NoCircle(rank, depth), NEW S, ScriptsStay(S), RunInv(S),
         BeginCommand
  PROVE  OnTheWay(S)' /\ log' \in Seq(Word)
<1>1. /\ AtLine /\ pc' = "command" /\ log' = log
      /\ frames' = SetTop(frames, [Frame EXCEPT !.arg = 1])
      /\ NetInv /\ OnTheWay(S) /\ log \in Seq(Word)
  BY DEF BeginCommand, RunInv
<1>2. /\ frames \in Seq(FrameType) /\ frames # <<>> /\ FrameIn(Last(frames))
      /\ Frame = Last(frames)
      /\ AtLines(S, frames, log) /\ Out \in [Names -> Seq(Word)]
  BY <1>1, LineIs
<1>3. /\ InCommand(S, SetTop(frames, [Last(frames) EXCEPT !.arg = 1]), log)
      /\ Counted(Last(SetTop(frames, [Last(frames) EXCEPT !.arg = 1])))
  BY <1>2, EnterMoves
<1>4. InCommand(S, frames', log') /\ Counted(Last(frames'))
  BY <1>1, <1>2, <1>3
<1> QED BY <1>1, <1>4, ToCommand

LEMMA UnknownCommandRuns ==
  ASSUME NEW rank, NEW depth, NoCircle(rank, depth), NEW S, ScriptsStay(S), RunInv(S),
         UnknownCommand
  PROVE  OnTheWay(S)' /\ log' \in Seq(Word)
<1>1. /\ AtLine /\ pc' = "return" /\ log' = log
      /\ frames' = SetTop(frames, NextLine(Last(frames), Nothing))
      /\ NetInv /\ OnTheWay(S) /\ log \in Seq(Word)
  BY DEF UnknownCommand, EndCommand, RunInv, Nothing, Ok
<1>2. /\ frames \in Seq(FrameType) /\ frames # <<>>
      /\ \A i \in 1..Len(frames) : Within(frames[i])
  BY <1>1, AllWithin DEF NetInv, HostTypes, Depth, AtLine
<1>3. Last(frames').status = Nothing
  BY <1>1, <1>2, NextLineIs DEF Statuses
<1>4. OnTheWay(S)'
  BY <1>1, <1>3, Stops DEF Nothing, Ok
<1> QED BY <1>1, <1>4

\* A command ends that has still x to print.
LEMMA CommandDone ==
  ASSUME NEW rank, NEW depth, NoCircle(rank, depth), NEW S, ScriptsStay(S), RunInv(S),
         pc = "command", EndCommand(frames, Ok), NEW x \in Seq(Word), log' = log \o x,
         Part(LineOf(Last(frames)), Last(frames).arg) \o x = LineOut(Out, LineOf(Last(frames)))
  PROVE  OnTheWay(S)' /\ log' \in Seq(Word)
<1>1. /\ pc' = "line" /\ frames' = SetTop(frames, NextLine(Last(frames), Ok))
      /\ NetInv /\ OnTheWay(S) /\ log \in Seq(Word)
      /\ InCommand(S, frames, log) /\ Counted(Last(frames))
  BY DEF EndCommand, RunInv, OnTheWay
<1>2. /\ frames \in Seq(FrameType) /\ frames # <<>> /\ FrameIn(Last(frames))
      /\ Out \in [Names -> Seq(Word)]
  BY <1>1, CommandIs
<1>3. AtLines(S, SetTop(frames, NextLine(Last(frames), Ok)), log \o x)
  BY <1>1, <1>2, CommandMoves DEF Statuses
<1>4. AtLines(S, frames', log')
  BY <1>1, <1>3
<1>5. log' \in Seq(Word)
  BY <1>1, Joined
<1> QED BY <1>1, <1>4, <1>5, ToLine

LEMMA AtCommandIs ==
  ASSUME NEW rank, NEW depth, NoCircle(rank, depth), NEW S, RunInv(S), NEW op, AtCommand(op)
  PROVE  /\ pc = "command" /\ Op(Line) = op /\ Line = LineOf(Last(frames)) /\ Line \in Byte
         /\ Last(frames) \in FrameType /\ Frame = Last(frames) /\ frames # <<>>
         /\ InCommand(S, frames, log) /\ Counted(Last(frames)) /\ log \in Seq(Word)
<1>1. NetInv /\ OnTheWay(S) /\ pc = "command" /\ Op(Line) = op /\ log \in Seq(Word)
  BY DEF RunInv, AtCommand
<1>2. Last(frames) \in FrameType /\ frames # <<>> /\ LineOf(Last(frames)) \in Byte
  BY <1>1, CommandIs
<1>3. Line = LineOf(Last(frames)) /\ Frame = Last(frames)
  BY DEF Line, Frame, LineOf
<1> QED BY <1>1, <1>2, <1>3 DEF OnTheWay

LEMMA EchoRuns ==
  ASSUME NEW rank, NEW depth, NoCircle(rank, depth), NEW S, ScriptsStay(S), RunInv(S),
         Echo
  PROVE  OnTheWay(S)' /\ log' \in Seq(Word)
<1>1. AtCommand("echo") /\ log' = log \o Args(Line) /\ EndCommand(frames, Ok)
  BY DEF Echo
<1>2. /\ pc = "command" /\ Op(Line) = "echo" /\ Line = LineOf(Last(frames)) /\ Line \in Byte
  BY <1>1, AtCommandIs
<1>3. PICK x \in Seq(Word) : x = Args(Line)
  BY <1>2, ArgsAre
<1>4. Part(LineOf(Last(frames)), Last(frames).arg) \o x = LineOut(Out, LineOf(Last(frames)))
  <2>1. Part(LineOf(Last(frames)), Last(frames).arg) = <<>>
    BY <1>2 DEF Part
  <2>2. LineOut(Out, LineOf(Last(frames))) = x
    BY <1>2, <1>3 DEF LineOut
  <2>3. <<>> \o x = x
    BY ConcatEmptySeq
  <2> QED BY <2>1, <2>2, <2>3
<1>5. log' = log \o x
  BY <1>1, <1>3
<1> QED BY <1>1, <1>2, <1>4, <1>5, CommandDone

\* A command ends that has printed what it prints.
LEMMA CommandOver ==
  ASSUME NEW rank, NEW depth, NoCircle(rank, depth), NEW S, ScriptsStay(S), RunInv(S),
         pc = "command", EndCommand(frames, Ok), log' = log,
         Part(LineOf(Last(frames)), Last(frames).arg) = LineOut(Out, LineOf(Last(frames))),
         Part(LineOf(Last(frames)), Last(frames).arg) \in Seq(Word)
  PROVE  OnTheWay(S)' /\ log' \in Seq(Word)
<1>1. PICK x \in Seq(Word) : x = <<>>
  BY EmptySeq
<1>2. log \in Seq(Word)
  BY DEF RunInv
<1>3. log \o x = log
  BY <1>1, <1>2, ConcatEmptySeq
<1>4. PICK a \in Seq(Word) : a = Part(LineOf(Last(frames)), Last(frames).arg)
  OBVIOUS
<1>5. a \o x = a
  BY <1>1, ConcatEmptySeq
<1>6. Part(LineOf(Last(frames)), Last(frames).arg) \o x = LineOut(Out, LineOf(Last(frames)))
  BY <1>4, <1>5
<1>7. log' = log \o x
  BY <1>3
<1> QED BY <1>6, <1>7, CommandDone

LEMMA RemRuns ==
  ASSUME NEW rank, NEW depth, NoCircle(rank, depth), NEW S, ScriptsStay(S), RunInv(S),
         Rem
  PROVE  OnTheWay(S)' /\ log' \in Seq(Word)
<1>1. AtCommand("rem") /\ log' = log /\ EndCommand(frames, Ok)
  BY DEF Rem
<1>2. pc = "command" /\ Op(Line) = "rem" /\ Line = LineOf(Last(frames))
  BY <1>1, AtCommandIs
<1>3. Part(LineOf(Last(frames)), Last(frames).arg) = <<>> /\ LineOut(Out, LineOf(Last(frames))) = <<>>
  BY <1>2 DEF Part, LineOut
<1> QED BY <1>1, <1>2, <1>3, EmptySeq, CommandOver

LEMMA NoMoreFilesRuns ==
  ASSUME NEW rank, NEW depth, NoCircle(rank, depth), NEW S, ScriptsStay(S), RunInv(S),
         NoMoreFiles
  PROVE  OnTheWay(S)' /\ log' \in Seq(Word)
<1>1. PICK op \in {"exec", "disp", "load"} : AtCommand(op)
  BY DEF NoMoreFiles
<1>2. ~HasArg /\ log' = log /\ EndCommand(frames, Ok)
  BY DEF NoMoreFiles
<1>3. /\ pc = "command" /\ Op(Line) = op /\ Line = LineOf(Last(frames)) /\ Line \in Byte
      /\ Last(frames) \in FrameType /\ Frame = Last(frames) /\ Counted(Last(frames))
  BY <1>1, AtCommandIs
<1> DEFINE y == LineOf(Last(frames))
           k == Last(frames).arg
<1>4. y \in Byte /\ Op(y) = op /\ ~(k <= Len(Args(y))) /\ k \in Nat
  BY <1>2, <1>3 DEF HasArg, FrameType
<1>5. op \in {"exec", "disp"} => k \in 1..(Len(Args(y)) + 1)
  BY <1>3 DEF Counted
<1> HIDE DEF y, k
<1>6. PICK n \in Nat : n = Len(Args(y))
  BY <1>4, ArgsAre
<1>7. Out \in [Names -> Seq(Word)]
  BY OutIs
<1>8. Part(y, k) = LineOut(Out, y) /\ Part(y, k) \in Seq(Word)
  <2>1. CASE op = "load"
    <3>1. Part(y, k) = <<>> /\ LineOut(Out, y) = <<>>
      BY <1>4, <2>1 DEF Part, LineOut
    <3> QED BY <3>1, EmptySeq
  <2>2. CASE op \in {"exec", "disp"}
    <3>1. k \in 1..(n + 1) /\ k = n + 1
      BY <1>4, <1>5, <1>6, <2>2
    <3>2. CASE op = "exec"
      BY <1>4, <1>6, <1>7, <3>1, <3>2, ExecPart
    <3>3. CASE op = "disp"
      BY <1>4, <1>6, <3>1, <3>3, DispPart
    <3> QED BY <2>2, <3>2, <3>3
  <2> QED BY <2>1, <2>2
<1> QED BY <1>2, <1>3, <1>8, CommandOver DEF y, k

\* A command asks for its next argument.
LEMMA AskRuns ==
  ASSUME NEW rank, NEW depth, NoCircle(rank, depth), NEW S, ScriptsStay(S), RunInv(S),
         NEW op \in {"exec", "disp", "load"}, AtCommand(op), HasArg,
         pc' \in Fetching, name' = Arg, fetching'.why = op, UNCHANGED <<frames, log>>
  PROVE  OnTheWay(S)' /\ log' \in Seq(Word)
<1>1. /\ Op(Line) = op /\ Line = LineOf(Last(frames)) /\ Line \in Byte
      /\ Last(frames) \in FrameType /\ Frame = Last(frames) /\ frames # <<>>
      /\ InCommand(S, frames, log) /\ log \in Seq(Word)
  BY AtCommandIs
<1> DEFINE y == Last(frames)
<1>2. y.arg \in 1..Len(Args(LineOf(y)))
  <2>1. PICK n \in Nat : n = Len(Args(LineOf(y)))
    BY <1>1, ArgsAre
  <2>2. y.arg \in Nat \ {0} /\ y.arg <= n
    BY <1>1, <2>1 DEF FrameType, HasArg
  <2> QED BY <2>1, <2>2
<1>3. name' = NameOf(y)
  BY <1>1 DEF Arg, NameOf
<1>4. Asked(y, fetching'.why, name')
  BY <1>1, <1>2, <1>3 DEF Asked
<1>5. frames' # <<>> /\ InCommand(S, frames', log') /\ Asked(Last(frames'), fetching'.why, name')
  BY <1>1, <1>4
<1> HIDE DEF y
<1> QED BY <1>1, <1>5, ToFetch

LEMMA NextFileRuns ==
  ASSUME NEW rank, NEW depth, NoCircle(rank, depth), NEW S, ScriptsStay(S), RunInv(S),
         NextFile
  PROVE  OnTheWay(S)' /\ log' \in Seq(Word)
<1>1. PICK op \in {"exec", "disp"} : AtCommand(op) /\ HasArg /\ BeginFetch(op, Arg)
  BY DEF NextFile
<1>2. /\ pc' = "fetch" /\ name' = Arg /\ fetching' = [why |-> op, retry |-> 0]
      /\ UNCHANGED <<frames, log>>
  BY <1>1 DEF BeginFetch
<1>3. pc' \in Fetching /\ fetching'.why = op
  BY <1>2 DEF Fetching
<1> QED BY <1>1, <1>2, <1>3, AskRuns

LEMMA NextLoadRuns ==
  ASSUME NEW rank, NEW depth, NoCircle(rank, depth), NEW S, ScriptsStay(S), RunInv(S),
         NextLoad
  PROVE  OnTheWay(S)' /\ log' \in Seq(Word)
<1>1. /\ AtCommand("load") /\ HasArg /\ pc' = "get_fsize" /\ name' = Arg
      /\ fetching' = [why |-> "load", retry |-> 0] /\ UNCHANGED <<frames, log>>
  BY DEF NextLoad, OpenEntry, Start
<1>2. pc' \in Fetching /\ fetching'.why = "load"
  BY <1>1 DEF Fetching
<1> QED BY <1>1, <1>2, AskRuns

LEMMA FetchMissingRuns ==
  ASSUME NEW rank, NEW depth, NoCircle(rank, depth), NEW S, ScriptsStay(S), RunInv(S),
         FetchMissing
  PROVE  OnTheWay(S)' /\ log' \in Seq(Word)
<1>1. /\ pc = "fetch" /\ pc' = "get_fsize" /\ UNCHANGED <<name, frames, fetching, log>>
      /\ OnTheWay(S) /\ log \in Seq(Word)
  BY DEF FetchMissing, OpenEntry, Start, host, RunInv
<1>2. pc \in Fetching /\ pc' \in Fetching
  BY <1>1 DEF Fetching
<1> QED BY <1>1, <1>2, OnAndOn

LEMMA DownloadStepRuns ==
  ASSUME NEW rank, NEW depth, NoCircle(rank, depth), NEW S, ScriptsStay(S), RunInv(S),
         DownloadStep, UNCHANGED <<ramdisk, host, log, failed>>
  PROVE  OnTheWay(S)' /\ log' \in Seq(Word)
<1>1. /\ pc \in {"get_fsize", "tftp_open", "tftp_read", "tftp_close"}
      /\ pc' \in {"get_fsize", "tftp_open", "tftp_read", "tftp_close", "downloaded", "download_failed"}
      /\ UNCHANGED name
  BY DEF DownloadStep, GetFileSize, TftpOpen, ReadPacket, ReadRefused, AllRead, TftpClose,
         Refused, Goto, transfer
<1>2. UNCHANGED <<frames, fetching, log>> /\ OnTheWay(S) /\ log \in Seq(Word)
  BY DEF host, RunInv
<1>3. pc \in Fetching /\ pc' \in Fetching
  BY <1>1 DEF Fetching
<1> QED BY <1>1, <1>2, <1>3, OnAndOn

LEMMA EndOfScriptRuns ==
  ASSUME NEW rank, NEW depth, NoCircle(rank, depth), NEW S, ScriptsStay(S), RunInv(S),
         EndOfScript
  PROVE  OnTheWay(S)' /\ log' \in Seq(Word)
<1>1. /\ pc = "line" /\ AtEnd /\ pc' = "return" /\ UNCHANGED <<frames, log>>
      /\ NetInv /\ OnTheWay(S) /\ log \in Seq(Word)
  BY DEF EndOfScript, RunInv, host
<1>2. AtLines(S, frames, log)
  BY <1>1 DEF OnTheWay, Stopping
<1>3. /\ Last(frames) \in FrameType /\ Frame = Last(frames) /\ frames \in Seq(FrameType)
      /\ Last(frames) = frames[Len(frames)] /\ Len(frames) \in 1..Len(frames)
  BY <1>1, InnermostIs DEF NetInv, Depth
<1>4. Last(frames).at = Len(Last(frames).text) + 1
  <2> DEFINE y == Last(frames)
  <2>1. y.at \in Nat /\ Len(y.text) \in Nat
    BY <1>3, LenProperties DEF FrameType
  <2>2. y.at > Len(y.text)
    BY <1>1, <1>3 DEF AtEnd
  <2>3. y.at <= Len(y.text) + 1
    BY <1>1, <1>3, <2>1 DEF NetInv, InText, Within
  <2> HIDE DEF y
  <2>4. y.at = Len(y.text) + 1
    BY <2>1, <2>2, <2>3
  <2> QED BY <2>4 DEF y
<1>5. AtLines(S, frames', log') /\ Last(frames').at = Len(Last(frames').text) + 1
  BY <1>1, <1>2, <1>4
<1>6. pc' \notin {"command", "done"} /\ pc' \notin Fetching
  BY <1>1 DEF Fetching
<1> QED BY <1>1, <1>5, <1>6 DEF OnTheWay

LEMMA ReturnRuns ==
  ASSUME NEW rank, NEW depth, NoCircle(rank, depth), NEW S, ScriptsStay(S), RunInv(S),
         Return
  PROVE  OnTheWay(S)' /\ log' \in Seq(Word)
<1> DEFINE outer == Front(frames)
           ok    == Frame.status = Ok
<1>1. /\ pc = "return" /\ log' = log /\ NetInv /\ OnTheWay(S) /\ log \in Seq(Word)
      /\ frames # <<>> /\ frames \in Seq(FrameType)
  BY DEF Return, RunInv, NetInv, HostTypes, Depth
<1>2. ASSUME ok
      PROVE  /\ outer = <<>> => log = Output
             /\ outer # <<>> => InCommand(S, NextArg(outer), log) /\ Counted(Last(NextArg(outer)))
  <2>1. ~Stopping
    BY <1>1, <1>2 DEF Stopping, Frame
  <2>2. AtLines(S, frames, log) /\ Last(frames).at = Len(Last(frames).text) + 1
    BY <1>1, <2>1 DEF OnTheWay
  <2> QED BY <1>1, <2>2, ScriptEnds
<1>3. CASE outer # <<>> /\ ok /\ frames' = NextArg(outer) /\ pc' = "command"
  <2>1. InCommand(S, frames', log') /\ Counted(Last(frames'))
    BY <1>1, <1>2, <1>3
  <2> QED BY <1>1, <1>3, <2>1, ToCommand
<1>4. CASE outer # <<>> /\ ~ok /\ EndCommand(outer, Error)
  <2>1. outer \in Seq(FrameType) /\ \A i \in 1..Len(outer) : Within(outer[i])
    BY <1>1, FrontWithin DEF NetInv
  <2>2. frames' = SetTop(outer, NextLine(Last(outer), Error)) /\ pc' = "return"
    BY <1>4 DEF EndCommand, Error, Ok
  <2> HIDE DEF outer
  <2>3. Last(frames').status = Error
    BY <1>4, <2>1, <2>2, NextLineIs DEF Statuses
  <2>4. OnTheWay(S)'
    BY <2>2, <2>3, Stops DEF Error, Ok
  <2> QED BY <1>1, <2>4
<1>5. CASE outer = <<>> /\ pc' = IF ok THEN "done" ELSE "aborted"
  <2>1. CASE ok
    <3>1. pc' = "done" /\ log' = Output
      BY <1>1, <1>2, <1>5, <2>1
    <3>2. OnTheWay(S)'
      BY <3>1 DEF OnTheWay, Fetching
    <3> QED BY <1>1, <3>2
  <2>2. CASE ~ok
    <3>1. pc' = "aborted"
      BY <1>5, <2>2
    <3> QED BY <1>1, <3>1, Stops
  <2> QED BY <2>1, <2>2
<1> QED BY <1>3, <1>4, <1>5 DEF Return

LEMMA WaySame ==
  ASSUME NEW S, RunInv(S), UNCHANGED <<pc, frames, fetching, name, log>>
  PROVE  OnTheWay(S)' /\ log' \in Seq(Word)
BY DEF RunInv, OnTheWay, Stopping

\* What has been printed is the beginning of the output.
LEMMA WayBegins ==
  ASSUME NEW rank, NEW depth, NoCircle(rank, depth), NEW S, ScriptsStay(S), NetInv, OnTheWay(S),
         pc \in Going
  PROVE  Begins(log, Output)
<1>1. Output \in Seq(Word)
  BY OutputIs, OutIs, NetBootAssumption
<1>2. CASE pc = "done"
  BY <1>1, <1>2, BeginsIs DEF OnTheWay
<1>3. CASE pc = "line"
  <2>1. AtLines(S, frames, log) /\ frames # <<>>
    BY <1>3 DEF OnTheWay, Stopping, NetInv, Depth
  <2>2. /\ Last(frames) \in FrameType /\ frames \in Seq(FrameType)
        /\ Last(frames) = frames[Len(frames)] /\ Len(frames) \in 1..Len(frames)
    BY <2>1, InnermostIs
  <2>3. Last(frames).at \in 1..(Len(Last(frames).text) + 1)
    <3> DEFINE y == Last(frames)
    <3>1. y.at \in Nat \ {0} /\ Len(y.text) \in Nat
      BY <2>2, LenProperties DEF FrameType
    <3>2. y.at <= Len(y.text) + 1
      BY <2>2, <3>1 DEF NetInv, InText, Within
    <3> HIDE DEF y
    <3>3. y.at \in 1..(Len(y.text) + 1)
      BY <3>1, <3>2
    <3> QED BY <3>3 DEF y
  <2> QED BY <2>1, <2>2, <2>3, LinesBegin
<1>4. CASE pc = "command"
  <2>1. InCommand(S, frames, log) /\ Counted(Last(frames))
    BY <1>4 DEF OnTheWay
  <2>2. frames \in Seq(FrameType) /\ frames # <<>> /\ FrameIn(Last(frames))
    BY <1>4, CommandIs
  <2> QED BY <2>1, <2>2, CommandBegins
<1>5. CASE pc \in Fetching /\ frames # <<>>
  <2>1. InCommand(S, frames, log) /\ Asked(Last(frames), fetching.why, name)
    BY <1>5 DEF OnTheWay
  <2>2. /\ frames \in Seq(FrameType) /\ frames # <<>> /\ FrameIn(Last(frames))
        /\ LineOf(Last(frames)) \in Byte
    BY <1>5, CommandIs
  <2>3. Counted(Last(frames))
    <3> SUFFICES ASSUME Op(LineOf(Last(frames))) \in {"exec", "disp"}
                 PROVE  Last(frames).arg \in 1..(Len(Args(LineOf(Last(frames)))) + 1)
      BY DEF Counted
    <3>1. PICK n \in Nat : n = Len(Args(LineOf(Last(frames))))
      BY <2>2, ArgsAre
    <3>2. Last(frames).arg \in 1..n
      BY <2>1, <3>1 DEF Asked
    <3>3. \A k \in 1..n : k \in 1..(n + 1)
      OBVIOUS
    <3> QED BY <3>1, <3>2, <3>3
  <2> QED BY <2>1, <2>2, <2>3, CommandBegins
<1>6. CASE pc \in Fetching /\ frames = <<>>
  <2>1. log = <<>>
    BY <1>6 DEF OnTheWay
  <2>2. <<>> \in Seq(Word) /\ <<>> \o Output = Output
    BY <1>1, ConcatEmptySeq, EmptySeq
  <2>3. Begins(<<>>, Output)
    BY <1>1, <2>2 DEF Begins
  <2> QED BY <2>1, <2>3
<1> QED BY <1>2, <1>3, <1>4, <1>5, <1>6 DEF Going

LEMMA RunBegins ==
  ASSUME NEW rank, NEW depth, NoCircle(rank, depth), NEW S, ScriptsStay(S), RunInv(S)
  PROVE  Begins(log, Output)
BY WayBegins DEF RunInv

\* What is printed is printed in the middle of a script.
LEMMA PrintsGoing ==
  ASSUME HostStep
  PROVE  log' = log \/ pc' \in {"line", "command"}
<1>1. CASE FetchFound
  BY <1>1 DEF FetchFound
<1>2. CASE FetchMissing \/ NextLoad
  BY <1>2 DEF FetchMissing, NextLoad
<1>3. CASE FetchFailed \/ DownloadFailed
  BY <1>3 DEF FetchFailed, DownloadFailed, GiveUp
<1>4. CASE Downloaded
  BY <1>4 DEF Downloaded
<1>5. CASE BlankLine \/ BeginCommand \/ EndOfScript
  BY <1>5 DEF BlankLine, BeginCommand, EndOfScript
<1>6. CASE Echo
  BY <1>6 DEF Echo, EndCommand
<1>7. CASE UnknownCommand \/ Rem \/ NoMoreFiles
  BY <1>7 DEF UnknownCommand, Rem, NoMoreFiles
<1>8. CASE NextFile
  BY <1>8 DEF NextFile, BeginFetch
<1>9. CASE Return
  BY <1>9 DEF Return
<1> QED BY <1>1, <1>2, <1>3, <1>4, <1>5, <1>6, <1>7, <1>8, <1>9 DEF HostStep

LEMMA HostStepRuns ==
  ASSUME NEW rank, NEW depth, NoCircle(rank, depth), NEW S, ScriptsStay(S), RunInv(S), HostStep
  PROVE  OnTheWay(S)' /\ log' \in Seq(Word)
<1>1. CASE FetchFound
  BY <1>1, FetchFoundRuns
<1>2. CASE FetchMissing
  BY <1>2, FetchMissingRuns
<1>3. CASE FetchFailed \/ DownloadFailed
  BY <1>3, GiveUpRuns DEF FetchFailed, DownloadFailed
<1>4. CASE Downloaded
  BY <1>4, DownloadedRuns
<1>5. CASE BlankLine
  BY <1>5, BlankLineRuns
<1>6. CASE BeginCommand
  BY <1>6, BeginCommandRuns
<1>7. CASE UnknownCommand
  BY <1>7, UnknownCommandRuns
<1>8. CASE Echo
  BY <1>8, EchoRuns
<1>9. CASE Rem
  BY <1>9, RemRuns
<1>10. CASE NextFile
  BY <1>10, NextFileRuns
<1>11. CASE NextLoad
  BY <1>11, NextLoadRuns
<1>12. CASE NoMoreFiles
  BY <1>12, NoMoreFilesRuns
<1>13. CASE EndOfScript
  BY <1>13, EndOfScriptRuns
<1>14. CASE Return
  BY <1>14, ReturnRuns
<1> QED BY <1>1, <1>2, <1>3, <1>4, <1>5, <1>6, <1>7, <1>8, <1>9, <1>10, <1>11, <1>12, <1>13, <1>14
        DEF HostStep

LEMMA RunKeeps ==
  ASSUME NEW rank, NEW depth, NoCircle(rank, depth), NEW S, ScriptsStay(S), RunInv(S), [Next]_netVars
  PROVE  RunInv(S)'
<1>1. NetInv'
  BY NetNextKeeps DEF RunInv
<1>2. Steady(S)'
  BY SteadyKeeps DEF RunInv
<1>3. Begins(log, Output)
  BY RunBegins
<1>4. OnTheWay(S)' /\ log' \in Seq(Word) /\ (log' = log \/ pc' \in {"line", "command"})
  <2>1. CASE HostStep
    BY <2>1, HostStepRuns, PrintsGoing
  <2>2. CASE DownloadStep /\ UNCHANGED <<ramdisk, host, log, failed>>
    BY <2>2, DownloadStepRuns
  <2>3. ASSUME NEW n \in Names, Publish(n), UNCHANGED <<ramdisk, host, log, failed>>
        PROVE  OnTheWay(S)' /\ log' \in Seq(Word) /\ log' = log
    <3>1. UNCHANGED <<pc, frames, fetching, name, log>>
      BY <2>3 DEF Publish, transfer, host
    <3> QED BY <3>1, WaySame
  <2>4. CASE UNCHANGED netVars
    <3>1. UNCHANGED <<pc, frames, fetching, name, log>>
      BY <2>4 DEF netVars, tftpVars, transfer, host
    <3> QED BY <3>1, WaySame
  <2> QED BY <2>1, <2>2, <2>3, <2>4 DEF Next, ProgramStep
<1>5. pc' \notin Going => Begins(log', Output)
  BY <1>3, <1>4 DEF Going
<1> QED BY <1>1, <1>2, <1>4, <1>5 DEF RunInv

LEMMA RunInit == ASSUME NEW S, ScriptsStay(S), Init PROVE RunInv(S)
<1>1. NetInv /\ Steady(S)
  BY NetInvInit, SteadyInit
<1>2. log = <<>> /\ pc = "fetch" /\ frames = <<>> /\ name = Autoexec /\ fetching.why = "exec"
  BY DEF Init
<1>3. log \in Seq(Word) /\ pc \in Going
  BY <1>2, EmptySeq DEF Going, Fetching
<1>4. OnTheWay(S)
  BY <1>2 DEF OnTheWay
<1> QED BY <1>1, <1>3, <1>4 DEF RunInv

LEMMA BeginsPrefix ==
  ASSUME NEW s \in Seq(Word), NEW t \in Seq(Word), Begins(s, t)
  PROVE  IsPrefix(s, t)
<1>1. PICK m \in Seq(Word) : s \o m = t
  BY DEF Begins
<1>2. /\ Len(t) = Len(s) + Len(m) /\ Len(s) \in Nat /\ Len(m) \in Nat
      /\ \A i \in 1..Len(s) : t[i] = s[i]
  BY <1>1, ConcatProperties, LenProperties
<1>3. Len(s) <= Len(t)
  BY <1>2
<1>4. SubSeq(s, 1, Len(s)) = SubSeq(t, 1, Len(s))
  BY <1>2 
<1> QED BY <1>3, <1>4 DEF IsPrefix

\* What has been printed is, at any moment, the beginning of what the scripts give
\* when they are read, and when the program ends well, all of it.  This is so when
\* the scripts of some set, the first one in it, execute only each other and do
\* not change on the server meanwhile (whatever is only shown or loaded may), and
\* no script executes itself, directly or by way of others.
THEOREM ScriptsRun ==
  ASSUME NEW S, NEW rank, NEW depth, ScriptsStay(S), NoCircle(rank, depth)
  PROVE  /\ Spec => []RunsTheScripts
         /\ StartSpec => []RunsTheScripts
<1>1. Init => RunInv(S)
  BY RunInit
<1>2. RunInv(S) /\ [Next]_netVars => RunInv(S)'
  BY RunKeeps
<1>3. RunInv(S) => RunsTheScripts
  <2> SUFFICES ASSUME RunInv(S) PROVE RunsTheScripts
    OBVIOUS
  <2>1. Output \in Seq(Word)
    BY OutputIs, OutIs, NetBootAssumption
  <2>2. Begins(log, Output) /\ log \in Seq(Word)
    BY RunBegins DEF RunInv
  <2>3. IsPrefix(log, Output)
    BY <2>1, <2>2, BeginsPrefix
  <2>4. pc = "done" => log = Output
    BY DEF RunInv, OnTheWay
  <2>5. pc = "done" => ~failed
    BY DEF RunInv, NetInv, Halted, Stopping
  <2> QED BY <2>3, <2>4, <2>5 DEF RunsTheScripts
<1>4. Init /\ [][Next]_netVars => []RunsTheScripts
  BY <1>1, <1>2, <1>3, PTL
<1>5. Spec => []RunsTheScripts
  BY <1>4, PTL DEF Spec
<1>6. StartSpec => []RunsTheScripts
  BY <1>4, StartedHost, PTL
<1> QED BY <1>5, <1>6

-----------------------------------------------------------------------------
(* What is written between quotes is read as it was.                       *)

\* A set that holds a number with the one before it holds all of them.
LEMMA Upward ==
  ASSUME NEW P, NEW n \in Nat, 0 \in P, \A i \in 1..n : i - 1 \in P => i \in P
  PROVE  \A i \in 0..n : i \in P
<1> DEFINE T == {i \in 0..n : i \notin P}
<1>1. SUFFICES ASSUME T # {} PROVE FALSE
  OBVIOUS
<1>2. T \subseteq Nat
  OBVIOUS
<1>3. PICK k \in T : \A m \in T : k <= m
  <2> HIDE DEF T
  <2> QED BY <1>1, <1>2, LeastNat
<1>4. k \in 1..n /\ k \notin P
  BY <1>3
<1>5. k - 1 \in 0..n /\ ~(k <= k - 1)
  BY <1>4
<1>6. k - 1 \in P
  BY <1>3, <1>5
<1> QED BY <1>4, <1>6

\* The same from the last place down.
LEMMA Downward ==
  ASSUME NEW P, NEW n \in Nat, n \in P, \A i \in 1..n : i \in P => i - 1 \in P
  PROVE  \A i \in 0..n : i \in P
<1> DEFINE Q == {i \in 0..n : n - i \in P}
<1>1. 0 \in Q
  OBVIOUS
<1>2. ASSUME NEW i \in 1..n, i - 1 \in Q PROVE i \in Q
  <2>1. n - (i - 1) \in P /\ n - (i - 1) \in 1..n /\ (n - (i - 1)) - 1 = n - i
    BY <1>2
  <2>2. (n - (i - 1)) - 1 \in P
    BY <2>1
  <2> QED BY <2>1, <2>2
<1>3. \A i \in 0..n : i \in Q
  <2> HIDE DEF Q
  <2> QED BY <1>1, <1>2, Upward
<1>4. ASSUME NEW i \in 0..n PROVE i \in P
  <2>1. n - i \in 0..n /\ n - (n - i) = i
    OBVIOUS
  <2>2. n - i \in Q
    BY <1>3, <2>1
  <2> QED BY <2>1, <2>2
<1> QED BY <1>4

\* How a character is written.
EscapeOf(c) ==
  IF \E e \in DOMAIN Escaped : Escaped[e] = c
  THEN <<Backslash, CHOOSE e \in DOMAIN Escaped : Escaped[e] = c>>
  ELSE IF c \in {Quote, Backslash} THEN <<Backslash, c>> ELSE <<c>>

Escapes(value) == [i \in DOMAIN value |-> EscapeOf(value[i])]

LEMMA QuotedIs ==
  ASSUME NEW value
  PROVE  Quoted(value) = <<Quote>> \o FlattenSeq(Escapes(value)) \o <<Quote>>
BY DEF Quoted, Escapes, EscapeOf

\* A character written as itself is no quote and no backslash, and one behind a
\* backslash is made that character again.  Neither brings in a hash, or has a
\* backslash at its end that was not there.
Bounce(x) == IF x \in DOMAIN Escaped THEN Escaped[x] ELSE x

Alone(s, c) == s = <<c>> /\ c # Quote /\ c # Backslash

Slashed(s, c, x) ==
  /\ s = <<Backslash, x>> /\ Bounce(x) = c
  /\ c # Hash => x # Hash
  /\ c # Backslash => x # Backslash

LEMMA EscapeIs ==
  ASSUME NEW c
  PROVE  Alone(EscapeOf(c), c) \/ \E x : Slashed(EscapeOf(c), c, x)
<1>1. DOMAIN Escaped = {"n", "r", "t", "v", "b", "f", "a"}
  BY DEF Escaped
<1>2. \A x \in DOMAIN Escaped : x # Hash /\ x # Backslash
  BY <1>1 DEF Hash, Backslash
<1>3. CASE \E e \in DOMAIN Escaped : Escaped[e] = c
  <2>1. PICK x : x = CHOOSE e \in DOMAIN Escaped : Escaped[e] = c
    OBVIOUS
  <2>2. x \in DOMAIN Escaped /\ Escaped[x] = c
    BY <1>3, <2>1
  <2>3. EscapeOf(c) = <<Backslash, x>>
    BY <1>3, <2>1 DEF EscapeOf
  <2>4. Slashed(EscapeOf(c), c, x)
    BY <1>2, <2>2, <2>3 DEF Slashed, Bounce
  <2> QED BY <2>4
<1>4. CASE ~(\E e \in DOMAIN Escaped : Escaped[e] = c) /\ c \in {Quote, Backslash}
  <2>1. EscapeOf(c) = <<Backslash, c>>
    BY <1>4 DEF EscapeOf
  <2>2. c \notin DOMAIN Escaped
    BY <1>1, <1>4 DEF Quote, Backslash
  <2>3. Slashed(EscapeOf(c), c, c)
    BY <2>1, <2>2 DEF Slashed, Bounce
  <2> QED BY <2>3
<1>5. CASE ~(\E e \in DOMAIN Escaped : Escaped[e] = c) /\ c \notin {Quote, Backslash}
  <2>1. EscapeOf(c) = <<c>>
    BY <1>5 DEF EscapeOf
  <2> QED BY <1>5, <2>1 DEF Alone
<1> QED BY <1>3, <1>4, <1>5

\* In what is written of a value every quote is behind a backslash.
Fenced(text) ==
  \A k \in 1..Len(text) : text[k] = Quote => k > 1 /\ text[k - 1] = Backslash

\* j is t behind s.
Follows(j, s, t) ==
  /\ Len(s) \in Nat /\ Len(t) \in Nat /\ Len(j) = Len(s) + Len(t)
  /\ \A k \in 1..Len(s) : j[k] = s[k]
  /\ \A k \in 1..Len(t) : j[Len(s) + k] = t[k]

LEMMA JoinedFollows ==
  ASSUME NEW U, NEW s \in Seq(U), NEW t \in Seq(U)
  PROVE  Follows(s \o t, s, t)
<1>1. /\ s \o t \in Seq(U) /\ Len(s \o t) = Len(s) + Len(t)
      /\ \A i \in 1..Len(s) + Len(t) : (s \o t)[i] = IF i <= Len(s) THEN s[i] ELSE t[i - Len(s)]
  BY ConcatProperties
<1>2. Len(s) \in Nat /\ Len(t) \in Nat
  BY LenProperties
<1>3. \A k \in 1..Len(s) : (s \o t)[k] = s[k]
  BY <1>1, <1>2
<1>4. ASSUME NEW k \in 1..Len(t) PROVE (s \o t)[Len(s) + k] = t[k]
  <2>1. Len(s) + k \in 1..(Len(s) + Len(t)) /\ ~(Len(s) + k <= Len(s)) /\ (Len(s) + k) - Len(s) = k
    BY <1>2
  <2> QED BY <1>1, <2>1
<1> QED BY <1>1, <1>2, <1>3, <1>4 DEF Follows

\* What a line that has values of these characters in it is made of.
Inks(Chars) == Chars \cup DOMAIN Escaped \cup {Backslash, Quote, Hash, " ", "\t", "echo"}

LEMMA EscapesAre ==
  ASSUME NEW Chars, NEW value \in Seq(Chars)
  PROVE  LET U == Inks(Chars)
         IN  /\ Len(value) \in Nat /\ DOMAIN value = 1..Len(value)
             /\ Escapes(value) \in Seq(Seq(U)) /\ Len(Escapes(value)) = Len(value)
             /\ \A i \in 1..Len(value) : /\ Escapes(value)[i] \in Seq(U)
                                         /\ Escapes(value)[i] = EscapeOf(value[i])
<1> DEFINE U == Inks(Chars)
           n == Len(value)
<1>1. n \in Nat /\ DOMAIN value = 1..n /\ \A i \in 1..n : value[i] \in Chars
  BY LenProperties, ElementOfSeq
<1>2. ASSUME NEW c \in Chars PROVE EscapeOf(c) \in Seq(U)
  <2>1. CASE \E e \in DOMAIN Escaped : Escaped[e] = c
    <3>1. PICK x : x = CHOOSE e \in DOMAIN Escaped : Escaped[e] = c
      OBVIOUS
    <3>2. x \in DOMAIN Escaped
      BY <2>1, <3>1
    <3>3. x \in U /\ Backslash \in U
      BY <3>2 DEF Inks
    <3> HIDE DEF U
    <3>4. <<Backslash, x>> \in Seq(U)
      BY <3>3
    <3>5. EscapeOf(c) = <<Backslash, x>>
      BY <2>1, <3>1 DEF EscapeOf
    <3> QED BY <3>4, <3>5
  <2>2. CASE ~(\E e \in DOMAIN Escaped : Escaped[e] = c)
    <3>1. c \in U /\ Backslash \in U
      BY DEF Inks
    <3> HIDE DEF U
    <3>2. <<Backslash, c>> \in Seq(U) /\ <<c>> \in Seq(U)
      BY <3>1
    <3>3. EscapeOf(c) = IF c \in {Quote, Backslash} THEN <<Backslash, c>> ELSE <<c>>
      BY <2>2 DEF EscapeOf
    <3> QED BY <3>2, <3>3
  <2> QED BY <2>1, <2>2
<1> HIDE DEF U, n
<1>3. Escapes(value) = [i \in 1..n |-> EscapeOf(value[i])]
  BY <1>1 DEF Escapes
<1>4. \A i \in 1..n : Escapes(value)[i] = EscapeOf(value[i]) /\ Escapes(value)[i] \in Seq(U)
  BY <1>1, <1>2, <1>3
<1>5. Escapes(value) \in Seq(Seq(U)) /\ Len(Escapes(value)) = n
  <2>1. Escapes(value) \in [1..n -> Seq(U)]
    BY <1>3, <1>4
  <2> HIDE DEF Escapes
  <2>2. Escapes(value) \in Seq(Seq(U))
    BY <1>1, <2>1, SeqDef
  <2>3. DOMAIN Escapes(value) = 1..n
    BY <2>1
  <2> QED BY <1>1, <2>2, <2>3, LenProperties
<1> QED BY <1>1, <1>4, <1>5 DEF n, U

\* What is written of the first characters is where what is written begins.
Opens(s, t) == Len(s) <= Len(t) /\ \A k \in 1..Len(s) : t[k] = s[k]

LEMMA SumsOpen ==
  ASSUME NEW U, NEW q \in Seq(Seq(U))
  PROVE  \A i \in 0..Len(q) : Opens(Sums(q)[i], FlattenSeq(q))
<1> DEFINE P == {i \in 0..Len(q) : Opens(Sums(q)[i], FlattenSeq(q))}
<1>1. PICK n, s, t :
        /\ n \in Nat /\ s \in [0..n -> Seq(U)] /\ n = Len(q)
        /\ s = Sums(q) /\ t = FlattenSeq(q) /\ t = s[n]
        /\ \A i \in 1..n : s[i] = s[i - 1] \o q[i] /\ q[i] \in Seq(U)
  BY SumsAre, ElementOfSeq
<1>2. n \in P
  <2>1. Len(t) \in Nat
    BY <1>1, LenProperties
  <2> QED BY <1>1, <2>1 DEF Opens
<1>3. ASSUME NEW i \in 1..n, i \in P PROVE i - 1 \in P
  <2>1. i - 1 \in 0..n /\ i \in 0..n
    BY <1>1
  <2>2. PICK a, b, c : a = s[i - 1] /\ b = q[i] /\ c = s[i] /\ a \in Seq(U) /\ b \in Seq(U) /\ c = a \o b
    BY <1>1, <2>1
  <2>3. /\ Len(a) \in Nat /\ Len(b) \in Nat /\ Len(c) = Len(a) + Len(b)
        /\ \A k \in 1..Len(a) : c[k] = a[k]
    <3>1. Follows(a \o b, a, b)
      BY <2>2, JoinedFollows
    <3> QED BY <2>2, <3>1 DEF Follows
  <2>4. Opens(c, t)
    BY <1>1, <1>3, <2>2
  <2>5. Len(t) \in Nat
    BY <1>1, LenProperties
  <2>6. Opens(a, t)
    BY <2>3, <2>4, <2>5 DEF Opens
  <2> QED BY <1>1, <2>1, <2>2, <2>6
<1>4. \A i \in 0..n : i \in P
  <2> HIDE DEF P
  <2> QED BY <1>1, <1>2, <1>3, Downward
<1> QED BY <1>1, <1>4

\* What is written of a value that can be written has no hash, no quote that would
\* close it, and no backslash at its end.
Sealed(text) ==
  /\ Fenced(text)
  /\ \A k \in 1..Len(text) : text[k] # Hash

LEMMA SealedWith ==
  ASSUME NEW U, NEW s \in Seq(U), NEW c, c # Hash, EscapeOf(c) \in Seq(U), Sealed(s)
  PROVE  /\ Sealed(s \o EscapeOf(c))
         /\ c # Backslash => (s \o EscapeOf(c))[Len(s \o EscapeOf(c))] # Backslash
<1>1. PICK e, j : e = EscapeOf(c) /\ j = s \o e /\ e \in Seq(U)
  OBVIOUS
<1>2. PICK m \in Nat, l \in Nat : m = Len(s) /\ l = Len(e)
  BY <1>1, LenProperties
<1>3. /\ Len(j) = m + l /\ \A k \in 1..m : j[k] = s[k]
      /\ \A k \in 1..l : j[m + k] = e[k]
  <2>1. Follows(s \o e, s, e)
    BY <1>1, JoinedFollows
  <2> QED BY <1>1, <1>2, <2>1 DEF Follows
<1>4. /\ \A k \in 1..m : s[k] = Quote => k > 1 /\ s[k - 1] = Backslash
      /\ \A k \in 1..m : s[k] # Hash
  BY <1>2 DEF Sealed, Fenced
<1>5. \/ l = 1 /\ e[1] = c /\ c # Quote /\ c # Backslash
      \/ l = 2 /\ e[1] = Backslash /\ e[2] # Hash /\ (c # Backslash => e[2] # Backslash)
  <2>1. Alone(e, c) \/ \E x : Slashed(e, c, x)
    BY <1>1, EscapeIs
  <2>2. CASE Alone(e, c)
    <3>1. e = <<c>>
      BY <2>2 DEF Alone
    <3>2. Len(e) = 1 /\ e[1] = c
      BY <3>1
    <3> QED BY <1>2, <2>2, <3>2 DEF Alone
  <2>3. CASE \E x : Slashed(e, c, x)
    <3>1. PICK x : Slashed(e, c, x)
      BY <2>3
    <3>2. e = <<Backslash, x>>
      BY <3>1 DEF Slashed
    <3>3. Len(e) = 2 /\ e[1] = Backslash /\ e[2] = x
      BY <3>2
    <3> QED BY <1>2, <3>1, <3>3 DEF Slashed
  <2> QED BY <2>1, <2>2, <2>3
<1>6. ASSUME NEW k \in 1..(m + l)
      PROVE  (j[k] = Quote => k > 1 /\ j[k - 1] = Backslash) /\ j[k] # Hash
  <2>1. Backslash # Quote /\ Backslash # Hash
    BY DEF Backslash, Quote, Hash
  <2>2. CASE k <= m
    <3>1. k \in 1..m /\ (k > 1 => k - 1 \in 1..m)
      BY <2>2
    <3>2. j[k] = s[k] /\ (k > 1 => j[k - 1] = s[k - 1])
      BY <1>3, <3>1
    <3> QED BY <1>4, <3>1, <3>2
  <2>3. CASE k = m + 1
    <3>1. l >= 1 /\ 1 \in 1..l
      BY <1>5
    <3>2. j[k] = e[1]
      BY <1>3, <2>3, <3>1
    <3> QED BY <1>5, <2>1, <3>2
  <2>4. CASE k = m + 2
    <3>1. l = 2 /\ 1 \in 1..l /\ 2 \in 1..l /\ k - 1 = m + 1 /\ k > 1
      BY <1>5, <2>4
    <3>2. j[k] = e[2] /\ j[k - 1] = e[1]
      BY <1>3, <2>4, <3>1
    <3> QED BY <1>5, <3>1, <3>2
  <2>5. k <= m \/ k = m + 1 \/ k = m + 2
    BY <1>5
  <2> QED BY <2>2, <2>3, <2>4, <2>5
<1>7. c # Backslash => j[m + l] # Backslash
  <2>1. l \in 1..l
    BY <1>5
  <2>2. j[m + l] = e[l]
    BY <1>3, <2>1
  <2> QED BY <1>5, <2>2
<1> QED BY <1>1, <1>3, <1>6, <1>7 DEF Sealed, Fenced

LEMMA WrittenSealed ==
  ASSUME NEW Chars, NEW value \in Seq(Chars), Writable(value)
  PROVE  LET text == FlattenSeq(Escapes(value))
         IN  Sealed(text) /\ (text # <<>> => text[Len(text)] # Backslash)
<1>1. PICK U : /\ Len(value) \in Nat /\ DOMAIN value = 1..Len(value)
               /\ Escapes(value) \in Seq(Seq(U)) /\ Len(Escapes(value)) = Len(value)
               /\ \A i \in 1..Len(value) : /\ Escapes(value)[i] \in Seq(U)
                                           /\ Escapes(value)[i] = EscapeOf(value[i])
  BY EscapesAre
<1> DEFINE n == Len(value)
           q == Escapes(value)
           s == Sums(q)
           t == FlattenSeq(q)
<1>2. /\ n \in Nat /\ s \in [0..n -> Seq(U)] /\ t = s[n] /\ s[0] = <<>>
      /\ \A i \in 1..n : s[i] = s[i - 1] \o q[i]
  BY <1>1, SumsAre
<1>3. \A i \in 1..n : q[i] = EscapeOf(value[i]) /\ EscapeOf(value[i]) \in Seq(U)
  BY <1>1
<1> HIDE DEF q, s, t
<1>4. \A i \in 1..n : value[i] # Hash
  <2>1. Hash \notin ToSet(value)
    BY DEF Writable
  <2>2. ToSet(value) = {value[i] : i \in 1..n}
    BY <1>1, <1>2 DEF ToSet
  <2> QED BY <2>1, <2>2
<1> HIDE DEF n
<1>5. n # 0 => value[n] # Backslash
  <2>1. n # 0 => value # <<>>
    BY <1>2 DEF n
  <2> QED BY <1>2, <2>1 DEF Writable, Last, n
<1> DEFINE P == {i \in 0..n : Sealed(s[i])}
<1>6. 0 \in P
  <2>1. Len(<<>>) = 0
    OBVIOUS
  <2>2. Sealed(<<>>)
    BY <2>1 DEF Sealed, Fenced
  <2> QED BY <1>2, <2>2
<1>7. ASSUME NEW i \in 1..n, i - 1 \in P
      PROVE  /\ i \in P
             /\ value[i] # Backslash => s[i][Len(s[i])] # Backslash
  <2>1. i - 1 \in 0..n /\ i \in 0..n
    BY <1>2
  <2>2. PICK a, c : /\ a = s[i - 1] /\ c = value[i] /\ a \in Seq(U) /\ Sealed(a)
                    /\ c # Hash /\ EscapeOf(c) \in Seq(U) /\ s[i] = a \o EscapeOf(c)
    BY <1>2, <1>3, <1>4, <1>7, <2>1
  <2>3. /\ Sealed(a \o EscapeOf(c))
        /\ c # Backslash => (a \o EscapeOf(c))[Len(a \o EscapeOf(c))] # Backslash
    BY <2>2, SealedWith
  <2> QED BY <2>1, <2>2, <2>3
<1>8. \A i \in 0..n : i \in P
  <2> HIDE DEF P
  <2> QED BY <1>2, <1>6, <1>7, Upward
<1>9. Sealed(t)
  BY <1>2, <1>8
<1>10. t # <<>> => t[Len(t)] # Backslash
  <2>1. t # <<>> => n # 0
    BY <1>2
  <2>2. n # 0 => n \in 1..n /\ n - 1 \in P
    <3>1. n # 0 => n \in 1..n /\ n - 1 \in 0..n
      BY <1>2
    <3> QED BY <1>8, <3>1
  <2> QED BY <1>2, <1>5, <1>7, <2>1, <2>2
<1> QED BY <1>9, <1>10 DEF t, q

\* The characters from a place on, when those from later ones are in f.
BounceAt(text, f, p) ==
  IF p = Len(text) + 1 THEN <<>>
  ELSE IF text[p] # Backslash THEN <<text[p]>> \o f[p + 1]
  ELSE IF p + 1 = Len(text) + 1 THEN <<Backslash>>
  ELSE <<Bounce(text[p + 1])>> \o f[p + 2]

BounceFrom(text) == CHOOSE f : f = [p \in 1..(Len(text) + 1) |-> BounceAt(text, f, p)]

LEMMA BouncedAre == ASSUME NEW text PROVE Bounced(text) = BounceFrom(text)[1]
BY DEF Bounced, BounceFrom, BounceAt, Bounce

LEMMA BounceAtSame ==
  ASSUME NEW text, Len(text) \in Nat, NEW p \in 1..(Len(text) + 1), NEW f, NEW g,
         \A q \in (p + 1)..(Len(text) + 1) : f[q] = g[q]
  PROVE  BounceAt(text, f, p) = BounceAt(text, g, p)
<1>1. p # Len(text) + 1 => f[p + 1] = g[p + 1]
  OBVIOUS
<1>2. p # Len(text) + 1 /\ p + 1 # Len(text) + 1 => f[p + 2] = g[p + 2]
  OBVIOUS
<1> QED BY <1>1, <1>2 DEF BounceAt

LEMMA BounceFromIs ==
  ASSUME NEW text, Len(text) \in Nat
  PROVE  \A p \in 1..(Len(text) + 1) : BounceFrom(text)[p] = BounceAt(text, BounceFrom(text), p)
<1> DEFINE end == Len(text) + 1
           P == {k \in 0..end : \E f : /\ f = [p \in 1..end |-> f[p]]
                                       /\ \A p \in 1..end : p + k > end => f[p] = BounceAt(text, f, p)}
<1>1. end \in Nat
  OBVIOUS
<1>2. 0 \in P
  <2> DEFINE f == [p \in 1..end |-> <<>>]
  <2>1. f = [p \in 1..end |-> f[p]]
    OBVIOUS
  <2>2. \A p \in 1..end : ~(p + 0 > end)
    BY <1>1
  <2> HIDE DEF f
  <2> QED BY <2>1, <2>2
<1>3. ASSUME NEW k \in 1..end, k - 1 \in P PROVE k \in P
  <2>1. PICK f : \A p \in 1..end : p + (k - 1) > end => f[p] = BounceAt(text, f, p)
    BY <1>3
  <2>2. PICK g : /\ g = [p \in 1..end |-> g[p]]
                 /\ \A p \in 1..end : g[p] = BounceAt(text, f, p)
    <3> DEFINE g == [p \in 1..end |-> BounceAt(text, f, p)]
    <3>1. g = [p \in 1..end |-> g[p]] /\ \A p \in 1..end : g[p] = BounceAt(text, f, p)
      OBVIOUS
    <3> QED BY <3>1
  <2>3. \A p \in 1..end : p + (k - 1) > end => g[p] = f[p]
    BY <2>1, <2>2
  <2>4. ASSUME NEW p \in 1..end, p + k > end PROVE g[p] = BounceAt(text, g, p)
    <3>1. ASSUME NEW q \in (p + 1)..end PROVE g[q] = f[q]
      <4>1. q \in 1..end /\ q + (k - 1) > end
        BY <1>1, <2>4
      <4> QED BY <2>3, <4>1
    <3>2. BounceAt(text, g, p) = BounceAt(text, f, p)
      BY <3>1, BounceAtSame
    <3> QED BY <2>2, <3>2
  <2>5. k \in 0..end
    OBVIOUS
  <2> QED BY <2>2, <2>4, <2>5
<1>4. end \in P
  <2>1. \A k \in 0..end : k \in P
    <3> HIDE DEF P
    <3> QED BY <1>1, <1>2, <1>3, Upward
  <2> QED BY <1>1, <2>1
<1>5. PICK f : /\ f = [p \in 1..end |-> f[p]]
               /\ \A p \in 1..end : p + end > end => f[p] = BounceAt(text, f, p)
  BY <1>4
<1>6. \A p \in 1..end : f[p] = BounceAt(text, f, p)
  <2>1. \A p \in 1..end : p + end > end
    BY <1>1
  <2> QED BY <1>5, <2>1
<1>7. f = [p \in 1..end |-> BounceAt(text, f, p)]
  <2>1. [p \in 1..end |-> f[p]] = [p \in 1..end |-> BounceAt(text, f, p)]
    BY <1>6
  <2> QED BY <1>5, <2>1
<1> DEFINE o == BounceFrom(text)
<1>8. o = [p \in 1..end |-> BounceAt(text, o, p)]
  BY <1>7 DEF BounceFrom
<1> HIDE DEF o
<1>9. \A p \in 1..end : o[p] = BounceAt(text, o, p)
  BY <1>8
<1> QED BY <1>9 DEF o

LEMMA BounceOne ==
  ASSUME NEW text, Len(text) \in Nat, NEW f, NEW p \in 1..Len(text), NEW c, NEW s,
         Alone(s, c), text[p] = s[1]
  PROVE  BounceAt(text, f, p) = <<c>> \o f[p + 1]
<1>1. s = <<c>>
  BY DEF Alone
<1>2. s[1] = c
  BY <1>1
<1>3. text[p] = c /\ text[p] # Backslash /\ p # Len(text) + 1
  BY <1>2 DEF Alone
<1> QED BY <1>3 DEF BounceAt

LEMMA BounceTwo ==
  ASSUME NEW text, Len(text) \in Nat, NEW f, NEW p \in 1..Len(text), p + 1 \in 1..Len(text),
         NEW c, NEW s, NEW x, Slashed(s, c, x), text[p] = s[1], text[p + 1] = s[2]
  PROVE  BounceAt(text, f, p) = <<c>> \o f[p + 2]
<1>1. s = <<Backslash, x>>
  BY DEF Slashed
<1>2. s[1] = Backslash /\ s[2] = x
  BY <1>1
<1>3. text[p] = Backslash /\ text[p + 1] = x /\ p # Len(text) + 1 /\ p + 1 # Len(text) + 1
  BY <1>2
<1>4. BounceAt(text, f, p) = <<Bounce(x)>> \o f[p + 2]
  BY <1>3 DEF BounceAt
<1> QED BY <1>4 DEF Slashed

\* The characters of a value behind the first i.
LEMMA RestIs ==
  ASSUME NEW C, NEW value \in Seq(C), NEW i \in 1..Len(value)
  PROVE  <<value[i]>> \o SubSeq(value, i + 1, Len(value)) = SubSeq(value, i, Len(value))
<1>1. PICK n \in Nat : n = Len(value)
  BY LenProperties
<1> DEFINE a == SubSeq(value, i + 1, n)
           b == SubSeq(value, i, n)
           c == <<value[i]>>
<1>2. \A k \in 1..n : value[k] \in C
  BY <1>1, ElementOfSeq
<1>3. i \in 1..n /\ i \in Nat
  BY <1>1
<1>4. /\ a \in Seq(C) /\ Len(a) = n - i
      /\ \A k \in 1..(n - i) : a[k] = value[i + k]
  <2>1. \A k \in (i + 1)..n : value[k] \in C
    BY <1>2, <1>3
  <2>2. /\ a \in Seq(C)
        /\ Len(a) = IF i + 1 <= n THEN n - (i + 1) + 1 ELSE 0
        /\ \A k \in 1..(n - (i + 1) + 1) : a[k] = value[(i + 1) + k - 1]
    BY <1>1, <1>3, <2>1, SubSeqProperties
  <2>3. \A k \in 1..(n - i) : k \in 1..(n - (i + 1) + 1) /\ (i + 1) + k - 1 = i + k
    BY <1>1, <1>3
  <2>4. Len(a) = n - i
    BY <1>1, <1>3, <2>2
  <2> HIDE DEF a
  <2> QED BY <2>2, <2>3, <2>4
<1>5. /\ b \in Seq(C) /\ Len(b) = n - i + 1
      /\ \A k \in 1..(n - i + 1) : b[k] = value[i + k - 1]
  <2>1. \A k \in i..n : value[k] \in C
    BY <1>2, <1>3
  <2>2. /\ b \in Seq(C)
        /\ Len(b) = IF i <= n THEN n - i + 1 ELSE 0
        /\ \A k \in 1..(n - i + 1) : b[k] = value[i + k - 1]
    BY <1>1, <1>3, <2>1, SubSeqProperties
  <2> QED BY <1>1, <1>3, <2>2
<1>6. c \in Seq(C) /\ Len(c) = 1 /\ c[1] = value[i]
  BY <1>2, <1>3
<1> HIDE DEF a, b, c
<1>7. Follows(c \o a, c, a) /\ c \o a \in Seq(C)
  BY <1>4, <1>6, JoinedFollows, ConcatProperties
<1>8. PICK j : j = c \o a
  OBVIOUS
<1>9. j \in Seq(C) /\ Len(j) = n - i + 1 /\ j[1] = value[i] /\ \A k \in 1..(n - i) : j[1 + k] = value[i + k]
  BY <1>1, <1>3, <1>4, <1>6, <1>7, <1>8 DEF Follows
<1>10. ASSUME NEW k \in 1..(n - i + 1) PROVE j[k] = b[k]
  <2>1. CASE k = 1
    BY <1>1, <1>3, <1>5, <1>9, <2>1
  <2>2. CASE k # 1
    <3>1. k - 1 \in 1..(n - i) /\ 1 + (k - 1) = k /\ i + (k - 1) = i + k - 1
      BY <1>1, <1>3, <2>2
    <3> QED BY <1>5, <1>9, <3>1
  <2> QED BY <2>1, <2>2
<1>11. j = b
  BY <1>5, <1>9, <1>10, SeqEqual
<1> QED BY <1>1, <1>8, <1>11 DEF a, b, c

\* What is written of a value is made that value again.
LEMMA BouncedBack ==
  ASSUME NEW Chars, NEW value \in Seq(Chars)
  PROVE  Bounced(FlattenSeq(Escapes(value))) = value
<1>1. PICK U : /\ Len(value) \in Nat /\ DOMAIN value = 1..Len(value)
               /\ Escapes(value) \in Seq(Seq(U)) /\ Len(Escapes(value)) = Len(value)
               /\ \A i \in 1..Len(value) : /\ Escapes(value)[i] \in Seq(U)
                                           /\ Escapes(value)[i] = EscapeOf(value[i])
  BY EscapesAre
<1> DEFINE n == Len(value)
           q == Escapes(value)
           s == Sums(q)
           t == FlattenSeq(q)
           g == BounceFrom(t)
           P == {i \in 0..n : g[Len(s[i]) + 1] = SubSeq(value, i + 1, n)}
<1>2. /\ n \in Nat /\ s \in [0..n -> Seq(U)] /\ t = s[n] /\ s[0] = <<>>
      /\ \A i \in 1..n : s[i] = s[i - 1] \o q[i]
  BY <1>1, SumsAre
<1>3. \A i \in 1..n : q[i] = EscapeOf(value[i]) /\ EscapeOf(value[i]) \in Seq(U)
  BY <1>1
<1>4. \A i \in 0..n : Opens(s[i], t)
  BY <1>1, SumsOpen
<1>5. n = Len(value)
  OBVIOUS
<1> HIDE DEF n, q, s, t, g
<1>6. Len(t) \in Nat
  BY <1>2, LenProperties
<1>7. \A p \in 1..(Len(t) + 1) : g[p] = BounceAt(t, g, p)
  BY <1>6, BounceFromIs DEF g
<1>8. n \in P
  <2>1. g[Len(t) + 1] = <<>>
    <3>1. Len(t) + 1 \in 1..(Len(t) + 1)
      BY <1>6
    <3> QED BY <1>7, <3>1 DEF BounceAt
  <2>2. SubSeq(value, n + 1, n) = <<>>
    BY <1>2, SubSeqEmpty
  <2> QED BY <1>2, <2>1, <2>2
<1>9. ASSUME NEW i \in 1..n, i \in P PROVE i - 1 \in P
  <2>1. i - 1 \in 0..n /\ i \in 0..n
    BY <1>2
  <2>2. PICK a, c, e, j : /\ a = s[i - 1] /\ c = value[i] /\ e = EscapeOf(c) /\ j = s[i]
                          /\ a \in Seq(U) /\ e \in Seq(U) /\ j = a \o e
    BY <1>2, <1>3, <2>1
  <2>3. Follows(j, a, e)
    BY <2>2, JoinedFollows
  <2>4. Opens(j, t)
    BY <1>4, <2>1, <2>2
  <2>5. PICK m \in Nat, l \in Nat, z \in Nat : m = Len(a) /\ l = Len(e) /\ z = Len(t)
    BY <1>6, <2>3 DEF Follows
  <2>6. m + l <= z /\ Len(j) = m + l
    BY <2>3, <2>4, <2>5 DEF Follows, Opens
  <2>7. ASSUME NEW k \in 1..l PROVE m + k \in 1..z /\ t[m + k] = e[k]
    <3>1. m + k \in 1..(m + l)
      OBVIOUS
    <3>2. j[m + k] = e[k] /\ t[m + k] = j[m + k]
      BY <2>3, <2>4, <2>5, <2>6, <3>1 DEF Follows, Opens
    <3> QED BY <2>6, <3>2
  <2>8. g[m + 1] = <<c>> \o g[m + l + 1]
    <3>1. Alone(e, c) \/ \E x : Slashed(e, c, x)
      BY <2>2, EscapeIs
    <3>2. CASE Alone(e, c)
      <4>1. e = <<c>>
        BY <3>2 DEF Alone
      <4>2. l = 1 /\ 1 \in 1..l
        BY <2>5, <4>1
      <4>3. m + 1 \in 1..z /\ t[m + 1] = e[1] /\ m + 1 \in 1..(z + 1)
        BY <2>7, <4>2
      <4>4. BounceAt(t, g, m + 1) = <<c>> \o g[(m + 1) + 1]
        BY <1>6, <2>5, <3>2, <4>3, BounceOne
      <4>5. g[m + 1] = BounceAt(t, g, m + 1)
        BY <1>7, <2>5, <4>3
      <4> QED BY <4>2, <4>4, <4>5
    <3>3. CASE \E x : Slashed(e, c, x)
      <4>1. PICK x : Slashed(e, c, x)
        BY <3>3
      <4>2. e = <<Backslash, x>>
        BY <4>1 DEF Slashed
      <4>3. l = 2 /\ 1 \in 1..l /\ 2 \in 1..l
        BY <2>5, <4>2
      <4>4. /\ m + 1 \in 1..z /\ t[m + 1] = e[1] /\ m + 1 \in 1..(z + 1)
            /\ (m + 1) + 1 \in 1..z /\ t[(m + 1) + 1] = e[2]
        <5>1. (m + 1) + 1 = m + 2
          OBVIOUS
        <5> QED BY <2>7, <4>3, <5>1
      <4>5. BounceAt(t, g, m + 1) = <<c>> \o g[(m + 1) + 2]
        BY <1>6, <2>5, <4>1, <4>4, BounceTwo
      <4>6. g[m + 1] = BounceAt(t, g, m + 1)
        BY <1>7, <2>5, <4>4
      <4>7. (m + 1) + 2 = m + l + 1
        BY <4>3
      <4> QED BY <4>5, <4>6, <4>7
    <3> QED BY <3>1, <3>2, <3>3
  <2>9. g[m + l + 1] = SubSeq(value, i + 1, n)
    BY <1>9, <2>2, <2>6
  <2>10. <<c>> \o SubSeq(value, i + 1, n) = SubSeq(value, i, n)
    BY <1>5, <2>2, RestIs
  <2>11. g[m + 1] = SubSeq(value, (i - 1) + 1, n)
    <3>1. (i - 1) + 1 = i
      BY <1>2
    <3> QED BY <2>8, <2>9, <2>10, <3>1
  <2> QED BY <2>1, <2>2, <2>5, <2>11
<1>10. \A i \in 0..n : i \in P
  <2> HIDE DEF P
  <2> QED BY <1>2, <1>8, <1>9, Downward
<1>11. g[1] = SubSeq(value, 1, n)
  <2>1. 0 \in 0..n
    BY <1>2
  <2>2. g[Len(s[0]) + 1] = SubSeq(value, 0 + 1, n)
    BY <1>10, <2>1
  <2>3. Len(s[0]) + 1 = 1 /\ 0 + 1 = 1
    BY <1>2
  <2> QED BY <2>2, <2>3
<1>12. SubSeq(value, 1, n) = value
  BY <1>5, SubSeqFull
<1> QED BY <1>11, <1>12, BouncedAre DEF g, t, q

LEMMA WrittenTyped ==
  ASSUME NEW Chars, NEW value \in Seq(Chars)
  PROVE  FlattenSeq(Escapes(value)) \in Seq(Inks(Chars))
<1>1. Escapes(value) \in Seq(Seq(Inks(Chars)))
  BY EscapesAre
<1> QED BY <1>1, FlattenTyped

\* A quoted text stands at p, and is the word that is read there.
StandsAt(text, p, e) ==
  /\ p \in 1..Len(text) /\ p + Len(e) + 1 \in 1..Len(text)
  /\ text[p] = Quote /\ text[p + Len(e) + 1] = Quote
  /\ \A k \in 1..Len(e) : text[p + k] = e[k]

ReadsWord(text, f, p, e) == WordAt(text, f, p) = <<e>> \o f[p + Len(e) + 2]

LEMMA QuotedWord ==
  ASSUME NEW U, NEW text, Numbered(text), NEW f, NEW p, NEW e \in Seq(U),
         StandsAt(text, p, e), Sealed(e), e # <<>> => e[Len(e)] # Backslash
  PROVE  ReadsWord(text, f, p, e)
<1>1. PICK n \in Nat : DOMAIN text = 1..n /\ Len(text) = n
  BY DEF Numbered
<1>2. PICK a \in Nat : a = Len(e)
  BY LenProperties
<1>3. /\ p \in 1..n /\ p + a + 1 \in 1..n /\ text[p] = Quote /\ text[p + a + 1] = Quote
      /\ \A k \in 1..a : text[p + k] = e[k]
  BY <1>1, <1>2 DEF StandsAt
<1>4. /\ \A k \in 1..a : e[k] = Quote => k > 1 /\ e[k - 1] = Backslash
      /\ a # 0 => e[a] # Backslash
  <2>1. a # 0 => e # <<>>
    BY <1>2
  <2> QED BY <1>2, <2>1 DEF Sealed, Fenced
<1> DEFINE T == Closing(text, p)
           m == p + a + 1
<1>5. m \in T
  <2>1. m \in At(text, {Quote}) /\ m > p
    BY <1>1, <1>2, <1>3 DEF At
  <2>2. m > p + 1 => text[m - 1] # Backslash
    <3> SUFFICES ASSUME m > p + 1 PROVE text[m - 1] # Backslash
      OBVIOUS
    <3>1. a # 0 /\ a \in 1..a /\ m - 1 = p + a
      BY <1>2, <1>3
    <3>2. text[m - 1] = e[a]
      BY <1>3, <3>1
    <3> QED BY <1>4, <3>1, <3>2
  <2> QED BY <2>1, <2>2 DEF Closing
<1>6. ASSUME NEW q \in T PROVE m <= q
  <2> SUFFICES ASSUME q < m PROVE FALSE
    BY <1>1, <1>2, <1>3 DEF Closing, At
  <2>1. q \in 1..n /\ q > p /\ text[q] = Quote /\ (q > p + 1 => text[q - 1] # Backslash)
    BY <1>1 DEF Closing, At
  <2>2. PICK k \in 1..a : q = p + k
    <3>1. q - p \in 1..a /\ q = p + (q - p)
      BY <1>2, <1>3, <2>1
    <3> QED BY <3>1
  <2>3. e[k] = Quote
    BY <1>3, <2>1, <2>2
  <2>4. k > 1 /\ e[k - 1] = Backslash
    BY <1>4, <2>3
  <2>5. k - 1 \in 1..a /\ q - 1 = p + (k - 1) /\ q > p + 1
    BY <1>3, <2>2, <2>4
  <2>6. text[q - 1] = Backslash
    BY <1>3, <2>4, <2>5
  <2> QED BY <2>1, <2>5, <2>6
<1>7. T \subseteq Nat
  BY <1>1 DEF Closing, At
<1>8. Min(T) = m
  <2> HIDE DEF T
  <2>1. Min(T) \in T /\ \A q \in T : Min(T) <= q
    BY <1>5, <1>7, MinIs
  <2>2. Min(T) <= m /\ m <= Min(T) /\ Min(T) \in Nat /\ m \in Nat
    BY <1>5, <1>6, <1>7, <2>1
  <2> QED BY <2>2
<1>9. SubSeq(text, p + 1, m - 1) = e
  <2>1. p + 1 \in Int /\ m - 1 \in Int /\ m - 1 = p + a /\ (p + a) - (p + 1) + 1 = a
    BY <1>2, <1>3
  <2>2. \A k \in 1..a : e[k] \in U
    BY <1>2, ElementOfSeq
  <2>3. ASSUME NEW i \in (p + 1)..(p + a) PROVE text[i] \in U
    <3>1. i - p \in 1..a /\ p + (i - p) = i
      BY <1>2, <1>3
    <3> QED BY <1>3, <2>2, <3>1
  <2>4. PICK b \in Int, c \in Int : b = p + 1 /\ c = p + a
    BY <1>3
  <2>5. \A i \in b..c : text[i] \in U
    BY <2>3, <2>4
  <2> DEFINE s == SubSeq(text, b, c)
  <2>6. /\ s \in Seq(U) /\ Len(s) = IF b <= c THEN c - b + 1 ELSE 0
        /\ \A i \in 1..(c - b + 1) : s[i] = text[b + i - 1]
    BY <2>5, SubSeqProperties
  <2> HIDE DEF s
  <2>7. Len(s) = a
    BY <1>2, <1>3, <2>4, <2>6
  <2>8. ASSUME NEW i \in 1..a PROVE s[i] = e[i]
    <3>1. i \in 1..(c - b + 1) /\ b + i - 1 = p + i
      BY <1>3, <2>4
    <3> QED BY <1>3, <2>6, <3>1
  <2>9. s = e
    BY <1>2, <2>6, <2>7, <2>8, SeqEqual
  <2> QED BY <2>1, <2>4, <2>9 DEF s
<1>10. p # Len(text) + 1 /\ Quote \notin White
  <2>1. p # Len(text) + 1
    BY <1>1, <1>3
  <2>2. Quote \notin White
    BY DEF Quote, White
  <2> QED BY <2>1, <2>2
<1>11. WordAt(text, f, p) = <<SubSeq(text, p + 1, m - 1)>> \o f[m + 1]
  BY <1>3, <1>5, <1>8, <1>10 DEF WordAt
<1>12. m + 1 = p + Len(e) + 2
  BY <1>2, <1>3
<1> QED BY <1>9, <1>11, <1>12 DEF ReadsWord

\* A line that has two values in quotes behind echo, and a comment at its end.
EchoLine(e, d) ==
  <<"\t", "echo", " ">> \o (<<Quote>> \o e \o <<Quote>>) \o <<" ", " ">>
    \o (<<Quote>> \o d \o <<Quote>>) \o <<" ", Hash, Quote>>

\* From the command to the last quote, and the whole of it.
EchoText(u, e, d) ==
  /\ u[1] = "echo" /\ u[2] = " " /\ StandsAt(u, 3, e)
  /\ u[Len(e) + 5] = " " /\ u[Len(e) + 6] = " " /\ StandsAt(u, Len(e) + 7, d)

EchoShape(t, e, d) ==
  LET end == Len(e) + Len(d) + 12 IN
  /\ Len(t) = end /\ DOMAIN t = 1..end
  /\ t[1] = "\t" /\ t[end - 2] = " " /\ t[end - 1] = Hash /\ t[end] = Quote
  /\ t[2] = "echo" /\ t[3] = " " /\ t[4] = Quote
  /\ \A k \in 1..Len(e) : t[4 + k] = e[k]
  /\ t[Len(e) + 5] = Quote /\ t[Len(e) + 6] = " " /\ t[Len(e) + 7] = " " /\ t[Len(e) + 8] = Quote
  /\ \A k \in 1..Len(d) : t[Len(e) + 8 + k] = d[k]
  /\ t[end - 3] = Quote

\* Short sequences.
LEMMA One == ASSUME NEW U, NEW x \in U PROVE LET s == <<x>> IN s \in Seq(U) /\ Len(s) = 1 /\ s[1] = x
OBVIOUS

LEMMA Two ==
  ASSUME NEW U, NEW x \in U, NEW y \in U
  PROVE  LET s == <<x, y>> IN s \in Seq(U) /\ Len(s) = 2 /\ s[1] = x /\ s[2] = y
OBVIOUS

LEMMA Three ==
  ASSUME NEW U, NEW x \in U, NEW y \in U, NEW z \in U
  PROVE  LET s == <<x, y, z>>
         IN  s \in Seq(U) /\ Len(s) = 3 /\ s[1] = x /\ s[2] = y /\ s[3] = z
OBVIOUS

\* j is t behind s, with their lengths.
Placed(U, j, s, t, m, l) ==
  /\ j \in Seq(U) /\ Len(j) = m + l /\ m \in Nat /\ l \in Nat
  /\ \A k \in 1..m : j[k] = s[k]
  /\ \A k \in 1..l : j[m + k] = t[k]

LEMMA Places ==
  ASSUME NEW U, NEW s \in Seq(U), NEW t \in Seq(U), NEW m, NEW l, m = Len(s), l = Len(t)
  PROVE  Placed(U, s \o t, s, t, m, l)
<1>1. s \o t \in Seq(U) /\ Follows(s \o t, s, t)
  BY ConcatProperties, JoinedFollows
<1> QED BY <1>1 DEF Follows, Placed

LEMMA FenceIs ==
  ASSUME NEW U, Quote \in U, NEW e \in Seq(U)
  PROVE  LET r == <<Quote>> \o e \o <<Quote>> IN
         /\ r \in Seq(U) /\ Len(r) = Len(e) + 2 /\ r[1] = Quote /\ r[Len(e) + 2] = Quote
         /\ \A k \in 1..Len(e) : r[1 + k] = e[k]
<1> DEFINE x == <<Quote>>
           y == x \o e
           z == y \o x
           a == Len(e)
<1>1. x \in Seq(U) /\ Len(x) = 1 /\ x[1] = Quote
  BY One
<1>2. z = <<Quote>> \o e \o <<Quote>> /\ a = Len(e)
  OBVIOUS
<1> HIDE DEF x, a
<1>3. /\ y \in Seq(U) /\ a \in Nat /\ Len(y) = 1 + a /\ \A k \in 1..1 : y[k] = x[k]
      /\ \A k \in 1..a : y[1 + k] = e[k]
  <2>1. Placed(U, y, x, e, 1, a)
    BY <1>1, <1>2, Places
  <2> QED BY <2>1 DEF Placed
<1> HIDE DEF y
<1>4. /\ z \in Seq(U) /\ Len(z) = (1 + a) + 1 /\ \A k \in 1..(1 + a) : z[k] = y[k]
      /\ \A k \in 1..1 : z[(1 + a) + k] = x[k]
  <2>1. Placed(U, z, y, x, 1 + a, 1)
    BY <1>1, <1>3, Places
  <2> QED BY <2>1 DEF Placed
<1> HIDE DEF z
<1>5. ASSUME NEW k \in 1..a PROVE z[1 + k] = e[k]
  <2>1. 1 + k \in 1..(1 + a)
    BY <1>3
  <2> QED BY <1>3, <1>4, <2>1
<1>6. z[1] = Quote
  <2>1. 1 \in 1..(1 + a) /\ 1 \in 1..1
    BY <1>3
  <2> QED BY <1>1, <1>3, <1>4, <2>1
<1>7. (1 + a) + 1 = a + 2 /\ z[(1 + a) + 1] = Quote
  BY <1>1, <1>3, <1>4
<1> QED BY <1>2, <1>4, <1>5, <1>6, <1>7

LEMMA EchoLineIs ==
  ASSUME NEW Chars, NEW e \in Seq(Inks(Chars)), NEW d \in Seq(Inks(Chars))
  PROVE  EchoShape(EchoLine(e, d), e, d)
<1> DEFINE U == Inks(Chars)
           a == Len(e)
           b == Len(d)
           p == <<"\t", "echo", " ">>
           x == <<Quote>> \o e \o <<Quote>>
           m == <<" ", " ">>
           y == <<Quote>> \o d \o <<Quote>>
           c == <<" ", Hash, Quote>>
           r == p \o x
           s == r \o m
           t == s \o y
           l == t \o c
<1>1. e \in Seq(U) /\ d \in Seq(U) /\ Quote \in U /\ Hash \in U /\ "\t" \in U /\ "echo" \in U /\ " " \in U
  BY DEF Inks
<1>2. a = Len(e) /\ b = Len(d) /\ a \in Nat /\ b \in Nat
  BY LenProperties
<1>3. l = EchoLine(e, d)
  BY DEF EchoLine
<1> HIDE DEF U, a, b
<1>4. p \in Seq(U) /\ Len(p) = 3 /\ p[1] = "\t" /\ p[2] = "echo" /\ p[3] = " "
  BY <1>1, Three
<1>5. /\ x \in Seq(U) /\ Len(x) = a + 2
      /\ x[1] = Quote /\ x[a + 2] = Quote /\ \A k \in 1..a : x[1 + k] = e[k]
  BY <1>1, <1>2, FenceIs
<1>6. m \in Seq(U) /\ Len(m) = 2 /\ m[1] = " " /\ m[2] = " "
  BY <1>1, Two
<1>7. /\ y \in Seq(U) /\ Len(y) = b + 2
      /\ y[1] = Quote /\ y[b + 2] = Quote /\ \A k \in 1..b : y[1 + k] = d[k]
  BY <1>1, <1>2, FenceIs
<1>8. c \in Seq(U) /\ Len(c) = 3 /\ c[1] = " " /\ c[2] = Hash /\ c[3] = Quote
  BY <1>1, Three
<1> HIDE DEF p, x, m, y, c
<1>9. /\ r \in Seq(U) /\ Len(r) = 3 + (a + 2) /\ \A k \in 1..3 : r[k] = p[k]
      /\ \A k \in 1..(a + 2) : r[3 + k] = x[k]
  <2>1. Placed(U, r, p, x, 3, a + 2)
    BY <1>4, <1>5, Places
  <2> QED BY <2>1 DEF Placed
<1>10. Len(r) = a + 5
  BY <1>2, <1>9
<1> HIDE DEF r
<1>11. /\ s \in Seq(U) /\ Len(s) = (a + 5) + 2 /\ \A k \in 1..(a + 5) : s[k] = r[k]
       /\ \A k \in 1..2 : s[(a + 5) + k] = m[k]
  <2>1. Placed(U, s, r, m, a + 5, 2)
    BY <1>6, <1>9, <1>10, Places
  <2> QED BY <2>1 DEF Placed
<1>12. Len(s) = a + 7
  BY <1>2, <1>11
<1> HIDE DEF s
<1>13. /\ t \in Seq(U) /\ Len(t) = (a + 7) + (b + 2) /\ \A k \in 1..(a + 7) : t[k] = s[k]
       /\ \A k \in 1..(b + 2) : t[(a + 7) + k] = y[k]
  <2>1. Placed(U, t, s, y, a + 7, b + 2)
    BY <1>7, <1>11, <1>12, Places
  <2> QED BY <2>1 DEF Placed
<1>14. Len(t) = a + b + 9
  BY <1>2, <1>13
<1> HIDE DEF t
<1>15. /\ l \in Seq(U) /\ Len(l) = (a + b + 9) + 3 /\ \A k \in 1..(a + b + 9) : l[k] = t[k]
       /\ \A k \in 1..3 : l[(a + b + 9) + k] = c[k]
  <2>1. Placed(U, l, t, c, a + b + 9, 3)
    BY <1>8, <1>13, <1>14, Places
  <2> QED BY <2>1 DEF Placed
<1>16. Len(l) = a + b + 12
  BY <1>2, <1>15
<1> HIDE DEF l
<1>17. DOMAIN l = 1..(a + b + 12)
  BY <1>15, <1>16, LenProperties
<1>18. \A k \in 1..(a + 5) : l[k] = r[k]
  <2> SUFFICES ASSUME NEW k \in 1..(a + 5) PROVE l[k] = r[k]
    OBVIOUS
  <2>1. k \in 1..(a + 7) /\ k \in 1..(a + b + 9)
    BY <1>2
  <2> QED BY <1>11, <1>13, <1>15, <2>1
<1>19. l[1] = "\t" /\ l[2] = "echo" /\ l[3] = " "
  <2>1. 1 \in 1..3 /\ 2 \in 1..3 /\ 3 \in 1..3 /\ 1 \in 1..(a + 5) /\ 2 \in 1..(a + 5) /\ 3 \in 1..(a + 5)
    BY <1>2
  <2> QED BY <1>4, <1>9, <1>18, <2>1
<1>20. \A k \in 1..(a + 2) : l[3 + k] = x[k]
  <2> SUFFICES ASSUME NEW k \in 1..(a + 2) PROVE l[3 + k] = x[k]
    OBVIOUS
  <2>1. 3 + k \in 1..(a + 5)
    BY <1>2
  <2> QED BY <1>9, <1>18, <2>1
<1>21. /\ l[4] = Quote /\ l[a + 5] = Quote
       /\ \A k \in 1..a : l[4 + k] = e[k]
  <2>1. /\ 1 \in 1..(a + 2) /\ a + 2 \in 1..(a + 2) /\ 3 + 1 = 4 /\ 3 + (a + 2) = a + 5
        /\ \A k \in 1..a : 1 + k \in 1..(a + 2) /\ 3 + (1 + k) = 4 + k
    BY <1>2
  <2>2. l[3 + 1] = x[1] /\ l[3 + (a + 2)] = x[a + 2] /\ \A k \in 1..a : l[3 + (1 + k)] = x[1 + k]
    BY <1>20, <2>1
  <2> QED BY <1>5, <2>1, <2>2
<1>22. l[a + 6] = " " /\ l[a + 7] = " "
  <2>1. /\ 1 \in 1..2 /\ 2 \in 1..2 /\ (a + 5) + 1 = a + 6 /\ (a + 5) + 2 = a + 7
        /\ a + 6 \in 1..(a + 7) /\ a + 7 \in 1..(a + 7)
        /\ a + 6 \in 1..(a + b + 9) /\ a + 7 \in 1..(a + b + 9)
    BY <1>2
  <2>2. s[(a + 5) + 1] = " " /\ s[(a + 5) + 2] = " "
    BY <1>6, <1>11, <2>1
  <2> QED BY <1>13, <1>15, <2>1, <2>2
<1>23. \A k \in 1..(b + 2) : l[(a + 7) + k] = y[k]
  <2> SUFFICES ASSUME NEW k \in 1..(b + 2) PROVE l[(a + 7) + k] = y[k]
    OBVIOUS
  <2>1. (a + 7) + k \in 1..(a + b + 9)
    BY <1>2
  <2> QED BY <1>13, <1>15, <2>1
<1>24. /\ l[a + 8] = Quote /\ l[(a + b + 12) - 3] = Quote
       /\ \A k \in 1..b : l[a + 8 + k] = d[k]
  <2>1. /\ 1 \in 1..(b + 2) /\ b + 2 \in 1..(b + 2) /\ (a + 7) + 1 = a + 8
        /\ (a + 7) + (b + 2) = (a + b + 12) - 3
        /\ \A k \in 1..b : 1 + k \in 1..(b + 2) /\ (a + 7) + (1 + k) = a + 8 + k
    BY <1>2
  <2>2. /\ l[(a + 7) + 1] = y[1] /\ l[(a + 7) + (b + 2)] = y[b + 2]
        /\ \A k \in 1..b : l[(a + 7) + (1 + k)] = y[1 + k]
    BY <1>23, <2>1
  <2> QED BY <1>7, <2>1, <2>2
<1>25. /\ l[(a + b + 12) - 2] = " " /\ l[(a + b + 12) - 1] = Hash /\ l[a + b + 12] = Quote
  <2>1. /\ 1 \in 1..3 /\ 2 \in 1..3 /\ 3 \in 1..3 /\ (a + b + 9) + 1 = (a + b + 12) - 2
        /\ (a + b + 9) + 2 = (a + b + 12) - 1 /\ (a + b + 9) + 3 = a + b + 12
    BY <1>2
  <2>2. l[(a + b + 9) + 1] = " " /\ l[(a + b + 9) + 2] = Hash /\ l[(a + b + 9) + 3] = Quote
    BY <1>8, <1>15, <2>1
  <2> QED BY <2>1, <2>2
<1>26. EchoShape(l, e, d)
  BY <1>2, <1>16, <1>17, <1>19, <1>21, <1>22, <1>24, <1>25 DEF EchoShape
<1> QED BY <1>3, <1>26

\* A part of a sequence, and ends of sets.
LEMMA Piece ==
  ASSUME NEW s, NEW m \in Nat, NEW n \in Nat, m <= n
  PROVE  LET r == SubSeq(s, m, n) IN
         /\ DOMAIN r = 1..(n - m + 1) /\ Len(r) = n - m + 1
         /\ \A i \in 1..(n - m + 1) : r[i] = s[m + i - 1]
<1> DEFINE S == {s[i] : i \in m..n}
           r == SubSeq(s, m, n)
<1>1. \A i \in m..n : s[i] \in S
  OBVIOUS
<1> HIDE DEF S
<1>2. /\ r \in Seq(S) /\ Len(r) = IF m <= n THEN n - m + 1 ELSE 0
      /\ \A i \in 1..(n - m + 1) : r[i] = s[m + i - 1]
  BY <1>1, SubSeqProperties
<1>3. Len(r) = n - m + 1 /\ DOMAIN r = 1..Len(r)
  BY <1>2, LenProperties
<1> QED BY <1>2, <1>3

LEMMA MinAt ==
  ASSUME NEW T, T \subseteq Nat, NEW n \in T, \A m \in T : n <= m
  PROVE  Min(T) = n
<1>1. Min(T) \in T /\ \A m \in T : Min(T) <= m
  BY MinIs
<1>2. Min(T) <= n /\ n <= Min(T) /\ Min(T) \in Nat /\ n \in Nat
  BY <1>1
<1> QED BY <1>2

LEMMA MaxAt ==
  ASSUME NEW T, T \subseteq Nat, NEW n \in T, \A m \in T : m <= n
  PROVE  Max(T) = n
<1>1. n \in Nat /\ \A m \in T : m \in Nat /\ n >= m
  OBVIOUS
<1>2. \E x \in T : \A y \in T : x >= y
  BY <1>1
<1>3. Max(T) \in T /\ \A y \in T : Max(T) >= y
  BY <1>2 DEF Max
<1>4. Max(T) >= n /\ Max(T) <= n /\ Max(T) \in Nat
  BY <1>1, <1>3
<1> QED BY <1>1, <1>4

\* The comment is cut off, and the white space around what is left.
LEMMA EchoTrimmed ==
  ASSUME NEW U, NEW e \in Seq(U), NEW d \in Seq(U), Sealed(e), Sealed(d), NEW t, EchoShape(t, e, d)
  PROVE  LET u == TrimWhite(TrimComments(t)) IN
         /\ DOMAIN u = 1..(Len(e) + Len(d) + 8) /\ Len(u) = Len(e) + Len(d) + 8
         /\ \A i \in 1..(Len(e) + Len(d) + 8) : u[i] = t[i + 1]
<1>1. PICK a \in Nat, b \in Nat : a = Len(e) /\ b = Len(d)
  BY LenProperties
<1>2. PICK end \in Nat : end = a + b + 12
  OBVIOUS
<1>3. /\ Len(t) = end /\ DOMAIN t = 1..end
      /\ t[1] = "\t" /\ t[end - 2] = " " /\ t[end - 1] = Hash /\ t[end] = Quote
      /\ t[2] = "echo" /\ t[3] = " " /\ t[4] = Quote
      /\ \A k \in 1..a : t[4 + k] = e[k]
      /\ t[a + 5] = Quote /\ t[a + 6] = " " /\ t[a + 7] = " " /\ t[a + 8] = Quote
      /\ \A k \in 1..b : t[a + 8 + k] = d[k]
      /\ t[end - 3] = Quote
  BY <1>1, <1>2 DEF EchoShape
<1>4. /\ \A k \in 1..a : e[k] # Hash
      /\ \A k \in 1..b : d[k] # Hash
  BY <1>1 DEF Sealed
<1>5. "\t" # Hash /\ "echo" # Hash /\ " " # Hash /\ Quote # Hash
  BY DEF Hash, Quote
<1>6. ASSUME NEW q \in 1..(end - 2) PROVE t[q] # Hash
  <2>1. CASE q <= 4
    <3>1. q = 1 \/ q = 2 \/ q = 3 \/ q = 4
      BY <1>2, <2>1
    <3> QED BY <1>3, <1>5, <3>1
  <2>2. CASE q > 4 /\ q <= a + 4
    <3>1. q - 4 \in 1..a /\ 4 + (q - 4) = q
      BY <1>2, <2>2
    <3>2. t[4 + (q - 4)] = e[q - 4] /\ e[q - 4] # Hash
      BY <1>3, <1>4, <3>1
    <3> QED BY <3>1, <3>2
  <2>3. CASE q > a + 4 /\ q <= a + 8
    <3>1. q = a + 5 \/ q = a + 6 \/ q = a + 7 \/ q = a + 8
      BY <1>2, <2>3
    <3> QED BY <1>3, <1>5, <3>1
  <2>4. CASE q > a + 8 /\ q <= a + 8 + b
    <3>1. q - (a + 8) \in 1..b /\ a + 8 + (q - (a + 8)) = q
      BY <1>2, <2>4
    <3>2. t[a + 8 + (q - (a + 8))] = d[q - (a + 8)] /\ d[q - (a + 8)] # Hash
      BY <1>3, <1>4, <3>1
    <3> QED BY <3>1, <3>2
  <2>5. CASE q > a + 8 + b
    <3>1. q = end - 3 \/ q = end - 2
      BY <1>2, <2>5
    <3> QED BY <1>3, <1>5, <3>1
  <2>6. q <= 4 \/ (q > 4 /\ q <= a + 4) \/ (q > a + 4 /\ q <= a + 8)
          \/ (q > a + 8 /\ q <= a + 8 + b) \/ q > a + 8 + b
    BY <1>2
  <2> QED BY <2>1, <2>2, <2>3, <2>4, <2>5, <2>6
<1> DEFINE s == TrimComments(t)
<1>7. s = SubSeq(t, 1, end - 2)
  <2> DEFINE T == At(t, {Hash})
  <2>1. DOMAIN t = 1..end /\ t[end - 1] = Hash
    BY <1>3
  <2>2. end - 1 \in T
    <3>1. end - 1 \in 1..end
      BY <1>2
    <3> QED BY <2>1, <3>1 DEF At
  <2>3. T \subseteq Nat
    <3>1. ASSUME NEW m \in T PROVE m \in 1..end
      BY <2>1 DEF At
    <3>2. 1..end \subseteq Nat
      OBVIOUS
    <3> HIDE DEF T
    <3> QED BY <3>1, <3>2
  <2>4. ASSUME NEW m \in T PROVE end - 1 <= m
    <3>1. m \in 1..end /\ t[m] = Hash
      BY <2>1 DEF At
    <3>2. m \notin 1..(end - 2)
      BY <1>6, <3>1
    <3> QED BY <1>2, <3>1, <3>2
  <2>5. Min(T) = end - 1
    <3> HIDE DEF T
    <3> QED BY <2>2, <2>3, <2>4, MinAt
  <2>6. T # {} /\ (end - 1) - 1 = end - 2
    BY <1>2, <2>2
  <2> QED BY <2>5, <2>6 DEF TrimComments
<1>8. /\ DOMAIN s = 1..(end - 2)
      /\ \A i \in 1..(end - 2) : s[i] = t[i]
  <2>1. PICK n \in Nat : n = end - 2
    BY <1>2
  <2>2. 1 <= n /\ 1 \in Nat /\ n - 1 + 1 = n /\ \A i \in 1..n : 1 + i - 1 = i
    BY <1>2, <2>1
  <2>3. s = SubSeq(t, 1, n)
    BY <1>7, <2>1
  <2> HIDE DEF s
  <2>4. /\ DOMAIN s = 1..(n - 1 + 1) /\ \A i \in 1..(n - 1 + 1) : s[i] = t[1 + i - 1]
    BY <2>2, <2>3, Piece
  <2> QED BY <2>1, <2>2, <2>4
<1> HIDE DEF s
<1> DEFINE ink == DOMAIN s \ At(s, White)
<1>9. "\t" \in White /\ " " \in White /\ "echo" \notin White /\ Quote \notin White
  BY DEF White, Quote
<1>10. Min(ink) = 2 /\ Max(ink) = end - 3 /\ ink # {}
  <2>1. /\ 1 \in 1..(end - 2) /\ 2 \in 1..(end - 2) /\ end - 2 \in 1..(end - 2) /\ end - 3 \in 1..(end - 2)
    BY <1>2
  <2>2. s[1] = "\t" /\ s[2] = "echo" /\ s[end - 2] = " " /\ s[end - 3] = Quote
    BY <1>3, <1>8, <2>1
  <2>3. 2 \in ink /\ end - 3 \in ink /\ 1 \notin ink /\ end - 2 \notin ink
    BY <1>8, <1>9, <2>1, <2>2 DEF At
  <2>4. ink \subseteq 1..(end - 2)
    BY <1>8
  <2> HIDE DEF ink
  <2>5. ASSUME NEW m \in ink PROVE 2 <= m /\ m <= end - 3
    <3>1. m \in 1..(end - 2) /\ m # 1 /\ m # end - 2
      BY <2>3, <2>4
    <3> QED BY <1>2, <3>1
  <2>6. ink \subseteq Nat
    BY <2>4
  <2> QED BY <2>3, <2>5, <2>6, MinAt, MaxAt
<1> DEFINE u == TrimWhite(s)
<1>11. u = SubSeq(s, 2, end - 3)
  BY <1>10 DEF TrimWhite
<1>12. PICK n \in Nat, w \in Nat : n = end - 3 /\ w = a + b + 8
  BY <1>2
<1>13. 2 <= n /\ 2 \in Nat /\ n - 2 + 1 = w /\ \A i \in 1..w : 2 + i - 1 = i + 1 /\ i + 1 \in 1..(end - 2)
  BY <1>2, <1>12
<1> HIDE DEF u, ink
<1>14. /\ DOMAIN u = 1..(n - 2 + 1) /\ Len(u) = n - 2 + 1
       /\ \A i \in 1..(n - 2 + 1) : u[i] = s[2 + i - 1]
  BY <1>11, <1>12, <1>13, Piece
<1>15. DOMAIN u = 1..w /\ Len(u) = w /\ \A i \in 1..w : u[i] = t[i + 1]
  BY <1>8, <1>13, <1>14
<1> QED BY <1>1, <1>12, <1>15 DEF u, s

\* What is left has the shape of the command alone.
LEMMA EchoTextIs ==
  ASSUME NEW U, NEW e \in Seq(U), NEW d \in Seq(U), Sealed(e), Sealed(d), NEW t, EchoShape(t, e, d)
  PROVE  LET u == TrimWhite(TrimComments(t)) IN
         /\ Numbered(u) /\ Len(u) = Len(e) + Len(d) + 8 /\ EchoText(u, e, d)
<1> DEFINE u == TrimWhite(TrimComments(t))
<1>1. PICK a \in Nat, b \in Nat : a = Len(e) /\ b = Len(d)
  BY LenProperties
<1>2. PICK w \in Nat : w = a + b + 8
  OBVIOUS
<1>3. DOMAIN u = 1..w /\ Len(u) = w /\ \A i \in 1..w : u[i] = t[i + 1]
  BY <1>1, <1>2, EchoTrimmed
<1> HIDE DEF u
<1>4. /\ t[2] = "echo" /\ t[3] = " " /\ t[4] = Quote
      /\ \A k \in 1..a : t[4 + k] = e[k]
      /\ t[a + 5] = Quote /\ t[a + 6] = " " /\ t[a + 7] = " " /\ t[a + 8] = Quote
      /\ \A k \in 1..b : t[a + 8 + k] = d[k]
      /\ t[(a + b + 12) - 3] = Quote
  BY <1>1 DEF EchoShape
<1>5. u[1] = "echo" /\ u[2] = " " /\ u[a + 5] = " " /\ u[a + 6] = " "
  <2>1. /\ 1 \in 1..w /\ 2 \in 1..w /\ a + 5 \in 1..w /\ a + 6 \in 1..w
        /\ 1 + 1 = 2 /\ 2 + 1 = 3 /\ (a + 5) + 1 = a + 6 /\ (a + 6) + 1 = a + 7
    BY <1>2
  <2> QED BY <1>3, <1>4, <2>1
<1>6. StandsAt(u, 3, e)
  <2>1. /\ 3 \in 1..w /\ 3 + a + 1 \in 1..w /\ 3 + 1 = 4 /\ (3 + a + 1) + 1 = a + 5
        /\ \A k \in 1..a : 3 + k \in 1..w /\ (3 + k) + 1 = 4 + k
    BY <1>2
  <2>2. u[3] = Quote /\ u[3 + a + 1] = Quote /\ \A k \in 1..a : u[3 + k] = e[k]
    <3>1. u[3] = t[4] /\ u[3 + a + 1] = t[a + 5]
      BY <1>3, <2>1
    <3>2. ASSUME NEW k \in 1..a PROVE u[3 + k] = e[k]
      <4>1. u[3 + k] = t[4 + k]
        BY <1>3, <2>1
      <4> QED BY <1>4, <4>1
    <3> QED BY <1>4, <3>1, <3>2
  <2> QED BY <1>1, <1>3, <2>1, <2>2 DEF StandsAt
<1>7. StandsAt(u, a + 7, d)
  <2>1. /\ a + 7 \in 1..w /\ (a + 7) + b + 1 \in 1..w /\ (a + 7) + 1 = a + 8
        /\ ((a + 7) + b + 1) + 1 = (a + b + 12) - 3
        /\ \A k \in 1..b : (a + 7) + k \in 1..w /\ ((a + 7) + k) + 1 = a + 8 + k
    BY <1>2
  <2>2. u[a + 7] = Quote /\ u[(a + 7) + b + 1] = Quote /\ \A k \in 1..b : u[(a + 7) + k] = d[k]
    <3>1. u[a + 7] = t[a + 8] /\ u[(a + 7) + b + 1] = t[(a + b + 12) - 3]
      BY <1>3, <2>1
    <3>2. ASSUME NEW k \in 1..b PROVE u[(a + 7) + k] = d[k]
      <4>1. u[(a + 7) + k] = t[a + 8 + k]
        BY <1>3, <2>1
      <4> QED BY <1>4, <4>1
    <3> QED BY <1>4, <3>1, <3>2
  <2> QED BY <1>1, <1>3, <2>1, <2>2 DEF StandsAt
<1>8. Numbered(u)
  BY <1>3 DEF Numbered
<1> QED BY <1>1, <1>2, <1>3, <1>5, <1>6, <1>7, <1>8 DEF EchoText, u

\* Its words are the command and what stands between the quotes.
LEMMA EchoWords ==
  ASSUME NEW U, NEW e \in Seq(U), NEW d \in Seq(U), Sealed(e), Sealed(d),
         e # <<>> => e[Len(e)] # Backslash, d # <<>> => d[Len(d)] # Backslash,
         NEW u, Numbered(u), Len(u) = Len(e) + Len(d) + 8, EchoText(u, e, d)
  PROVE  Words(u) = <<<<"echo">>>> \o (<<e>> \o (<<d>> \o <<>>))
<1>1. PICK a \in Nat, b \in Nat : a = Len(e) /\ b = Len(d)
  BY LenProperties
<1>2. PICK w \in Nat : w = a + b + 8
  OBVIOUS
<1>3. Len(u) = w /\ DOMAIN u = 1..w
  BY <1>1, <1>2 DEF Numbered
<1>4. /\ u[1] = "echo" /\ u[2] = " " /\ u[a + 5] = " " /\ u[a + 6] = " "
      /\ StandsAt(u, 3, e) /\ StandsAt(u, a + 7, d)
  BY <1>1 DEF EchoText
<1>5. " " \in White /\ "echo" \notin White /\ "echo" # Quote
  BY DEF White, Quote
<1> DEFINE f == From(u)
<1>6. \A p \in 1..(w + 1) : f[p] = WordAt(u, f, p)
  BY <1>3, FromIs
<1> HIDE DEF f
<1>7. ASSUME NEW p \in 1..w, u[p] = " " PROVE f[p] = f[p + 1]
  <2>1. p \in 1..(w + 1) /\ p # w + 1
    BY <1>2
  <2> QED BY <1>3, <1>5, <1>6, <1>7, <2>1 DEF WordAt
<1>8. f[w + 1] = <<>>
  <2>1. w + 1 \in 1..(w + 1)
    BY <1>2
  <2> QED BY <1>3, <1>6, <2>1 DEF WordAt
<1>9. f[a + 7] = <<d>> \o <<>>
  <2>1. WordAt(u, f, a + 7) = <<d>> \o f[(a + 7) + Len(d) + 2]
    <3>1. ReadsWord(u, f, a + 7, d)
      BY <1>4, QuotedWord
    <3> QED BY <3>1 DEF ReadsWord
  <2>2. a + 7 \in 1..(w + 1) /\ (a + 7) + Len(d) + 2 = w + 1
    BY <1>1, <1>2
  <2> QED BY <1>6, <1>8, <2>1, <2>2
<1>10. f[a + 5] = f[a + 7]
  <2>1. a + 5 \in 1..w /\ a + 6 \in 1..w /\ (a + 5) + 1 = a + 6 /\ (a + 6) + 1 = a + 7
    BY <1>2
  <2>2. f[a + 5] = f[(a + 5) + 1] /\ f[a + 6] = f[(a + 6) + 1]
    BY <1>4, <1>7, <2>1
  <2> QED BY <2>1, <2>2
<1>11. f[3] = <<e>> \o f[a + 5]
  <2>1. WordAt(u, f, 3) = <<e>> \o f[3 + Len(e) + 2]
    <3>1. ReadsWord(u, f, 3, e)
      BY <1>4, QuotedWord
    <3> QED BY <3>1 DEF ReadsWord
  <2>2. 3 \in 1..(w + 1) /\ 3 + Len(e) + 2 = a + 5
    BY <1>1, <1>2
  <2> QED BY <1>6, <2>1, <2>2
<1>12. f[2] = f[3]
  <2>1. 2 \in 1..w /\ 2 + 1 = 3
    BY <1>2
  <2> QED BY <1>4, <1>7, <2>1
<1>13. f[1] = <<<<"echo">>>> \o f[2]
  <2> DEFINE T == {Len(u) + 1} \cup {i \in At(u, White) : i > 1}
  <2>1. 1 \in 1..(w + 1) /\ 2 \in 1..w /\ 1 # w + 1
    BY <1>2
  <2>2. 2 \in T
    <3>1. 2 \in DOMAIN u /\ u[2] \in White /\ 2 > 1
      <4>1. u[2] \in White
        BY <1>4, <1>5
      <4>2. 2 \in DOMAIN u
        BY <1>3, <2>1
      <4> QED BY <4>1, <4>2
    <3>2. 2 \in At(u, White)
      BY <3>1 DEF At
    <3> QED BY <3>1, <3>2
  <2>3. T \subseteq Nat
    BY <1>3 DEF At
  <2>4. \A m \in T : 2 <= m
    BY <1>2, <1>3 DEF At
  <2>5. Min(T) = 2
    <3> HIDE DEF T
    <3> QED BY <2>2, <2>3, <2>4, MinAt
  <2>6. AfterWord(u, 1) = 2
    BY <2>5 DEF AfterWord
  <2> HIDE DEF T
  <2>7. SubSeq(u, 1, 2 - 1) = <<"echo">>
    <3> DEFINE r == SubSeq(u, 1, 1)
               S == {"echo"}
    <3>1. 1 \in Int /\ \A i \in 1..1 : u[i] \in S
      <4>1. \A i \in 1..1 : i = 1
        OBVIOUS
      <4>2. u[1] \in S
        BY <1>4
      <4> HIDE DEF S
      <4> QED BY <4>1, <4>2
    <3> HIDE DEF S
    <3>2. /\ r \in Seq(S) /\ Len(r) = IF 1 <= 1 THEN 1 - 1 + 1 ELSE 0
          /\ \A i \in 1..(1 - 1 + 1) : r[i] = u[1 + i - 1]
      BY <3>1, SubSeqProperties
    <3> HIDE DEF r
    <3>3. Len(r) = 1 /\ r[1] = "echo"
      <4>1. 1 \in 1..(1 - 1 + 1) /\ 1 + 1 - 1 = 1
        OBVIOUS
      <4>2. r[1] = u[1 + 1 - 1]
        BY <3>2, <4>1
      <4>3. Len(r) = 1
        BY <3>2
      <4>4. u[1 + 1 - 1] = u[1]
        BY <4>1
      <4> QED BY <1>4, <4>2, <4>3, <4>4
    <3>4. "echo" \in S
      BY DEF S
    <3>5. LET s == <<"echo">> IN s \in Seq(S) /\ Len(s) = 1 /\ s[1] = "echo"
      BY <3>4, One
    <3>6. PICK s : s = <<"echo">> /\ s \in Seq(S) /\ Len(s) = 1 /\ s[1] = "echo"
      BY <3>5
    <3>7. \A i \in 1..Len(r) : r[i] = s[i]
      BY <3>3, <3>6
    <3>8. r = s
      BY <3>2, <3>3, <3>6, <3>7, SeqEqual
    <3>9. 2 - 1 = 1
      OBVIOUS
    <3> QED BY <3>6, <3>8, <3>9 DEF r
  <2>8. WordAt(u, f, 1) = <<SubSeq(u, 1, 2 - 1)>> \o f[2]
    BY <1>3, <1>4, <1>5, <2>1, <2>6 DEF WordAt
  <2> QED BY <1>6, <2>1, <2>7, <2>8
<1>14. Words(u) = f[1]
  BY WordsAre DEF f
<1> QED BY <1>9, <1>10, <1>11, <1>12, <1>13, <1>14

LEMMA EchoedArgs ==
  ASSUME NEW U, NEW e \in Seq(U), NEW d \in Seq(U)
  PROVE  Emitted(<<<<"echo">>>> \o (<<e>> \o (<<d>> \o <<>>)))
           = [op |-> "echo", args |-> <<Bounced(e), Bounced(d)>>]
<1> DEFINE V == {<<"echo">>, e, d}
           c == <<"echo">>
           words == <<c, e, d>>
<1>1. c \in V /\ e \in V /\ d \in V
  OBVIOUS
<1>2. c[1] = "echo"
  OBVIOUS
<1>3. c = <<"echo">>
  OBVIOUS
<1> HIDE DEF c, V
<1>4. words \in Seq(V) /\ Len(words) = 3 /\ words[1] = c /\ words[2] = e /\ words[3] = d
  BY <1>1, Three
<1> HIDE DEF words
<1>5. <<c>> \o (<<e>> \o (<<d>> \o <<>>)) = words
  <2> DEFINE i == <<c>>
             x == <<e>>
             y == <<d>>
             k == x \o y
             j == i \o k
  <2>1. /\ i \in Seq(V) /\ Len(i) = 1 /\ i[1] = c
        /\ x \in Seq(V) /\ Len(x) = 1 /\ x[1] = e
        /\ y \in Seq(V) /\ Len(y) = 1 /\ y[1] = d
    BY <1>1, One
  <2> HIDE DEF i, x, y
  <2>2. Placed(V, k, x, y, 1, 1)
    BY <2>1, Places
  <2> HIDE DEF k
  <2>3. k \in Seq(V) /\ Len(k) = 2 /\ k[1] = e /\ k[2] = d
    <3>1. 1 \in 1..1 /\ 1 + 1 = 2
      OBVIOUS
    <3>2. k \in Seq(V) /\ Len(k) = 1 + 1 /\ k[1] = x[1] /\ k[1 + 1] = y[1]
      BY <2>2, <3>1 DEF Placed
    <3> QED BY <2>1, <3>1, <3>2
  <2>4. Placed(V, j, i, k, 1, 2)
    BY <2>1, <2>3, Places
  <2> HIDE DEF j
  <2>5. j \in Seq(V) /\ Len(j) = 3 /\ j[1] = c /\ j[2] = e /\ j[3] = d
    <3>1. 1 \in 1..1 /\ 1 \in 1..2 /\ 2 \in 1..2 /\ 1 + 1 = 2 /\ 1 + 2 = 3
      OBVIOUS
    <3>2. j \in Seq(V) /\ Len(j) = 1 + 2 /\ j[1] = i[1] /\ j[1 + 1] = k[1] /\ j[1 + 2] = k[2]
      BY <2>4, <3>1 DEF Placed
    <3> QED BY <2>1, <2>3, <3>1, <3>2
  <2>6. \A n \in 1..3 : j[n] = words[n]
    <3>1. \A n \in 1..3 : n = 1 \/ n = 2 \/ n = 3
      OBVIOUS
    <3> QED BY <1>4, <2>5, <3>1
  <2>7. j = words
    BY <1>4, <2>5, <2>6, SeqEqual
  <2>8. y \o <<>> = y
    BY <2>1, ConcatEmptySeq
  <2> QED BY <2>7, <2>8 DEF i, x, y, k, j
<1>6. DOMAIN words = 1..3
  BY <1>4, LenProperties
<1> DEFINE T == Named(words)
<1>7. 1 \in T
  <2>1. "echo" \in Table
    BY DEF Table
  <2> QED BY <1>3, <1>4, <1>6, <2>1 DEF Named
<1>8. T \subseteq Nat /\ \A m \in T : 1 <= m
  BY <1>6 DEF Named
<1> HIDE DEF T
<1>9. Min(T) = 1 /\ T # {}
  BY <1>7, <1>8, MinAt
<1> DEFINE r == SubSeq(words, 1 + 1, Len(words))
<1>10. DOMAIN r = 1..2 /\ r[1] = e /\ r[2] = d
  <2>1. 1 + 1 = 2 /\ 2 <= 3 /\ 3 - 2 + 1 = 2 /\ 2 + 1 - 1 = 2 /\ 2 + 2 - 1 = 3 /\ 2 \in Nat /\ 3 \in Nat
        /\ 1 \in 1..(3 - 2 + 1) /\ 2 \in 1..(3 - 2 + 1)
    OBVIOUS
  <2>2. r = SubSeq(words, 2, 3)
    BY <1>4, <2>1
  <2> HIDE DEF r
  <2>3. /\ DOMAIN r = 1..(3 - 2 + 1)
        /\ \A i \in 1..(3 - 2 + 1) : r[i] = words[2 + i - 1]
    BY <2>1, <2>2, Piece
  <2>4. r[1] = words[2 + 1 - 1] /\ r[2] = words[2 + 2 - 1]
    BY <2>1, <2>3
  <2> QED BY <1>4, <2>1, <2>3, <2>4
<1> HIDE DEF r
<1>11. Arguments("echo", r) = <<Bounced(e), Bounced(d)>>
  <2>1. Arguments("echo", r) = [i \in 1..2 |-> Bounced(r[i])]
    BY <1>10 DEF Arguments, Converted
  <2> DEFINE g == [i \in 1..2 |-> Bounced(r[i])]
             x == Bounced(e)
             y == Bounced(d)
  <2>2. g[1] = x /\ g[2] = y /\ DOMAIN g = 1..2 /\ g = [i \in 1..2 |-> g[i]]
    BY <1>10
  <2> HIDE DEF g, x, y
  <2>3. g = <<x, y>>
    <3>1. g \in Seq({x, y}) /\ Len(g) = 2
      <4>1. \A i \in 1..2 : g[i] \in {x, y}
        BY <2>2
      <4>2. [i \in 1..2 |-> g[i]] \in Seq({x, y})
        BY <4>1, IsASeq
      <4>3. g \in Seq({x, y})
        BY <2>2, <4>2
      <4> QED BY <2>2, <4>3, LenProperties
    <3> QED BY <2>2, <3>1
  <2> QED BY <2>1, <2>3 DEF g, x, y
<1>12. words[1][1] = "echo"
  BY <1>2, <1>4
<1>13. Emitted(words) = [op |-> "echo", args |-> Arguments("echo", r)]
  BY <1>9, <1>12 DEF Emitted, T, r
<1> QED BY <1>3, <1>5, <1>11, <1>13 DEF words

\* What is written between quotes, with every quote, backslash and control character
\* behind a backslash, reaches echo as it was, whatever values there are: the parser,
\* the word splitter and the conversion of the escapes agree with each other.
THEOREM EchoesAsWritten ==
  \A Chars : \A values \in SUBSET Seq(Chars) : ReadAsWritten(values)
<1> SUFFICES ASSUME NEW Chars, NEW values \in SUBSET Seq(Chars),
                    NEW v \in values, NEW w \in values, Writable(v), Writable(w)
             PROVE  Command(<<"\t", "echo", " ">> \o Quoted(v) \o <<" ", " ">> \o Quoted(w)
                              \o <<" ", Hash, Quote>>)
                      = [op |-> "echo", args |-> <<v, w>>]
  BY DEF ReadAsWritten
<1> DEFINE e == FlattenSeq(Escapes(v))
           d == FlattenSeq(Escapes(w))
           t == EchoLine(e, d)
           u == TrimWhite(TrimComments(t))
<1>1. /\ e \in Seq(Inks(Chars)) /\ Sealed(e) /\ (e # <<>> => e[Len(e)] # Backslash)
      /\ d \in Seq(Inks(Chars)) /\ Sealed(d) /\ (d # <<>> => d[Len(d)] # Backslash)
  BY WrittenTyped, WrittenSealed
<1>2. Bounced(e) = v /\ Bounced(d) = w
  BY BouncedBack
<1>3. t = <<"\t", "echo", " ">> \o Quoted(v) \o <<" ", " ">> \o Quoted(w) \o <<" ", Hash, Quote>>
  BY QuotedIs DEF EchoLine
<1> HIDE DEF e, d
<1>4. EchoShape(t, e, d)
  BY <1>1, EchoLineIs
<1> HIDE DEF t
<1>5. Numbered(u) /\ Len(u) = Len(e) + Len(d) + 8 /\ EchoText(u, e, d)
  BY <1>1, <1>4, EchoTextIs
<1>6. u # <<>>
  <2>1. Len(e) \in Nat /\ Len(d) \in Nat
    BY <1>1, LenProperties
  <2>2. Len(u) # 0
    BY <1>5, <2>1
  <2> QED BY <2>2
<1>7. Command(t) = Emitted(Words(u))
  BY <1>6 DEF Command
<1> HIDE DEF u
<1>8. Words(u) = <<<<"echo">>>> \o (<<e>> \o (<<d>> \o <<>>))
  BY <1>1, <1>5, EchoWords
<1>9. Emitted(<<<<"echo">>>> \o (<<e>> \o (<<d>> \o <<>>)))
        = [op |-> "echo", args |-> <<Bounced(e), Bounced(d)>>]
  BY <1>1, EchoedArgs
<1> QED BY <1>2, <1>3, <1>7, <1>8, <1>9

-----------------------------------------------------------------------------
(* The digits of a number have that number as their value.                 *)

LEMMA MaxOf ==
  ASSUME NEW T, NEW x \in T, T \subseteq Nat, \A y \in T : x >= y
  PROVE  Max(T) = x
<1>1. Max(T) \in T /\ \A y \in T : Max(T) >= y
  BY DEF Max
<1>2. Max(T) >= x /\ x >= Max(T) /\ Max(T) \in Nat
  BY <1>1
<1> QED BY <1>2

LEMMA MinOf ==
  ASSUME NEW T, NEW x \in T, T \subseteq Nat, \A y \in T : x <= y
  PROVE  Min(T) = x
<1>1. Min(T) \in T /\ \A y \in T : Min(T) <= y
  BY DEF Min
<1>2. Min(T) >= x /\ x >= Min(T) /\ Min(T) \in Nat
  BY <1>1
<1> QED BY <1>2

\* The greatest of places one to i, and those without it.
LEMMA PlacesUpTo ==
  ASSUME NEW i \in Nat \ {0}
  PROVE  1..i # {} /\ Max(1..i) = i /\ (1..i) \ {i} = 1..(i - 1)
<1>1. Max(1..i) = i
  <2>1. i \in 1..i /\ 1..i \subseteq Nat /\ \A y \in 1..i : i >= y
    OBVIOUS
  <2> QED BY <2>1, MaxOf
<1> QED BY <1>1

\* A numeral has a value: there is the function its fold is defined by.
Numbers(f, n, d) ==
  f = [s \in SUBSET (1..n) |-> IF s = {} THEN 0 ELSE 10 * f[s \ {Max(s)}] + d[Max(s)]]

LEMMA NumbersExist ==
  ASSUME NEW n \in Nat, NEW d \in [1..n -> Nat]
  PROVE  \E f : Numbers(f, n, d)
<1> DEFINE Body(f, s) == IF s = {} THEN 0 ELSE 10 * f[s \ {Max(s)}] + d[Max(s)]
           Good(k) == \E f : f = [s \in SUBSET (1..n) |-> f[s]]
                             /\ \A s \in SUBSET (1..k) : f[s] = Body(f, s)
           P == {k \in 0..n : Good(k)}
<1>1. Good(0)
  <2> DEFINE f == [s \in SUBSET (1..n) |-> 0]
  <2>1. f = [s \in SUBSET (1..n) |-> f[s]]
    OBVIOUS
  <2>2. ASSUME NEW s \in SUBSET (1..0) PROVE f[s] = Body(f, s)
    <3>1. s = {} /\ s \in SUBSET (1..n)
      OBVIOUS
    <3> QED BY <3>1
  <2> QED BY <2>1, <2>2
<1>2. ASSUME NEW k \in 1..n, Good(k - 1) PROVE Good(k)
  <2>1. PICK f : f = [s \in SUBSET (1..n) |-> f[s]] /\ \A s \in SUBSET (1..(k - 1)) : f[s] = Body(f, s)
    BY <1>2
  <2> DEFINE g == [s \in SUBSET (1..n) |-> IF k \in s THEN 10 * f[s \ {k}] + d[k] ELSE f[s]]
  <2>2. g = [s \in SUBSET (1..n) |-> g[s]]
    OBVIOUS
  <2>3. ASSUME NEW s \in SUBSET (1..k) PROVE g[s] = Body(g, s)
    <3>1. s \in SUBSET (1..n) /\ s \ {k} \in SUBSET (1..n) /\ k \notin s \ {k}
      OBVIOUS
    <3>2. CASE k \in s
      <4>1. Max(s) = k
        <5>1. k \in s /\ s \subseteq Nat /\ \A y \in s : k >= y
          BY <3>2
        <5> QED BY <5>1, MaxOf
      <4>2. g[s] = 10 * f[s \ {k}] + d[k] /\ g[s \ {k}] = f[s \ {k}] /\ s # {}
        BY <3>1, <3>2
      <4> HIDE DEF g
      <4> QED BY <4>1, <4>2
    <3>3. CASE k \notin s
      <4>1. s \in SUBSET (1..(k - 1))
        BY <3>3
      <4>2. f[s] = Body(f, s) /\ g[s] = f[s]
        BY <2>1, <3>1, <3>3, <4>1
      <4>3. ASSUME s # {} PROVE g[s \ {Max(s)}] = f[s \ {Max(s)}]
        <5>1. s \ {Max(s)} \in SUBSET (1..n) /\ k \notin s \ {Max(s)}
          BY <3>1, <3>3
        <5> QED BY <5>1
      <4> HIDE DEF g
      <4> QED BY <4>2, <4>3
    <3> QED BY <3>2, <3>3
  <2> HIDE DEF g
  <2> QED BY <2>2, <2>3
<1>3. \A k \in 0..n : k \in P
  <2> HIDE DEF Good
  <2>1. 0 \in P
    BY <1>1
  <2>2. ASSUME NEW k \in 1..n, k - 1 \in P PROVE k \in P
    BY <1>2, <2>2
  <2> HIDE DEF P
  <2> QED BY <2>1, <2>2, Upward
<1>4. Good(n)
  <2> HIDE DEF Good
  <2> QED BY <1>3
<1>5. PICK f : f = [s \in SUBSET (1..n) |-> f[s]] /\ \A s \in SUBSET (1..n) : f[s] = Body(f, s)
  BY <1>4
<1>6. [s \in SUBSET (1..n) |-> f[s]] = [s \in SUBSET (1..n) |-> Body(f, s)]
  BY <1>5
<1> QED BY <1>5, <1>6 DEF Numbers

\* It adds digit by digit.
LEMMA NumbersAdd ==
  ASSUME NEW n \in Nat, NEW d \in [1..n -> Nat], NEW f, Numbers(f, n, d)
  PROVE  f[{}] = 0 /\ \A i \in 1..n : f[1..i] = 10 * f[1..(i - 1)] + d[i]
<1>1. f[{}] = 0
  <2>1. {} \in SUBSET (1..n)
    OBVIOUS
  <2> QED BY <2>1 DEF Numbers
<1>2. ASSUME NEW i \in 1..n PROVE f[1..i] = 10 * f[1..(i - 1)] + d[i]
  <2>1. 1..i # {} /\ Max(1..i) = i /\ (1..i) \ {i} = 1..(i - 1)
    BY PlacesUpTo
  <2>2. 1..i \in SUBSET (1..n)
    OBVIOUS
  <2>3. f[1..i] = IF 1..i = {} THEN 0 ELSE 10 * f[(1..i) \ {Max(1..i)}] + d[Max(1..i)]
    BY <2>2 DEF Numbers
  <2> QED BY <2>1, <2>3
<1> QED BY <1>1, <1>2

LEMMA DigitsAre == Fmt!Digit = {"0", "1", "2", "3", "4", "5", "6", "7", "8", "9"}
<1>1. DOMAIN Fmt!Digits = 1..10
  BY DEF Fmt!Digits
<1>2. 1..10 = {1, 2, 3, 4, 5, 6, 7, 8, 9, 10}
  OBVIOUS
<1>3. /\ Fmt!Digits[1] = "0" /\ Fmt!Digits[2] = "1" /\ Fmt!Digits[3] = "2" /\ Fmt!Digits[4] = "3"
      /\ Fmt!Digits[5] = "4" /\ Fmt!Digits[6] = "5" /\ Fmt!Digits[7] = "6" /\ Fmt!Digits[8] = "7"
      /\ Fmt!Digits[9] = "8" /\ Fmt!Digits[10] = "9"
  BY DEF Fmt!Digits
<1>4. Fmt!Digit = {Fmt!Digits[i] : i \in DOMAIN Fmt!Digits}
  BY DEF Fmt!Digit, Fmt!ToSet
<1> HIDE DEF Fmt!Digits
<1> QED BY <1>1, <1>2, <1>3, <1>4

LEMMA DigitValueIs ==
  /\ \A k \in 0..9 : Fmt!Digits[k + 1] \in Fmt!Digit /\ Fmt!DigitValue(Fmt!Digits[k + 1]) = k
  /\ \A c \in Fmt!Digit : Fmt!DigitValue(c) \in 0..9
<1>1. DOMAIN Fmt!Digits = 1..10
  BY DEF Fmt!Digits
<1>2. Fmt!Digit = {Fmt!Digits[i] : i \in DOMAIN Fmt!Digits}
  BY DEF Fmt!Digit, Fmt!ToSet
<1>3. \A i, j \in 0..9 : Fmt!Digits[i + 1] = Fmt!Digits[j + 1] => i = j
  <2>1. /\ Fmt!Digits[0 + 1] = "0" /\ Fmt!Digits[1 + 1] = "1" /\ Fmt!Digits[2 + 1] = "2" /\ Fmt!Digits[3 + 1] = "3"
        /\ Fmt!Digits[4 + 1] = "4" /\ Fmt!Digits[5 + 1] = "5" /\ Fmt!Digits[6 + 1] = "6" /\ Fmt!Digits[7 + 1] = "7"
        /\ Fmt!Digits[8 + 1] = "8" /\ Fmt!Digits[9 + 1] = "9"
    BY DEF Fmt!Digits
  <2>2. \A i \in 0..9 : i \in {0, 1, 2, 3, 4, 5, 6, 7, 8, 9}
    OBVIOUS
  <2> QED BY <2>1, <2>2
<1>4. ASSUME NEW k \in 0..9 PROVE Fmt!DigitValue(Fmt!Digits[k + 1]) = k
  <2>1. k = CHOOSE n \in 0..9 : Fmt!Digits[n + 1] = Fmt!Digits[k + 1]
    BY <1>3
  <2> QED BY <2>1 DEF Fmt!DigitValue
<1>5. ASSUME NEW k \in 0..9 PROVE Fmt!Digits[k + 1] \in Fmt!Digit
  <2>1. k + 1 \in DOMAIN Fmt!Digits
    BY <1>1
  <2> QED BY <1>2, <2>1
<1>6. ASSUME NEW c \in Fmt!Digit PROVE Fmt!DigitValue(c) \in 0..9
  <2>1. PICK i \in 1..10 : c = Fmt!Digits[i]
    BY <1>1, <1>2
  <2>2. i - 1 \in 0..9 /\ (i - 1) + 1 = i
    OBVIOUS
  <2> QED BY <1>4, <2>1, <2>2
<1> QED BY <1>4, <1>5, <1>6

\* What is added up of the digits so far.
LEMMA ValuedIs ==
  ASSUME NEW w \in Seq(Fmt!Digit)
  PROVE  \E f : /\ f[{}] = 0
                /\ \A i \in 1..Len(w) : f[1..i] = 10 * f[1..(i - 1)] + Fmt!DigitValue(w[i])
                /\ Fmt!Valued(w) = f[1..Len(w)]
<1> DEFINE n == Len(w)
           d == [i \in 1..n |-> Fmt!DigitValue(w[i])]
           Raw(h) == h = [s \in SUBSET DOMAIN w |-> IF s = {} THEN 0
                            ELSE 10 * h[s \ {Fmt!Max(s)}] + Fmt!DigitValue(w[Fmt!Max(s)])]
           f == CHOOSE h : Raw(h)
<1>1. n \in Nat /\ DOMAIN w = 1..n /\ \A i \in 1..n : w[i] \in Fmt!Digit
  BY LenProperties, ElementOfSeq
<1>2. Fmt!Valued(w) = f[1..n]
  BY <1>1 DEF Fmt!Valued, Fmt!FoldLeft, Fmt!MapThenFoldSet
<1>3. d \in [1..n -> Nat] /\ \A i \in 1..n : d[i] = Fmt!DigitValue(w[i])
  BY <1>1, DigitValueIs
<1> HIDE DEF d
<1>4. ASSUME NEW s \in SUBSET (1..n), s # {} PROVE Fmt!Max(s) = Max(s) /\ Max(s) \in 1..n
  <2>1. Max(s) \in s
    BY <1>1, <1>4, MaxIs
  <2> QED BY <2>1 DEF Max, Fmt!Max
<1>5. \A h : Numbers(h, n, d) <=> Raw(h)
  <2> SUFFICES ASSUME NEW h
               PROVE  [s \in SUBSET (1..n) |-> IF s = {} THEN 0 ELSE 10 * h[s \ {Max(s)}] + d[Max(s)]]
                      = [s \in SUBSET (1..n) |-> IF s = {} THEN 0
                           ELSE 10 * h[s \ {Fmt!Max(s)}] + Fmt!DigitValue(w[Fmt!Max(s)])]
    BY <1>1 DEF Numbers
  <2> HIDE DEF n
  <2>1. ASSUME NEW s \in SUBSET (1..n)
        PROVE  (IF s = {} THEN 0 ELSE 10 * h[s \ {Max(s)}] + d[Max(s)])
               = IF s = {} THEN 0 ELSE 10 * h[s \ {Fmt!Max(s)}] + Fmt!DigitValue(w[Fmt!Max(s)])
    BY <1>3, <1>4
  <2> QED BY <2>1
<1>6. \E h : Raw(h)
  <2> HIDE DEF Raw
  <2> QED BY <1>1, <1>3, <1>5, NumbersExist
<1>7. Numbers(f, n, d)
  <2> HIDE DEF Raw
  <2>1. Raw(f)
    BY <1>6
  <2> HIDE DEF f
  <2> QED BY <1>5, <2>1
<1> HIDE DEF f
<1>8. f[{}] = 0 /\ \A i \in 1..n : f[1..i] = 10 * f[1..(i - 1)] + d[i]
  BY <1>1, <1>3, <1>7, NumbersAdd
<1> QED BY <1>2, <1>3, <1>8

\* One digit more is worth its value and ten times what stood there.
LEMMA ValuedMore ==
  ASSUME NEW w \in Seq(Fmt!Digit), NEW c \in Fmt!Digit, Fmt!Valued(w) \in Nat
  PROVE  Fmt!Valued(Append(w, c)) = 10 * Fmt!Valued(w) + Fmt!DigitValue(c)
<1> DEFINE v == Append(w, c)
           n == Len(w)
<1>1. /\ v \in Seq(Fmt!Digit) /\ Len(v) = n + 1 /\ n \in Nat /\ v[n + 1] = c
      /\ \A i \in 1..n : v[i] = w[i]
  BY AppendProperties, LenProperties
<1>2. PICK f : /\ f[{}] = 0
               /\ \A i \in 1..n : f[1..i] = 10 * f[1..(i - 1)] + Fmt!DigitValue(w[i])
               /\ Fmt!Valued(w) = f[1..n]
  BY ValuedIs
<1> HIDE DEF v
<1>3. PICK g : /\ g[{}] = 0
               /\ \A i \in 1..(n + 1) : g[1..i] = 10 * g[1..(i - 1)] + Fmt!DigitValue(v[i])
               /\ Fmt!Valued(v) = g[1..(n + 1)]
  <2>1. \E g : /\ g[{}] = 0
               /\ \A i \in 1..Len(v) : g[1..i] = 10 * g[1..(i - 1)] + Fmt!DigitValue(v[i])
               /\ Fmt!Valued(v) = g[1..Len(v)]
    BY <1>1, ValuedIs
  <2> QED BY <1>1, <2>1
<1> HIDE DEF n
<1> DEFINE P == {i \in 0..n : f[1..i] = g[1..i]}
<1>4. 0 \in P
  <2>1. 1..0 = {} /\ 0 \in 0..n
    BY <1>1
  <2> QED BY <1>2, <1>3, <2>1
<1>5. ASSUME NEW i \in 1..n, i - 1 \in P PROVE i \in P
  <2>1. i \in 1..(n + 1) /\ i \in 0..n /\ v[i] = w[i] /\ f[1..(i - 1)] = g[1..(i - 1)]
    BY <1>1, <1>5
  <2>2. f[1..i] = 10 * f[1..(i - 1)] + Fmt!DigitValue(w[i])
    BY <1>2
  <2>3. g[1..i] = 10 * g[1..(i - 1)] + Fmt!DigitValue(v[i])
    BY <1>3, <2>1
  <2>4. f[1..i] = g[1..i]
    BY <2>1, <2>2, <2>3, Zenon
  <2> QED BY <2>1, <2>4
<1>6. n \in P
  <2> HIDE DEF P
  <2>1. n \in 0..n
    BY <1>1
  <2> QED BY <1>1, <1>4, <1>5, <2>1, Upward
<1>7. n + 1 \in 1..(n + 1) /\ (n + 1) - 1 = n
  BY <1>1
<1>8. g[1..(n + 1)] = 10 * g[1..n] + Fmt!DigitValue(v[n + 1])
  BY <1>3, <1>7
<1>9. g[1..n] = Fmt!Valued(w)
  BY <1>2, <1>6
<1> QED BY <1>1, <1>3, <1>8, <1>9 DEF v

LEMMA ValuedOne ==
  ASSUME NEW c \in Fmt!Digit
  PROVE  Fmt!Valued(<<c>>) = Fmt!DigitValue(c)
<1>1. <<c>> \in Seq(Fmt!Digit) /\ Len(<<c>>) = 1 /\ <<c>>[1] = c
  OBVIOUS
<1> DEFINE w == <<c>>
<1>2. w \in Seq(Fmt!Digit) /\ Len(w) = 1 /\ w[1] = c
  BY <1>1
<1> HIDE DEF w
<1>3. PICK f : /\ f[{}] = 0
               /\ \A i \in 1..Len(w) : f[1..i] = 10 * f[1..(i - 1)] + Fmt!DigitValue(w[i])
               /\ Fmt!Valued(w) = f[1..Len(w)]
  BY <1>2, ValuedIs
<1>4. 1 \in 1..Len(w) /\ 1..(1 - 1) = {}
  BY <1>2
<1>5. f[1..1] = 10 * f[{}] + Fmt!DigitValue(w[1])
  BY <1>3, <1>4
<1>6. Fmt!DigitValue(c) \in 0..9
  BY DigitValueIs
<1> QED BY <1>2, <1>3, <1>5, <1>6 DEF w

\* A number in decimal, when those of smaller ones are in f.
Spelled(f, c, n) == IF n < 10 THEN <<c[n + 1]>> ELSE Append(f[n \div 10], c[(n % 10) + 1])

Spells(f, c, k) == \A n \in 0..k : f[n] = Spelled(f, c, n)

LEMMA TenthIs ==
  ASSUME NEW n \in Nat
  PROVE  \E m \in Nat, r \in 0..9 :
           /\ m = n \div 10 /\ r = n % 10
           /\ n = 10 * m + r /\ (n >= 10 => m < n)
<1>1. PICK m, r : m = n \div 10 /\ r = n % 10
  OBVIOUS
<1>2. m \in Nat /\ r \in 0..9 /\ n = 10 * m + r
  BY <1>1
<1>3. n >= 10 => m < n
  BY <1>2
<1> QED BY <1>1, <1>2, <1>3

LEMMA SpellsTo ==
  ASSUME NEW c, NEW k \in Nat
  PROVE  \E f : Spells(f, c, k)
<1> DEFINE P == {i \in 0..k : \E f : Spells(f, c, i)}
<1>1. ASSUME NEW i \in 0..k, NEW f, i = 0 \/ Spells(f, c, i - 1) PROVE \E g : Spells(g, c, i)
  <2> DEFINE g == [n \in 0..k |-> IF n = i THEN Spelled(f, c, n) ELSE f[n]]
  <2>1. ASSUME NEW n \in 0..i PROVE g[n] = Spelled(g, c, n)
    <3>1. n \in Nat /\ n \in 0..k
      OBVIOUS
    <3>2. ASSUME n >= 10 PROVE g[n \div 10] = f[n \div 10]
      <4>1. n \div 10 \in Nat /\ n \div 10 < n
        BY <3>1, <3>2, TenthIs
      <4>2. n \div 10 \in 0..k /\ n \div 10 # i
        BY <3>1, <4>1
      <4> HIDE DEF Spelled
      <4> QED BY <4>2
    <3>3. g[n] = Spelled(f, c, n)
      <4>1. CASE n = i
        BY <3>1, <4>1
      <4>2. CASE n # i
        <5>1. n \in 0..(i - 1) /\ i # 0
          BY <4>2
        <5>2. f[n] = Spelled(f, c, n)
          BY <1>1, <5>1 DEF Spells
        <5> QED BY <3>1, <4>2, <5>2
      <4> QED BY <4>1, <4>2
    <3> HIDE DEF g
    <3> QED BY <3>1, <3>2, <3>3 DEF Spelled
  <2> HIDE DEF g
  <2> QED BY <2>1 DEF Spells
<1>2. \A i \in 0..k : i \in P
  <2>1. 0 \in P
    BY <1>1
  <2>2. ASSUME NEW i \in 1..k, i - 1 \in P PROVE i \in P
    <3>1. PICK f : Spells(f, c, i - 1)
      BY <2>2
    <3> QED BY <1>1, <3>1
  <2> HIDE DEF P
  <2> QED BY <2>1, <2>2, Upward
<1> QED BY <1>2

\* Two ways to spell numbers are one.
LEMMA SpellsAlike ==
  ASSUME NEW c, NEW k \in Nat, NEW f, NEW g, Spells(f, c, k), NEW j \in Nat, j <= k, Spells(g, c, j)
  PROVE  \A n \in 0..j : f[n] = g[n]
<1> DEFINE T == {n \in 0..j : f[n] # g[n]}
<1>1. SUFFICES ASSUME T # {} PROVE FALSE
  OBVIOUS
<1>2. T \subseteq Nat
  OBVIOUS
<1>3. PICK n \in T : \A m \in T : n <= m
  <2> HIDE DEF T
  <2> QED BY <1>1, <1>2, LeastNat
<1>4. n \in Nat /\ n \in 0..j /\ n \in 0..k /\ f[n] # g[n]
  OBVIOUS
<1>5. ASSUME n >= 10 PROVE f[n \div 10] = g[n \div 10]
  <2>1. n \div 10 \in Nat /\ n \div 10 < n
    BY <1>4, <1>5, TenthIs
  <2>2. n \div 10 \in 0..j /\ ~(n <= n \div 10)
    BY <1>4, <2>1
  <2> QED BY <1>3, <2>2
<1>6. f[n] = Spelled(f, c, n) /\ g[n] = Spelled(g, c, n)
  BY <1>4 DEF Spells
<1>7. Spelled(f, c, n) = Spelled(g, c, n)
  BY <1>4, <1>5 DEF Spelled
<1> QED BY <1>4, <1>6, <1>7

LEMMA SpellingExists ==
  ASSUME NEW c
  PROVE  \E f : f = [n \in Nat |-> Spelled(f, c, n)]
<1> DEFINE g(k) == CHOOSE f : Spells(f, c, k)
           f == [n \in Nat |-> g(n)[n]]
<1>1. ASSUME NEW k \in Nat PROVE Spells(g(k), c, k)
  BY SpellsTo
<1> HIDE DEF g
<1>2. ASSUME NEW n \in Nat PROVE f[n] = Spelled(f, c, n)
  <2>1. n \in 0..n
    OBVIOUS
  <2>2. f[n] = g(n)[n] /\ g(n)[n] = Spelled(g(n), c, n)
    BY <1>1, <2>1 DEF Spells
  <2>3. ASSUME n >= 10 PROVE f[n \div 10] = g(n)[n \div 10]
    <3>1. PICK m \in Nat : m = n \div 10 /\ m <= n
      BY <2>3, TenthIs
    <3>2. m \in 0..m /\ Spells(g(n), c, n) /\ Spells(g(m), c, m)
      BY <1>1
    <3>3. g(n)[m] = g(m)[m]
      BY <3>1, <3>2, SpellsAlike
    <3>4. f[m] = g(m)[m]
      OBVIOUS
    <3> QED BY <3>1, <3>3, <3>4
  <2> HIDE DEF f
  <2> QED BY <2>2, <2>3 DEF Spelled
<1>3. f = [n \in Nat |-> f[n]]
  OBVIOUS
<1> HIDE DEF f
<1>4. [n \in Nat |-> f[n]] = [n \in Nat |-> Spelled(f, c, n)]
  BY <1>2
<1> QED BY <1>3, <1>4

\* A numeral: digits, one at least, that have the number as their value.
IsNumeral(w, n) == w \in Seq(Fmt!Digit) /\ w # <<>> /\ Fmt!Valued(w) = n

LEMMA NumeralsAre ==
  ASSUME NEW c, \A k \in 0..9 : c[k + 1] = Fmt!Digits[k + 1],
         NEW f, f = [n \in Nat |-> Spelled(f, c, n)]
  PROVE  \A n \in Nat : IsNumeral(f[n], n)
<1> DEFINE T == {n \in Nat : ~IsNumeral(f[n], n)}
<1>1. SUFFICES ASSUME T # {} PROVE FALSE
  OBVIOUS
<1>2. PICK n \in T : \A m \in T : n <= m
  <2>1. T \subseteq Nat
    OBVIOUS
  <2> HIDE DEF T
  <2> QED BY <1>1, <2>1, LeastNat
<1>3. n \in Nat /\ ~IsNumeral(f[n], n)
  OBVIOUS
<1>4. f[n] = Spelled(f, c, n)
  BY <1>3
<1>5. CASE n < 10
  <2>1. n \in 0..9 /\ f[n] = <<Fmt!Digits[n + 1]>>
    <3>1. n \in 0..9 /\ f[n] = <<c[n + 1]>>
      BY <1>3, <1>4, <1>5 DEF Spelled
    <3>2. c[n + 1] = Fmt!Digits[n + 1]
      BY <3>1
    <3> QED BY <3>1, <3>2
  <2>2. Fmt!Digits[n + 1] \in Fmt!Digit /\ Fmt!DigitValue(Fmt!Digits[n + 1]) = n
    BY <2>1, DigitValueIs
  <2>3. PICK x \in Fmt!Digit : x = Fmt!Digits[n + 1]
    BY <2>2
  <2>4. f[n] = <<x>> /\ Fmt!Valued(<<x>>) = n
    BY <2>1, <2>2, <2>3, ValuedOne
  <2>5. <<x>> \in Seq(Fmt!Digit) /\ <<x>> # <<>>
    OBVIOUS
  <2> QED BY <1>3, <2>4, <2>5 DEF IsNumeral
<1>6. CASE ~(n < 10)
  <2>1. PICK m \in Nat, r \in 0..9 :
          /\ m = n \div 10 /\ r = n % 10
          /\ n = 10 * m + r /\ (n >= 10 => m < n)
    BY <1>3, TenthIs
  <2>2. m \in Nat /\ r \in 0..9 /\ n = 10 * m + r /\ m < n
    BY <1>3, <1>6, <2>1
  <2>3. IsNumeral(f[m], m)
    BY <1>2, <1>3, <2>2
  <2>4. PICK w, x : w = f[m] /\ x = Fmt!Digits[r + 1]
    OBVIOUS
  <2>5. f[n] = Append(w, x)
    BY <1>4, <1>6, <2>1, <2>2, <2>4 DEF Spelled
  <2>6. x \in Fmt!Digit /\ Fmt!DigitValue(x) = r
    BY <2>2, <2>4, DigitValueIs
  <2>7. w \in Seq(Fmt!Digit) /\ Fmt!Valued(w) = m
    BY <2>3, <2>4 DEF IsNumeral
  <2>8. Fmt!Valued(Append(w, x)) = 10 * m + r
    BY <2>2, <2>6, <2>7, ValuedMore
  <2>9. Append(w, x) \in Seq(Fmt!Digit) /\ Append(w, x) # <<>>
    <3>1. PICK v : v = Append(w, x)
      OBVIOUS
    <3>2. v \in Seq(Fmt!Digit) /\ Len(v) = Len(w) + 1 /\ Len(w) \in Nat
      BY <2>6, <2>7, <3>1, AppendProperties, LenProperties
    <3>3. v # <<>>
      BY <3>2, EmptySeq
    <3> QED BY <3>1, <3>2, <3>3
  <2> QED BY <1>3, <2>2, <2>5, <2>8, <2>9 DEF IsNumeral
<1> QED BY <1>5, <1>6, <1>3

LEMMA InDecimal ==
  ASSUME NEW n \in Nat
  PROVE  IsNumeral(Fmt!InBase(n, "d"), n)
<1> DEFINE c == Fmt!Digits \o Fmt!Letters.lower
           f == CHOOSE f : f = [m \in Nat |-> Spelled(f, c, m)]
<1>1. Fmt!Base("d") = 10
  BY DEF Fmt!Base, Fmt!Hexadecimal, Fmt!Pointer, Fmt!Octal, Fmt!Binary
<1>2. "d" \notin Fmt!Upper
  BY DEF Fmt!Upper
<1>3. Fmt!InBase(n, "d") = f[n]
  BY <1>1, <1>2 DEF Fmt!InBase, Spelled
<1>4. \A k \in 0..9 : c[k + 1] = Fmt!Digits[k + 1]
  <2> DEFINE C == {"0", "1", "2", "3", "4", "5", "6", "7", "8", "9", "a", "b", "c", "d", "e", "f"}
  <2>1. Fmt!Letters.lower = <<"a", "b", "c", "d", "e", "f">>
    BY DEF Fmt!Letters
  <2>2. PICK s \in Seq(C), t \in Seq(C) : s = Fmt!Digits /\ t = Fmt!Letters.lower /\ Len(s) = 10
    <3>1. <<"a", "b", "c", "d", "e", "f">> \in Seq(C)
      OBVIOUS
    <3>2. Fmt!Digits \in Seq(C) /\ Len(Fmt!Digits) = 10
      BY DEF Fmt!Digits
    <3> QED BY <2>1, <3>1, <3>2
  <2>3. Follows(s \o t, s, t)
    BY JoinedFollows
  <2>4. \A k \in 1..10 : (s \o t)[k] = s[k]
    BY <2>2, <2>3 DEF Follows
  <2>5. \A k \in 0..9 : k + 1 \in 1..10
    OBVIOUS
  <2> QED BY <2>2, <2>4, <2>5
<1> HIDE DEF c
<1>5. f = [m \in Nat |-> Spelled(f, c, m)]
  BY SpellingExists
<1> HIDE DEF f
<1> QED BY <1>3, <1>4, <1>5, NumeralsAre

-----------------------------------------------------------------------------
(* A format string that asks for one argument: one insertion, and no text. *)

\* The nodes from a place on, when those from later ones are in f.
NodeAt(text, f, p, turn) ==
  LET end == Len(text) + 1
      open == Fmt!First(text, p, Fmt!LBrace)
      close == Fmt!First(text, p, Fmt!RBrace)
      double == open < Len(text) /\ text[open + 1] = Fmt!LBrace
  IN  IF p = end THEN <<>>
      ELSE IF open = end /\ close = end THEN <<Fmt!Static(SubSeq(text, p, Len(text)))>>
      ELSE IF close < open
      THEN <<Fmt!Static(SubSeq(text, p, close))>> \o f[Fmt!Min({close + 2, end})][turn]
      ELSE IF double
      THEN <<Fmt!Static(SubSeq(text, p, open))>> \o f[open + 2][turn]
      ELSE IF open = Len(text) THEN <<Fmt!Static(SubSeq(text, p, open - 1))>>
      ELSE LET stop == Fmt!First(text, open + 1, Fmt!RBrace)
               next == IF text[open + 1] \in {":", Fmt!RBrace} THEN turn + 1 ELSE turn
           IN  <<Fmt!Static(SubSeq(text, p, open - 1)),
                 Fmt!Insertion(SubSeq(text, open + 1, stop - 1), turn)>>
                 \o f[Fmt!Min({stop + 1, end})][next]

NodesIn(text, f) == f = [p \in 1..(Len(text) + 1) |-> [turn \in Nat |-> NodeAt(text, f, p, turn)]]

LEMMA NodesUnfold ==
  ASSUME NEW text, NEW nodes, \E f : NodesIn(text, f),
         \A f : NodesIn(text, f) => f[1][0] = nodes
  PROVE  Fmt!Nodes(text) = nodes
<1> DEFINE f == CHOOSE f : NodesIn(text, f)
<1>1. Fmt!Nodes(text) = f[1][0]
  BY DEF Fmt!Nodes, NodesIn, NodeAt
<1>2. NodesIn(text, f)
  <2> HIDE DEF NodesIn
  <2> QED OBVIOUS
<1> HIDE DEF f
<1> QED BY <1>1, <1>2

Asks(c) == Fmt!Asking(c)

LEMMA AsksIs ==
  ASSUME NEW c
  PROVE  /\ Len(Asks(c)) = 4 /\ DOMAIN Asks(c) = 1..4
         /\ Asks(c)[1] = Fmt!LBrace /\ Asks(c)[2] = ":" /\ Asks(c)[3] = c /\ Asks(c)[4] = Fmt!RBrace
BY DEF Asks, Fmt!Asking

LEMMA FmtMin == ASSUME NEW T PROVE Fmt!Min(T) = Min(T) /\ Fmt!Max(T) = Max(T)
BY DEF Fmt!Min, Fmt!Max, Min, Max

LEMMA AsksFirst ==
  ASSUME NEW c \in {"d", "s"}
  PROVE  /\ Fmt!First(Asks(c), 1, Fmt!LBrace) = 1
         /\ \A p \in 2..4 : Fmt!First(Asks(c), p, Fmt!LBrace) = 5
         /\ \A p \in 1..4 : Fmt!First(Asks(c), p, Fmt!RBrace) = 4
         /\ Asks(c)[2] # Fmt!LBrace
<1> DEFINE t == Asks(c)
           F(p, x) == {i \in p..4 : t[i] = x} \cup {5}
<1>1. PICK l, r : l = Fmt!LBrace /\ r = Fmt!RBrace
  OBVIOUS
<1>2. l # r /\ l \notin {"d", "s", ":"} /\ r \notin {"d", "s", ":"}
  BY <1>1, Zenon DEF Fmt!LBrace, Fmt!RBrace
<1>3. Len(t) = 4 /\ t[1] = l /\ t[2] = ":" /\ t[3] = c /\ t[4] = r
  BY <1>1, AsksIs
<1> HIDE DEF t
<1>4. ASSUME NEW i \in 1..4 PROVE (t[i] = l <=> i = 1) /\ (t[i] = r <=> i = 4)
  <2>1. i = 1 \/ i = 2 \/ i = 3 \/ i = 4
    OBVIOUS
  <2> QED BY <1>2, <1>3, <2>1
<1>5. ASSUME NEW p, NEW x PROVE Fmt!First(t, p, x) = Min(F(p, x))
  <2>1. {i \in p..Len(t) : t[i] = x} \cup {Len(t) + 1} = F(p, x)
    BY <1>3
  <2> HIDE DEF F
  <2> QED BY <2>1, FmtMin DEF Fmt!First
<1>6. \A x : \A p \in 1..4 : F(p, x) \subseteq Nat
  OBVIOUS
<1>7. Min(F(1, l)) = 1
  <2>1. 1 \in F(1, l) /\ (\A y \in F(1, l) : 1 <= y) /\ F(1, l) \subseteq Nat
    BY <1>4, <1>6
  <2> HIDE DEF F
  <2> QED BY <2>1, MinOf
<1>8. ASSUME NEW p \in 2..4 PROVE Min(F(p, l)) = 5
  <2>1. 5 \in F(p, l) /\ (\A y \in F(p, l) : 5 <= y) /\ F(p, l) \subseteq Nat
    BY <1>4, <1>6
  <2> HIDE DEF F
  <2> QED BY <2>1, MinOf
<1>9. ASSUME NEW p \in 1..4 PROVE Min(F(p, r)) = 4
  <2>1. 4 \in F(p, r) /\ (\A y \in F(p, r) : 4 <= y) /\ F(p, r) \subseteq Nat
    BY <1>4, <1>6
  <2> HIDE DEF F
  <2> QED BY <2>1, MinOf
<1> HIDE DEF F
<1>10. Fmt!First(t, 1, l) = 1
  BY <1>5, <1>7
<1>11. \A p \in 2..4 : Fmt!First(t, p, l) = 5
  BY <1>5, <1>8
<1>12. \A p \in 1..4 : Fmt!First(t, p, r) = 4
  BY <1>5, <1>9
<1> QED BY <1>1, <1>2, <1>3, <1>10, <1>11, <1>12 DEF t


AskedNodes(c, turn) ==
  <<Fmt!Static(SubSeq(Asks(c), 1, 0)), Fmt!Insertion(SubSeq(Asks(c), 2, 3), turn)>>

\* An insertion begins at open and ends at stop, with a type and no number.
OpensAt(text, p, end, open, close, stop) ==
  /\ end = Len(text) + 1 /\ open = Fmt!First(text, p, Fmt!LBrace)
  /\ close = Fmt!First(text, p, Fmt!RBrace) /\ stop = Fmt!First(text, open + 1, Fmt!RBrace)
  /\ p # end /\ open # end /\ ~(close < open) /\ open # Len(text)
  /\ text[open + 1] # Fmt!LBrace /\ text[open + 1] = ":"

NodeOpened(text, f, p, turn, end, open, stop) ==
  <<Fmt!Static(SubSeq(text, p, open - 1)), Fmt!Insertion(SubSeq(text, open + 1, stop - 1), turn)>>
    \o f[Fmt!Min({stop + 1, end})][turn + 1]

LEMMA NodeOpens ==
  ASSUME NEW text, NEW f, NEW p, NEW turn, NEW end, NEW open, NEW close, NEW stop,
         OpensAt(text, p, end, open, close, stop)
  PROVE  NodeAt(text, f, p, turn) = NodeOpened(text, f, p, turn, end, open, stop)
<1>1. text[open + 1] \in {":", Fmt!RBrace}
  BY DEF OpensAt
<1> QED BY <1>1, Zenon DEF NodeAt, NodeOpened, OpensAt

LEMMA AsksNodes ==
  ASSUME NEW c \in {"d", "s"}, NEW f
  PROVE  /\ \A turn \in Nat : NodeAt(Asks(c), f, 5, turn) = <<>>
         /\ \A p \in 2..4, turn \in Nat :
              NodeAt(Asks(c), f, p, turn) = <<Fmt!Static(SubSeq(Asks(c), p, 4))>> \o f[5][turn]
         /\ \A turn \in Nat :
              NodeAt(Asks(c), f, 1, turn) = AskedNodes(c, turn) \o f[5][turn + 1]
<1> DEFINE t == Asks(c)
<1>1. Len(t) = 4 /\ t[2] = ":"
  BY AsksIs
<1>2. /\ Fmt!First(t, 1, Fmt!LBrace) = 1
      /\ \A p \in 2..4 : Fmt!First(t, p, Fmt!LBrace) = 5
      /\ \A p \in 1..4 : Fmt!First(t, p, Fmt!RBrace) = 4
      /\ t[2] # Fmt!LBrace
  BY AsksFirst
<1>3. Fmt!Min({5, 5}) = 5 /\ Fmt!Min({6, 5}) = 5
  <2>1. Min({5, 5}) = 5 /\ Min({6, 5}) = 5
    <3>1. 5 \in {5, 5} /\ {5, 5} \subseteq Nat /\ (\A y \in {5, 5} : 5 <= y)
      OBVIOUS
    <3>2. 5 \in {6, 5} /\ {6, 5} \subseteq Nat /\ (\A y \in {6, 5} : 5 <= y)
      OBVIOUS
    <3>3. Min({5, 5}) = 5
      BY <3>1, MinOf
    <3>4. Min({6, 5}) = 5
      BY <3>2, MinOf
    <3> QED BY <3>3, <3>4
  <2> QED BY <2>1, FmtMin
<1> HIDE DEF t
<1>4. ASSUME NEW turn \in Nat PROVE NodeAt(t, f, 5, turn) = <<>>
  BY <1>1 DEF NodeAt
<1>5. ASSUME NEW p \in 2..4, NEW turn \in Nat
      PROVE  NodeAt(t, f, p, turn) = <<Fmt!Static(SubSeq(t, p, 4))>> \o f[5][turn]
  <2>1. p # 4 + 1 /\ Fmt!First(t, p, Fmt!LBrace) = 5 /\ Fmt!First(t, p, Fmt!RBrace) = 4
    BY <1>2
  <2> QED BY <1>1, <1>3, <2>1 DEF NodeAt
<1>6. ASSUME NEW turn \in Nat
      PROVE  NodeAt(t, f, 1, turn) = AskedNodes(c, turn) \o f[5][turn + 1]
  <2>1. PICK end, open, close, stop : end = 5 /\ open = 1 /\ close = 4 /\ stop = 4
    OBVIOUS
  <2>2. OpensAt(t, 1, end, open, close, stop)
    BY <1>1, <1>2, <2>1 DEF OpensAt
  <2>3. NodeAt(t, f, 1, turn) = NodeOpened(t, f, 1, turn, end, open, stop)
    BY <2>2, NodeOpens
  <2>4. open - 1 = 0 /\ open + 1 = 2 /\ stop - 1 = 3 /\ stop + 1 = end /\ Fmt!Min({end, end}) = 5
    BY <1>3, <2>1
  <2> QED BY <2>3, <2>4, Zenon DEF AskedNodes, NodeOpened, t
<1> QED BY <1>4, <1>5, <1>6 DEF t

LEMMA AskedIs ==
  ASSUME NEW c \in {"d", "s"}
  PROVE  Fmt!Nodes(Asks(c)) = AskedNodes(c, 0)
<1> DEFINE t == Asks(c)
           s(p) == <<Fmt!Static(SubSeq(t, p, 4))>>
           e(p, turn) == IF p = 5 THEN <<>> ELSE IF p = 1 THEN AskedNodes(c, turn) ELSE s(p)
           g == [p \in 1..5 |-> [turn \in Nat |-> e(p, turn)]]
<1>1. Len(t) + 1 = 5
  <2>1. Len(t) = 4
    BY AsksIs
  <2> HIDE DEF t
  <2> QED BY <2>1
<1>2. \A p, turn : s(p) \o <<>> = s(p) /\ AskedNodes(c, turn) \o <<>> = AskedNodes(c, turn)
  <2> SUFFICES ASSUME NEW x, NEW y PROVE <<x>> \o <<>> = <<x>> /\ <<x, y>> \o <<>> = <<x, y>>
    BY DEF AskedNodes
  <2>1. <<x>> \in Seq({x, y}) /\ <<x, y>> \in Seq({x, y})
    OBVIOUS
  <2> QED BY <2>1, ConcatEmptySeq
<1> HIDE DEF s
<1>3. ASSUME NEW p \in 1..5, NEW turn \in Nat PROVE e(p, turn) = NodeAt(t, g, p, turn)
  <2>1. \A n \in Nat : g[5][n] = <<>>
    OBVIOUS
  <2>2. turn + 1 \in Nat /\ (p = 5 \/ p \in 2..4 \/ p = 1)
    OBVIOUS
  <2> HIDE DEF g
  <2>3. CASE p = 5
    BY <2>3, AsksNodes
  <2>4. CASE p \in 2..4
    <3>1. NodeAt(t, g, p, turn) = s(p) \o g[5][turn]
      BY <2>4, AsksNodes DEF s
    <3>2. e(p, turn) = s(p) /\ g[5][turn] = <<>>
      BY <2>1, <2>4
    <3> QED BY <1>2, <3>1, <3>2
  <2>5. CASE p = 1
    <3>1. NodeAt(t, g, 1, turn) = AskedNodes(c, turn) \o g[5][turn + 1]
      BY AsksNodes
    <3>2. e(p, turn) = AskedNodes(c, turn) /\ g[5][turn + 1] = <<>>
      BY <2>1, <2>2, <2>5
    <3> QED BY <1>2, <2>5, <3>1, <3>2
  <2> QED BY <2>2, <2>3, <2>4, <2>5
<1>4. NodesIn(t, g)
  <2> SUFFICES g = [p \in 1..5 |-> [turn \in Nat |-> NodeAt(t, g, p, turn)]]
    BY <1>1 DEF NodesIn
  <2>1. ASSUME NEW p \in 1..5 PROVE [turn \in Nat |-> e(p, turn)] = [turn \in Nat |-> NodeAt(t, g, p, turn)]
    <3> HIDE DEF e, g
    <3> QED BY <1>3
  <2>2. [p \in 1..5 |-> [turn \in Nat |-> e(p, turn)]] = [p \in 1..5 |-> [turn \in Nat |-> NodeAt(t, g, p, turn)]]
    <3> HIDE DEF e, g
    <3> QED BY <2>1
  <2> QED BY <2>2
<1>5. ASSUME NEW f, NodesIn(t, f) PROVE f[1][0] = AskedNodes(c, 0)
  <2>1. f = [p \in 1..5 |-> [turn \in Nat |-> NodeAt(t, f, p, turn)]]
    BY <1>1, <1>5 DEF NodesIn
  <2>2. \A p \in 1..5, turn \in Nat : f[p][turn] = NodeAt(t, f, p, turn)
    <3>1. ASSUME NEW p \in 1..5 PROVE f[p] = [turn \in Nat |-> NodeAt(t, f, p, turn)]
      BY <2>1
    <3> QED BY <3>1
  <2>3. f[5][1] = NodeAt(t, f, 5, 1) /\ f[1][0] = NodeAt(t, f, 1, 0)
    BY <2>2
  <2>4. NodeAt(t, f, 5, 1) = <<>> /\ NodeAt(t, f, 1, 0) = AskedNodes(c, 0) \o f[5][1]
    <3>1. 0 \in Nat /\ 1 \in Nat /\ 0 + 1 = 1
      OBVIOUS
    <3>2. NodeAt(t, f, 5, 1) = <<>>
      BY <3>1, AsksNodes
    <3>3. NodeAt(t, f, 1, 0) = AskedNodes(c, 0) \o f[5][0 + 1]
      BY <3>1, AsksNodes, Zenon
    <3> QED BY <3>1, <3>2, <3>3
  <2> QED BY <1>2, <2>3, <2>4
<1> HIDE DEF g, t
<1> QED BY <1>4, <1>5, NodesUnfold DEF t

-----------------------------------------------------------------------------
(* The options in it, and what optimizing makes of it.                     *)

LEMMA SameSeq ==
  ASSUME NEW U, NEW s \in Seq(U), NEW t \in Seq(U), Len(s) = Len(t), \A i \in 1..Len(s) : s[i] = t[i]
  PROVE  s = t
BY SeqEqual

LEMMA AskedParts ==
  ASSUME NEW c \in {"d", "s"}
  PROVE  /\ SubSeq(Asks(c), 1, 0) = <<>> /\ SubSeq(Asks(c), 2, 3) = <<":", c>>
<1> DEFINE U == {Fmt!LBrace, Fmt!RBrace, ":", c}
           t == Asks(c)
<1>1. t \in Seq(U)
  BY DEF Asks, Fmt!Asking
<1>2. Len(t) = 4 /\ t[2] = ":" /\ t[3] = c
  BY AsksIs
<1> HIDE DEF t
<1>3. <<":", c>> \in Seq(U) /\ Len(<<":", c>>) = 2 /\ <<":", c>>[1] = ":" /\ <<":", c>>[2] = c
  OBVIOUS
<1> HIDE DEF U
<1>4. /\ SubSeq(t, 2, 3) \in Seq(U) /\ Len(SubSeq(t, 2, 3)) = 2
      /\ \A i \in 1..2 : SubSeq(t, 2, 3)[i] = t[2 + i - 1]
  <2>1. ASSUME NEW i \in 2..3 PROVE t[i] \in U
    <3>1. i \in 1..Len(t)
      BY <1>2
    <3> QED BY <1>1, <3>1, ElementOfSeq
  <2> QED BY <2>1, SubSeqProperties
<1>5. SubSeq(t, 2, 3) = <<":", c>>
  <2>1. \A i \in 1..2 : SubSeq(t, 2, 3)[i] = <<":", c>>[i]
    <3>1. SubSeq(t, 2, 3)[1] = t[2] /\ SubSeq(t, 2, 3)[2] = t[3]
      BY <1>4
    <3>2. \A i \in 1..2 : i = 1 \/ i = 2
      OBVIOUS
    <3> QED BY <1>2, <1>3, <3>1, <3>2
  <2> QED BY <1>3, <1>4, <2>1, SameSeq
<1>6. SubSeq(t, 1, 0) = <<>>
  <2>1. SubSeq(t, 1, 0) \in Seq(U) /\ Len(SubSeq(t, 1, 0)) = 0
    <3>1. \A i \in 1..0 : t[i] \in U
      OBVIOUS
    <3> QED BY <3>1, SubSeqProperties
  <2> QED BY <2>1, EmptySeq
<1> QED BY <1>5, <1>6 DEF t

\* The insertion of the first argument, put as type c says.
Inserted(c) == [insert |-> TRUE, argument |-> 0, options |-> Fmt!Options(<<c>>)]

LEMMA InsertedIs ==
  ASSUME NEW c \in {"d", "s"}
  PROVE  Fmt!Insertion(<<":", c>>, 0) = Inserted(c)
<1> DEFINE t == <<":", c>>
           F == {i \in DOMAIN t : t[i] = ":"} \cup {Len(t) + 1}
<1>1. t \in Seq({":", c}) /\ Len(t) = 2 /\ DOMAIN t = 1..2 /\ t[1] = ":" /\ t[2] = c
  OBVIOUS
<1> HIDE DEF t
<1>2. Fmt!Min(F) = 1
  <2>1. 1 \in F /\ F \subseteq Nat /\ \A y \in F : 1 <= y
    BY <1>1
  <2> HIDE DEF F
  <2> QED BY <2>1, MinOf, FmtMin
<1>3. SubSeq(t, 1, 1 - 1) = <<>>
  <2>1. SubSeq(t, 1, 0) \in Seq({":", c}) /\ Len(SubSeq(t, 1, 0)) = 0
    <3>1. \A i \in 1..0 : t[i] \in {":", c}
      OBVIOUS
    <3> QED BY <3>1, SubSeqProperties
  <2> QED BY <2>1, EmptySeq
<1>4. SubSeq(t, 1 + 1, Len(t)) = <<c>>
  <2>1. /\ SubSeq(t, 2, 2) \in Seq({":", c}) /\ Len(SubSeq(t, 2, 2)) = 1
        /\ \A i \in 1..1 : SubSeq(t, 2, 2)[i] = t[2 + i - 1]
    <3>1. \A i \in 2..2 : t[i] \in {":", c}
      BY <1>1
    <3> QED BY <3>1, SubSeqProperties
  <2>2. <<c>> \in Seq({":", c}) /\ Len(<<c>>) = 1 /\ <<c>>[1] = c
    OBVIOUS
  <2>3. \A i \in 1..1 : SubSeq(t, 2, 2)[i] = <<c>>[i]
    <3>1. \A i \in 1..1 : i = 1
      OBVIOUS
    <3>2. SubSeq(t, 2, 2)[1] = t[2]
      BY <2>1
    <3> QED BY <1>1, <2>2, <3>1, <3>2
  <2>4. SubSeq(t, 2, 2) = <<c>>
    BY <2>1, <2>2, <2>3, SameSeq
  <2> QED BY <1>1, <2>4
<1>5. Fmt!Insertion(t, 0) =
        [insert |-> TRUE, argument |-> IF SubSeq(t, 1, 1 - 1) = <<>> THEN 0 ELSE Fmt!Valued(SubSeq(t, 1, 1 - 1)),
         options |-> Fmt!Options(SubSeq(t, 1 + 1, Len(t)))]
  <2> HIDE DEF F
  <2>1. Fmt!Insertion(t, 0) =
          LET colon == Fmt!Min(F)
              index == SubSeq(t, 1, colon - 1)
          IN  [insert |-> TRUE, argument |-> IF index = <<>> THEN 0 ELSE Fmt!Valued(index),
               options |-> Fmt!Options(SubSeq(t, colon + 1, Len(t)))]
    BY Zenon DEF Fmt!Insertion, F
  <2> QED BY <1>2, <2>1
<1> QED BY <1>3, <1>4, <1>5 DEF Inserted, t

\* Folds over two places, and over one.
LEMMA TwoPlaces ==
  /\ 1..2 = {1, 2} /\ SUBSET (1..2) = {{}, {1}, {2}, {1, 2}}
  /\ Max({1}) = 1 /\ Max({2}) = 2 /\ Max({1, 2}) = 2 /\ Max(1..2) = 2
  /\ {1} \ {1} = {} /\ {2} \ {2} = {} /\ {1, 2} \ {2} = {1}
  /\ {1} # {} /\ {2} # {} /\ {1, 2} # {} /\ {1} # {2} /\ {1} # {1, 2} /\ {2} # {1, 2}
<1>1. 1..2 = {1, 2} /\ SUBSET (1..2) = {{}, {1}, {2}, {1, 2}}
  OBVIOUS
<1>2. Max({1}) = 1
  <2>1. 1 \in {1} /\ {1} \subseteq Nat /\ \A y \in {1} : 1 >= y
    OBVIOUS
  <2> QED BY <2>1, MaxOf
<1>3. Max({2}) = 2
  <2>1. 2 \in {2} /\ {2} \subseteq Nat /\ \A y \in {2} : 2 >= y
    OBVIOUS
  <2> QED BY <2>1, MaxOf
<1>4. Max({1, 2}) = 2
  <2>1. 2 \in {1, 2} /\ {1, 2} \subseteq Nat /\ \A y \in {1, 2} : 2 >= y
    OBVIOUS
  <2> QED BY <2>1, MaxOf
<1>5. /\ {1} \ {1} = {} /\ {2} \ {2} = {} /\ {1, 2} \ {2} = {1}
      /\ {1} # {} /\ {2} # {} /\ {1, 2} # {} /\ {1} # {2} /\ {1} # {1, 2} /\ {2} # {1, 2}
  OBVIOUS
<1> QED BY <1>1, <1>2, <1>3, <1>4, <1>5

\* The nodes put together, with one more.
PutNode(done, n) ==
  IF ~n.insert /\ n.text = <<>> THEN done
  ELSE IF done # <<>> /\ ~Fmt!Last(done).insert /\ ~n.insert
  THEN Append(Fmt!Front(done), Fmt!Static(Fmt!Last(done).text \o n.text)) ELSE Append(done, n)

LEMMA PutTwo ==
  ASSUME NEW x, NEW y
  PROVE  Fmt!FoldLeft(PutNode, <<>>, <<x, y>>) = PutNode(PutNode(<<>>, x), y)
<1> DEFINE q == <<x, y>>
           Body(h, s) == IF s = {} THEN <<>> ELSE PutNode(h[s \ {Fmt!Max(s)}], q[Fmt!Max(s)])
           Raw(h) == h = [s \in SUBSET DOMAIN q |-> Body(h, s)]
           f == CHOOSE h : Raw(h)
           one == PutNode(<<>>, x)
           two == PutNode(<<>>, y)
           both == PutNode(one, y)
           g == [s \in SUBSET (1..2) |-> IF s = {} THEN <<>> ELSE IF s = {1} THEN one
                                         ELSE IF s = {2} THEN two ELSE both]
<1>1. DOMAIN q = 1..2 /\ q[1] = x /\ q[2] = y
  OBVIOUS
<1>2. Fmt!FoldLeft(PutNode, <<>>, q) = f[DOMAIN q]
  BY DEF Fmt!FoldLeft, Fmt!MapThenFoldSet
<1> HIDE DEF q, one, two, both
<1>3. /\ \A h : Body(h, {}) = <<>>
      /\ \A h : Body(h, {1}) = PutNode(h[{}], x)
      /\ \A h : Body(h, {2}) = PutNode(h[{}], y)
      /\ \A h : Body(h, {1, 2}) = PutNode(h[{1}], y)
  <2>1. Fmt!Max({1}) = 1 /\ Fmt!Max({2}) = 2 /\ Fmt!Max({1, 2}) = 2
    BY TwoPlaces, FmtMin
  <2> QED BY <1>1, <2>1, TwoPlaces
<1>4. g[{}] = <<>> /\ g[{1}] = one /\ g[{2}] = two /\ g[{1, 2}] = both
  BY TwoPlaces
<1>5. Raw(g)
  <2>1. \A s \in SUBSET (1..2) : g[s] = Body(g, s)
    <3>1. Body(g, {}) = <<>> /\ Body(g, {1}) = one /\ Body(g, {2}) = two /\ Body(g, {1, 2}) = both
      <4> HIDE DEF Body, g
      <4> QED BY <1>3, <1>4 DEF one, two, both
    <3> SUFFICES ASSUME NEW s \in SUBSET (1..2) PROVE g[s] = Body(g, s)
      OBVIOUS
    <3> HIDE DEF Body, g
    <3>2. s = {} \/ s = {1} \/ s = {2} \/ s = {1, 2}
      BY TwoPlaces
    <3> QED BY <1>4, <3>1, <3>2
  <2>2. g = [s \in SUBSET (1..2) |-> g[s]]
    OBVIOUS
  <2> HIDE DEF Body, g
  <2>3. [s \in SUBSET (1..2) |-> g[s]] = [s \in SUBSET (1..2) |-> Body(g, s)]
    BY <2>1
  <2> QED BY <1>1, <2>2, <2>3
<1>6. Raw(f)
  <2> HIDE DEF Raw, g
  <2> QED BY <1>5
<1> HIDE DEF f
<1>7. \A s \in SUBSET (1..2) : f[s] = Body(f, s)
  <2> HIDE DEF Body
  <2> QED BY <1>1, <1>6
<1>8. f[{}] = <<>> /\ f[{1}] = one /\ f[1..2] = both
  <2> HIDE DEF Body
  <2>1. f[{}] = Body(f, {}) /\ f[{1}] = Body(f, {1}) /\ f[{1, 2}] = Body(f, {1, 2})
    BY <1>7, TwoPlaces
  <2> QED BY <1>3, <2>1, TwoPlaces DEF one, both
<1> QED BY <1>1, <1>2, <1>8 DEF q, one, both

LEMMA AskedOptimized ==
  ASSUME NEW c \in {"d", "s"}
  PROVE  Fmt!Optimized(Fmt!Nodes(Asks(c))) = <<Inserted(c)>>
<1>1. Fmt!Nodes(Asks(c)) = <<Fmt!Static(<<>>), Inserted(c)>>
  BY AskedIs, AskedParts, InsertedIs DEF AskedNodes
<1> DEFINE x == Fmt!Static(<<>>)
           y == Inserted(c)
<1>2. x.insert = FALSE /\ x.text = <<>>
  BY DEF Fmt!Static
<1>3. y.insert = TRUE
  BY DEF Inserted
<1> HIDE DEF x, y
<1>4. Fmt!Optimized(<<x, y>>) = PutNode(PutNode(<<>>, x), y)
  <2>1. Fmt!Optimized(<<x, y>>) = Fmt!FoldLeft(PutNode, <<>>, <<x, y>>)
    BY DEF Fmt!Optimized, PutNode
  <2> QED BY <2>1, PutTwo
<1>5. PutNode(PutNode(<<>>, x), y) = Append(<<>>, y)
  BY <1>2, <1>3 DEF PutNode
<1>6. Append(<<>>, y) = <<y>>
  OBVIOUS
<1> QED BY <1>1, <1>4, <1>5, <1>6 DEF x, y

-----------------------------------------------------------------------------
(* So what comes of it is what the argument is converted to.               *)

\* The text so far, with what is put for one node.
PutText(args, done, n) ==
  Fmt!Then(done, IF n.insert THEN Fmt!Convert(args[n.argument + 1], n.options) ELSE Fmt!Put(n.text))

LEMMA PutOne ==
  ASSUME NEW args, NEW base, NEW x
  PROVE  Fmt!FoldLeft(LAMBDA done, n : PutText(args, done, n), base, <<x>>) = PutText(args, base, x)
<1> DEFINE q == <<x>>
           Body(h, s) == IF s = {} THEN base ELSE PutText(args, h[s \ {Fmt!Max(s)}], q[Fmt!Max(s)])
           Raw(h) == h = [s \in SUBSET DOMAIN q |-> Body(h, s)]
           f == CHOOSE h : Raw(h)
           one == PutText(args, base, x)
           g == [s \in SUBSET (1..1) |-> IF s = {} THEN base ELSE one]
<1>1. DOMAIN q = 1..1 /\ q[1] = x
  OBVIOUS
<1>2. Fmt!FoldLeft(LAMBDA done, n : PutText(args, done, n), base, q) = f[DOMAIN q]
  BY DEF Fmt!FoldLeft, Fmt!MapThenFoldSet
<1> HIDE DEF q, one
<1>3. /\ \A h : Body(h, {}) = base
      /\ \A h : Body(h, {1}) = PutText(args, h[{}], x)
  <2>1. Fmt!Max({1}) = 1
    BY TwoPlaces, FmtMin
  <2> QED BY <1>1, <2>1, TwoPlaces
<1>4. 1..1 = {1} /\ \A s \in SUBSET (1..1) : s = {} \/ s = {1}
  <2>1. 1..1 = {1}
    OBVIOUS
  <2>2. \A s \in SUBSET {1} : s = {} \/ s = {1}
    OBVIOUS
  <2> QED BY <2>1, <2>2
<1>5. g[{}] = base /\ g[{1}] = one
  BY <1>4, TwoPlaces
<1>6. Raw(g)
  <2>1. \A s \in SUBSET (1..1) : g[s] = Body(g, s)
    <3>1. Body(g, {}) = base /\ Body(g, {1}) = one
      <4> HIDE DEF Body, g
      <4> QED BY <1>3, <1>5 DEF one
    <3> SUFFICES ASSUME NEW s \in SUBSET (1..1) PROVE g[s] = Body(g, s)
      OBVIOUS
    <3> HIDE DEF Body, g
    <3> QED BY <1>4, <1>5, <3>1
  <2>2. g = [s \in SUBSET (1..1) |-> g[s]]
    OBVIOUS
  <2> HIDE DEF Body, g
  <2>3. [s \in SUBSET (1..1) |-> g[s]] = [s \in SUBSET (1..1) |-> Body(g, s)]
    BY <2>1
  <2> QED BY <1>1, <2>2, <2>3
<1>7. Raw(f)
  <2> HIDE DEF Raw, g
  <2> QED BY <1>6
<1> HIDE DEF f
<1>8. f[{}] = Body(f, {}) /\ f[{1}] = Body(f, {1})
  <2> HIDE DEF Body
  <2>1. \A s \in SUBSET (1..1) : f[s] = Body(f, s)
    BY <1>1, <1>7
  <2> QED BY <1>4, <2>1
<1>9. f[1..1] = one
  <2> HIDE DEF Body
  <2> QED BY <1>3, <1>4, <1>8 DEF one
<1> QED BY <1>1, <1>2, <1>9 DEF q, one

\* What comes of a format string with one insertion is what its argument is converted to.
LEMMA AskedFor ==
  ASSUME NEW c \in {"d", "s"}, NEW v, NEW U, NEW w \in Seq(U),
         Fmt!Convert(v, Fmt!Options(<<c>>)) = Fmt!Put(w)
  PROVE  Fmt!FormatAs(Fmt!Asking(c), <<v>>) = w
<1> DEFINE x == Inserted(c)
           args == <<v>>
<1>1. x.insert = TRUE /\ x.argument = 0 /\ x.options = Fmt!Options(<<c>>)
  BY DEF Inserted
<1>2. args[0 + 1] = v
  OBVIOUS
<1> HIDE DEF x, args
<1>3. Fmt!Format(Asks(c), args) = PutText(args, Fmt!Put(<<>>), x)
  <2>1. Fmt!Format(Asks(c), args) =
          Fmt!FoldLeft(LAMBDA done, n : PutText(args, done, n), Fmt!Put(<<>>), Fmt!Optimized(Fmt!Nodes(Asks(c))))
    BY DEF Fmt!Format, PutText
  <2>2. Fmt!Optimized(Fmt!Nodes(Asks(c))) = <<x>>
    BY AskedOptimized DEF x
  <2>3. Fmt!FoldLeft(LAMBDA done, n : PutText(args, done, n), Fmt!Put(<<>>), Fmt!Optimized(Fmt!Nodes(Asks(c))))
          = Fmt!FoldLeft(LAMBDA done, n : PutText(args, done, n), Fmt!Put(<<>>), <<x>>)
    BY <2>2
  <2> QED BY <2>1, <2>3, PutOne
<1>4. PutText(args, Fmt!Put(<<>>), x) = Fmt!Then(Fmt!Put(<<>>), Fmt!Put(w))
  BY <1>1, <1>2 DEF PutText
<1>5. <<>> \o w = w
  BY ConcatEmptySeq
<1>6. /\ Fmt!Put(<<>>).error = "none" /\ Fmt!Put(<<>>).text = <<>>
      /\ Fmt!Put(w).error = "none" /\ Fmt!Put(w).text = w
  BY DEF Fmt!Put
<1>7. Fmt!Then(Fmt!Put(<<>>), Fmt!Put(w)) = [text |-> <<>> \o w, error |-> "none"]
  BY <1>6 DEF Fmt!Then
<1>8. Fmt!TextOf([text |-> w, error |-> "none"]) = w
  BY DEF Fmt!TextOf
<1> QED BY <1>3, <1>4, <1>5, <1>7, <1>8 DEF Fmt!FormatAs, Asks, args

\* The options of a type alone.
Plain(o, c) ==
  /\ o.direction = "none" /\ o.plus = FALSE /\ o.prefix = FALSE /\ o.zeros = FALSE /\ o.type = c

LEMMA OneOf ==
  ASSUME NEW c
  PROVE  /\ <<c>> \in Seq({c}) /\ Len(<<c>>) = 1 /\ <<c>>[1] = c /\ <<c>> # <<>> /\ Head(<<c>>) = c
         /\ SubSeq(<<c>>, 1, 1) = <<c>> /\ SubSeq(<<c>>, 1, 0) = <<>>
<1> DEFINE t == <<c>>
<1>1. t \in Seq({c}) /\ Len(t) = 1 /\ t[1] = c /\ t # <<>> /\ Head(t) = c
  OBVIOUS
<1> HIDE DEF t
<1>2. SubSeq(t, 1, 1) = t
  <2>1. /\ SubSeq(t, 1, 1) \in Seq({c}) /\ Len(SubSeq(t, 1, 1)) = 1
        /\ \A i \in 1..1 : SubSeq(t, 1, 1)[i] = t[1 + i - 1]
    <3>1. \A i \in 1..1 : t[i] \in {c}
      BY <1>1
    <3> QED BY <3>1, SubSeqProperties
  <2>2. \A i \in 1..1 : SubSeq(t, 1, 1)[i] = t[i]
    BY <2>1
  <2> QED BY <1>1, <2>1, <2>2, SameSeq
<1>3. SubSeq(t, 1, 0) = <<>>
  <2>1. SubSeq(t, 1, 0) \in Seq({c}) /\ Len(SubSeq(t, 1, 0)) = 0
    <3>1. \A i \in 1..0 : t[i] \in {c}
      OBVIOUS
    <3> QED BY <3>1, SubSeqProperties
  <2> QED BY <2>1, EmptySeq
<1> QED BY <1>1, <1>2, <1>3 DEF t

LEMMA OptionsPlain ==
  ASSUME NEW c \in {"d", "s"}
  PROVE  Plain(Fmt!Options(<<c>>), c)
<1> DEFINE t == <<c>>
<1>1. /\ t \in Seq({c}) /\ Len(t) = 1 /\ t[1] = c /\ t # <<>> /\ Head(t) = c
      /\ SubSeq(t, 1, 1) = t /\ SubSeq(t, 1, 0) = <<>>
  BY OneOf
<1> HIDE DEF t
<1>2. ~Fmt!IsDirection(c)
  BY DEF Fmt!IsDirection, Fmt!Directions
<1>3. Fmt!Behind(t, <<>>) = t
  BY <1>1 DEF Fmt!Behind
<1>4. c \in Fmt!Types /\ c \notin Fmt!Digit /\ c \notin {"+", "-"} /\ c # "#" /\ c # "0"
  BY DigitsAre DEF Fmt!Types, Fmt!Integral, Fmt!Decimal
<1>5. \A S : (c \notin S => ~Fmt!Starts(t, S) /\ Fmt!Skip(t, S) = t) /\ (c \in S => Fmt!Starts(t, S))
  BY <1>1 DEF Fmt!Starts, Fmt!Skip
<1>6. Fmt!Numeral(t) = <<>>
  <2> DEFINE F == {n \in 0..1 : \A i \in 1..n : t[i] \in Fmt!Digit}
  <2>1. Fmt!Max(F) = 0
    <3>1. 0 \in F /\ F \subseteq Nat /\ \A y \in F : 0 >= y
      BY <1>1, <1>4
    <3> HIDE DEF F
    <3> QED BY <3>1, MaxOf, FmtMin
  <2> QED BY <1>1, <2>1 DEF Fmt!Numeral
<1>7. /\ ~Fmt!Starts(t, {"+"}) /\ Fmt!Skip(t, {"+", "-"}) = t
      /\ ~Fmt!Starts(t, {"#"}) /\ Fmt!Skip(t, {"#"}) = t
      /\ ~Fmt!Starts(t, {"0"}) /\ Fmt!Skip(t, {"0"}) = t
      /\ Fmt!Starts(t, Fmt!Types)
  BY <1>4, <1>5
<1>8. ~(Len(t) > 1) /\ ~Fmt!IsDirection(t[1])
  BY <1>1, <1>2
<1> DEFINE filled == Len(t) > 1 /\ Fmt!IsDirection(t[2])
           aligned == filled \/ (t # <<>> /\ Fmt!IsDirection(t[1]))
           align == SubSeq(t, 1, IF filled THEN 2 ELSE IF aligned THEN 1 ELSE 0)
           sign == Fmt!Behind(t, align)
           pound == Fmt!Skip(sign, {"+", "-"})
           zero == Fmt!Skip(pound, {"#"})
           wide == Fmt!Skip(zero, {"0"})
           dot == Fmt!Behind(wide, Fmt!Numeral(wide))
           exact == Len(dot) > 1 /\ dot[1] = "." /\ dot[2] \in Fmt!Digit
           type == IF exact THEN Fmt!Behind(Tail(dot), Fmt!Numeral(Tail(dot))) ELSE dot
           as == IF Fmt!Starts(type, Fmt!Types) THEN Head(type) ELSE "none"
           towards == IF aligned THEN Fmt!Direction(Fmt!Last(align)) ELSE "none"
<1>9. Fmt!Options(t) =
        [fill |-> IF filled THEN t[1] ELSE Fmt!Space, direction |-> towards,
         plus |-> Fmt!Starts(sign, {"+"}), prefix |-> Fmt!Starts(pound, {"#"}),
         zeros |-> Fmt!Starts(zero, {"0"}), width |-> Fmt!Min({255, Fmt!Valued(Fmt!Numeral(wide))}),
         type |-> as, valid |-> Fmt!Skip(type, Fmt!Types) = <<>>]
  BY Zenon DEF Fmt!Options
<1>10. ~filled /\ ~aligned
  BY <1>8
<1>11. align = <<>>
  <2> HIDE DEF filled, aligned
  <2> QED BY <1>1, <1>10
<1>12. towards = "none"
  <2> HIDE DEF aligned
  <2> QED BY <1>10
<1> HIDE DEF filled, aligned, align, towards
<1>13. sign = t
  BY <1>3, <1>11
<1> HIDE DEF sign
<1>14. pound = t
  BY <1>7, <1>13
<1> HIDE DEF pound
<1>15. zero = t
  BY <1>7, <1>14
<1> HIDE DEF zero
<1>16. wide = t
  BY <1>7, <1>15
<1> HIDE DEF wide
<1>17. dot = t
  BY <1>3, <1>6, <1>16
<1> HIDE DEF dot
<1>18. type = t
  BY <1>8, <1>17
<1> HIDE DEF type
<1>19. as = c
  BY <1>1, <1>7, <1>18
<1> HIDE DEF as
<1>20. /\ Fmt!Options(t).direction = towards /\ Fmt!Options(t).type = as
       /\ Fmt!Options(t).plus = Fmt!Starts(sign, {"+"}) /\ Fmt!Options(t).prefix = Fmt!Starts(pound, {"#"})
       /\ Fmt!Options(t).zeros = Fmt!Starts(zero, {"0"})
  BY <1>9
<1> QED BY <1>7, <1>12, <1>13, <1>14, <1>15, <1>19, <1>20 DEF Plain, t

-----------------------------------------------------------------------------
(* What is printed of numbers and truth values.                            *)

\* A number in decimal: a minus if there must be one, and a numeral.
Sign(n) == IF n < 0 THEN <<"-">> ELSE <<>>
Size(n) == IF n < 0 THEN -n ELSE n
Decimal(n, w) == \E d : IsNumeral(d, Size(n)) /\ w = Sign(n) \o d

\* The characters of a printed number, and one that is none of them.
Marks == Fmt!Digit \cup {"-", "x"}

LEMMA PrintedNumber ==
  ASSUME NEW n \in Int, NEW o, Plain(o, "d"), NEW negative, negative = (n < 0)
  PROVE  \E w : Decimal(n, w) /\ w \in Seq(Marks) /\ Fmt!Numeric(Size(n), o, negative) = Fmt!Put(w)
<1>1. o.direction = "none" /\ o.plus = FALSE /\ o.prefix = FALSE /\ o.zeros = FALSE /\ o.type = "d"
  BY DEF Plain
<1>2. PICK d : d = Fmt!InBase(Size(n), "d") /\ IsNumeral(d, Size(n))
  <2>1. Size(n) \in Nat
    BY DEF Size
  <2> QED BY <2>1, InDecimal
<1> DEFINE s == Sign(n)
           w == s \o d
<1>3. s \in Seq(Marks) /\ d \in Seq(Marks)
  <2>1. d \in Seq(Fmt!Digit) /\ Fmt!Digit \subseteq Marks
    BY <1>2 DEF IsNumeral, Marks
  <2>2. d \in Seq(Marks)
    <3>1. Len(d) \in Nat /\ DOMAIN d = 1..Len(d) /\ \A i \in 1..Len(d) : d[i] \in Marks
      BY <2>1, LenProperties, ElementOfSeq
    <3>2. d = [i \in 1..Len(d) |-> d[i]]
      BY <2>1, <3>1
    <3> QED BY <3>1, <3>2, IsASeq
  <2>3. <<"-">> \in Seq(Marks) /\ <<>> \in Seq(Marks)
    <3>1. "-" \in Marks
      BY DEF Marks
    <3> QED BY <3>1
  <2> QED BY <2>2, <2>3 DEF Sign
<1>4. s \o <<>> = s /\ w \in Seq(Marks)
  <2> HIDE DEF s
  <2> QED BY <1>3, ConcatEmptySeq, ConcatProperties
<1>5. s = IF negative THEN <<"-">> ELSE IF o.plus THEN <<"+">> ELSE <<>>
  BY <1>1 DEF Sign
<1>6. Fmt!Numeric(Size(n), o, negative) = Fmt!Put(Fmt!Aligned((s \o <<>>) \o d, o))
  <2> HIDE DEF s
  <2> QED BY <1>1, <1>2, <1>5, Zenon DEF Fmt!Numeric
<1>7. Fmt!Aligned(w, o) = w
  <2> HIDE DEF w
  <2> QED BY <1>1 DEF Fmt!Aligned
<1>8. Decimal(n, w)
  BY <1>2 DEF Decimal
<1> HIDE DEF s
<1> QED BY <1>4, <1>6, <1>7, <1>8

\* What the log prints of a number.
LEMMA NumberPrinted ==
  ASSUME NEW n \in Int
  PROVE  \E w : Decimal(n, w) /\ w \in Seq(Marks) /\ Fmt!FormatAs(Fmt!Asking("d"), <<Fmt!Number(n)>>) = w
<1> DEFINE o == Fmt!Options(<<"d">>)
           v == Fmt!Number(n)
<1>1. Plain(o, "d")
  BY OptionsPlain
<1>2. v.kind = "number" /\ v.is = n
  BY DEF Fmt!Number
<1>3. o.type = "d"
  BY <1>1 DEF Plain
<1> HIDE DEF o, v
<1>4. Fmt!Convert(v, o) = Fmt!Integer(n, o, FALSE)
  BY <1>2 DEF Fmt!Convert, Fmt!ConvertOne
<1>5. Fmt!Integer(n, o, FALSE) = Fmt!Numeric(Size(n), o, n < 0)
  <2>1. "d" \notin {"c", "s"} /\ "d" \notin Fmt!Float /\ "d" \in Fmt!Integral
    BY DEF Fmt!Float, Fmt!Integral, Fmt!Decimal
  <2> QED BY <1>3, <2>1, Zenon DEF Fmt!Integer, Size
<1>6. PICK w : Decimal(n, w) /\ w \in Seq(Marks) /\ Fmt!Numeric(Size(n), o, n < 0) = Fmt!Put(w)
  <2>1. PICK negative : negative = (n < 0)
    OBVIOUS
  <2> QED BY <1>1, <2>1, PrintedNumber
<1>7. Fmt!FormatAs(Fmt!Asking("d"), <<v>>) = w
  <2>1. Fmt!Convert(v, Fmt!Options(<<"d">>)) = Fmt!Put(w)
    BY <1>4, <1>5, <1>6 DEF o
  <2> QED BY <1>6, <2>1, AskedFor
<1> QED BY <1>6, <1>7 DEF v

\* And of a truth value.
LEMMA TruthPrinted ==
  ASSUME NEW b \in BOOLEAN
  PROVE  LET v == [kind |-> "boolean", is |-> b]
         IN  /\ Fmt!FormatAs(Fmt!Asking("s"), <<v>>) =
                  IF b THEN <<"t", "r", "u", "e">> ELSE <<"f", "a", "l", "s", "e">>
             /\ \E w : /\ Decimal(IF b THEN 1 ELSE 0, w) /\ w \in Seq(Marks)
                       /\ Fmt!FormatAs(Fmt!Asking("d"), <<v>>) = w
<1> DEFINE v == [kind |-> "boolean", is |-> b]
           o(c) == Fmt!Options(<<c>>)
           t == IF b THEN <<"t", "r", "u", "e">> ELSE <<"f", "a", "l", "s", "e">>
           U == {"t", "r", "u", "e", "f", "a", "l", "s"}
           n == IF b THEN 1 ELSE 0
<1>1. v.kind = "boolean" /\ v.is = b
  OBVIOUS
<1>2. \A c \in {"d", "s"} : Plain(o(c), c)
  BY OptionsPlain
<1>3. t \in Seq(U)
  <2>1. <<"t", "r", "u", "e">> \in Seq(U)
    OBVIOUS
  <2>2. <<"f", "a", "l", "s", "e">> \in Seq(U)
    OBVIOUS
  <2> HIDE DEF U
  <2> QED BY <2>1, <2>2
<1> HIDE DEF v, o
<1>4. \A c : Fmt!Convert(v, o(c)) = Fmt!Boolean(b, o(c))
  BY <1>1 DEF Fmt!Convert, Fmt!ConvertOne
<1>5. Fmt!FormatAs(Fmt!Asking("s"), <<v>>) = t
  <2>1. Fmt!Boolean(b, o("s")) = Fmt!Put(Fmt!Aligned(t, o("s")))
    <3>1. o("s").type = "s"
      BY <1>2 DEF Plain
    <3> QED BY <3>1, Zenon DEF Fmt!Boolean
  <2>2. Fmt!Aligned(t, o("s")) = t
    <3>1. o("s").direction = "none"
      BY <1>2 DEF Plain
    <3> HIDE DEF t
    <3> QED BY <3>1 DEF Fmt!Aligned
  <2>3. Fmt!Convert(v, Fmt!Options(<<"s">>)) = Fmt!Put(t)
    BY <1>4, <2>1, <2>2 DEF o
  <2> HIDE DEF t, U
  <2> QED BY <1>3, <2>3, AskedFor
<1>6. \E w : Decimal(n, w) /\ w \in Seq(Marks) /\ Fmt!FormatAs(Fmt!Asking("d"), <<v>>) = w
  <2> DEFINE p == [o("d") EXCEPT !.type = "d"]
  <2>1. Plain(o("d"), "d")
    BY <1>2
  <2>2. Plain(p, "d")
    BY <2>1 DEF Plain
  <2>3. o("d").type = "d" /\ "d" # "s"
    BY <2>1 DEF Plain
  <2>4. Fmt!Boolean(b, o("d")) = Fmt!Numeric(n, p, FALSE)
    BY <2>3, Zenon DEF Fmt!Boolean
  <2>5. n \in Int /\ Size(n) = n /\ FALSE = (n < 0)
    BY DEF Size
  <2> HIDE DEF p, n
  <2>6. PICK w : Decimal(n, w) /\ w \in Seq(Marks) /\ Fmt!Numeric(Size(n), p, FALSE) = Fmt!Put(w)
    <3>1. PICK negative : negative = FALSE /\ negative = (n < 0)
      BY <2>5
    <3>2. \E w : Decimal(n, w) /\ w \in Seq(Marks) /\ Fmt!Numeric(Size(n), p, negative) = Fmt!Put(w)
      BY <2>2, <2>5, <3>1, PrintedNumber
    <3> QED BY <3>1, <3>2
  <2>7. Fmt!Convert(v, Fmt!Options(<<"d">>)) = Fmt!Put(w)
    BY <1>4, <2>4, <2>5, <2>6 DEF o
  <2> QED BY <2>6, <2>7, AskedFor
<1> QED BY <1>5, <1>6 DEF v

-----------------------------------------------------------------------------
(* What is read of a word that begins with a number.                       *)

LEMMA MarksApart == "x" \notin Fmt!Digit /\ "-" \notin Fmt!Digit /\ Fmt!Digit \subseteq Marks /\ "x" \in Marks /\ "-" \in Marks
BY DigitsAre DEF Marks

LEMMA DigitsAmongMarks ==
  ASSUME NEW d \in Seq(Fmt!Digit)
  PROVE  d \in Seq(Marks)
<1>1. Fmt!Digit \subseteq Marks
  BY MarksApart
<1>2. Len(d) \in Nat /\ DOMAIN d = 1..Len(d) /\ \A i \in 1..Len(d) : d[i] \in Marks
  BY <1>1, LenProperties, ElementOfSeq
<1>3. d = [i \in 1..Len(d) |-> d[i]]
  BY <1>2
<1> QED BY <1>2, <1>3, IsASeq

\* The digits that a text begins with are all there are up to something else.
LEMMA NumeralIs ==
  ASSUME NEW d \in Seq(Fmt!Digit), NEW r \in Seq(Marks), r # <<>> => r[1] \notin Fmt!Digit
  PROVE  Fmt!Numeral(d \o r) = d
<1> DEFINE t == d \o r
           a == Len(d)
           b == Len(r)
           F == {n \in 0..Len(t) : \A i \in 1..n : t[i] \in Fmt!Digit}
<1>1. d \in Seq(Marks) /\ a \in Nat /\ b \in Nat /\ \A i \in 1..a : d[i] \in Fmt!Digit
  BY DigitsAmongMarks, LenProperties, ElementOfSeq
<1>2. Placed(Marks, t, d, r, a, b)
  BY <1>1, Places
<1>3. /\ t \in Seq(Marks) /\ Len(t) = a + b
      /\ (\A k \in 1..a : t[k] = d[k]) /\ (\A k \in 1..b : t[a + k] = r[k])
  BY <1>2 DEF Placed
<1>4. b # 0 => r # <<>>
  BY EmptySeq
<1> HIDE DEF t, a, b
<1>5. Fmt!Max(F) = a
  <2>1. a \in F
    BY <1>1, <1>3
  <2>2. F \subseteq Nat
    BY <1>1, <1>3
  <2>3. ASSUME NEW y \in F PROVE a >= y
    <3>1. SUFFICES ASSUME a < y PROVE FALSE
      BY <1>1, <2>2
    <3>2. y \in 0..(a + b) /\ a + 1 \in 1..y /\ 1 \in 1..b
      BY <1>1, <1>3, <3>1
    <3>3. t[a + 1] \in Fmt!Digit
      BY <3>2
    <3>4. t[a + 1] = r[1] /\ b # 0
      BY <1>1, <1>3, <3>2
    <3> QED BY <1>4, <3>3, <3>4
  <2> HIDE DEF F
  <2>4. Max(F) = a
    BY <2>1, <2>2, <2>3, MaxOf
  <2> QED BY <2>4, FmtMin
<1>6. SubSeq(t, 1, a) = d
  <2>1. ASSUME NEW i \in 1..a PROVE t[i] \in Marks
    <3>1. i \in 1..Len(t)
      BY <1>1, <1>3
    <3> QED BY <1>3, <3>1, ElementOfSeq
  <2>2. /\ SubSeq(t, 1, a) \in Seq(Marks)
        /\ Len(SubSeq(t, 1, a)) = IF 1 <= a THEN a - 1 + 1 ELSE 0
        /\ \A i \in 1..(a - 1 + 1) : SubSeq(t, 1, a)[i] = t[1 + i - 1]
    BY <1>1, <2>1, SubSeqProperties
  <2>3. a - 1 + 1 = a /\ \A i \in 1..a : 1 + i - 1 = i
    BY <1>1
  <2>4. Len(SubSeq(t, 1, a)) = a /\ \A i \in 1..a : SubSeq(t, 1, a)[i] = d[i]
    BY <1>1, <1>3, <2>2, <2>3
  <2>5. Len(d) = a
    BY DEF a
  <2> QED BY <1>1, <2>2, <2>4, <2>5, SameSeq
<1>7. Fmt!Numeral(t) = SubSeq(t, 1, Fmt!Max(F))
  BY DEF Fmt!Numeral
<1> QED BY <1>5, <1>6, <1>7 DEF t

\* What is read of a number, whatever the word goes on with.
Reads(n, text, least, largest) ==
  FromChars(text, least, largest) = IF n \in least..largest THEN Value(n) ELSE NoValue

\* What may be behind a number: anything but another digit.
Behind(r) == r \in Seq(Marks) /\ (r # <<>> => r[1] \notin Fmt!Digit)

\* A number without a sign is read, and one with it.
LEMMA ReadsPositive ==
  ASSUME NEW n \in Nat, NEW d, IsNumeral(d, n), NEW r, Behind(r), NEW least \in Int, NEW largest \in Int
  PROVE  Reads(n, d \o r, least, largest) /\ d \o r # <<>> /\ (d \o r)[1] \in Fmt!Digit
<1>1. d \in Seq(Fmt!Digit) /\ d # <<>> /\ Fmt!Valued(d) = n
  BY DEF IsNumeral
<1>2. Fmt!Numeral(d \o r) = d
  BY <1>1, NumeralIs DEF Behind
<1> DEFINE t == d \o r
<1>3. /\ d \in Seq(Marks) /\ r \in Seq(Marks) /\ Len(d) \in Nat /\ Len(d) # 0 /\ Len(r) \in Nat
      /\ d[1] \in Fmt!Digit
  BY <1>1, DigitsAmongMarks, LenProperties, EmptySeq, ElementOfSeq DEF Behind
<1>4. t \in Seq(Marks) /\ Len(t) = Len(d) + Len(r) /\ t[1] = d[1]
  <2>1. PICK a, b : a = Len(d) /\ b = Len(r)
    OBVIOUS
  <2>2. Placed(Marks, t, d, r, a, b)
    BY <1>3, <2>1, Places
  <2>3. 1 \in 1..a
    BY <1>3, <2>1
  <2> QED BY <2>1, <2>2, <2>3 DEF Placed
<1> HIDE DEF t
<1>5. t # <<>> /\ Head(t) = t[1] /\ Head(t) # "-"
  <2>1. t # <<>>
    BY <1>3, <1>4, EmptySeq
  <2>2. Head(t) = t[1]
    BY <1>4, <2>1, HeadTailProperties
  <2> QED BY <1>3, <1>4, <2>1, <2>2, MarksApart
<1>6. FromChars(t, least, largest) =
        IF d # <<>> /\ n \in least..largest THEN Value(n) ELSE NoValue
  BY <1>1, <1>2, <1>5, Zenon DEF FromChars, t
<1> QED BY <1>1, <1>3, <1>4, <1>5, <1>6 DEF Reads, t

LEMMA MinusIs ==
  ASSUME NEW d \in Seq(Marks), NEW r \in Seq(Marks)
  PROVE  LET t == (<<"-">> \o d) \o r
         IN  /\ t \in Seq(Marks) /\ t # <<>> /\ t[1] = "-" /\ Head(t) = "-" /\ Tail(t) = d \o r
<1> DEFINE m == <<"-">>
           e == d \o r
           t == m \o e
<1>1. m \in Seq(Marks) /\ Len(m) = 1 /\ m[1] = "-"
  BY MarksApart
<1>2. (m \o d) \o r = t
  BY <1>1, Assoc
<1>3. e \in Seq(Marks) /\ Len(e) \in Nat
  BY ConcatProperties, LenProperties
<1> HIDE DEF m, e
<1>4. PICK a \in Nat : a = Len(e)
  BY <1>3
<1>5. Placed(Marks, t, m, e, 1, a)
  BY <1>1, <1>3, <1>4, Places
<1>6. t \in Seq(Marks) /\ Len(t) = 1 + a /\ t[1] = "-" /\ \A k \in 1..a : t[1 + k] = e[k]
  BY <1>1, <1>5 DEF Placed
<1> HIDE DEF t
<1>7. t # <<>>
  BY <1>4, <1>6, EmptySeq
<1>8. /\ Head(t) = t[1] /\ Tail(t) \in Seq(Marks) /\ Len(Tail(t)) = Len(t) - 1
      /\ \A i \in 1..Len(Tail(t)) : Tail(t)[i] = t[i + 1]
  BY <1>6, <1>7, HeadTailProperties
<1>9. Tail(t) = e
  <2>1. Len(Tail(t)) = a
    BY <1>4, <1>6, <1>8
  <2>2. \A i \in 1..a : Tail(t)[i] = e[i]
    <3>1. \A i \in 1..a : i + 1 = 1 + i
      BY <1>4
    <3> QED BY <1>6, <1>8, <2>1, <3>1
  <2> QED BY <1>3, <1>4, <1>8, <2>1, <2>2, SameSeq
<1> QED BY <1>2, <1>6, <1>7, <1>8, <1>9 DEF m, e

LEMMA ReadsNegative ==
  ASSUME NEW n \in Int, n < 0, NEW d, IsNumeral(d, -n), NEW r, Behind(r), NEW least \in Int, NEW largest \in Int
  PROVE  LET t == (<<"-">> \o d) \o r
         IN  Reads(n, t, least, largest) /\ t # <<>> /\ t[1] = "-"
<1>1. d \in Seq(Fmt!Digit) /\ d # <<>> /\ Fmt!Valued(d) = -n /\ -(-n) = n
  BY DEF IsNumeral
<1> DEFINE t == (<<"-">> \o d) \o r
<1>2. d \in Seq(Marks) /\ r \in Seq(Marks)
  BY <1>1, DigitsAmongMarks DEF Behind
<1>3. t \in Seq(Marks) /\ t # <<>> /\ t[1] = "-" /\ Head(t) = "-" /\ Tail(t) = d \o r
  BY <1>2, MinusIs
<1> HIDE DEF t
<1>4. Fmt!Numeral(d \o r) = d
  BY <1>1, NumeralIs DEF Behind
<1>5. Fmt!Numeral(t) = <<>>
  <2>1. <<>> \in Seq(Fmt!Digit) /\ <<>> \o t = t
    BY <1>3, ConcatEmptySeq
  <2>2. t[1] \notin Fmt!Digit
    BY <1>3, MarksApart
  <2> QED BY <1>3, <2>1, <2>2, NumeralIs
<1>6. CASE least < 0
  <2>1. FromChars(t, least, largest) =
          IF d # <<>> /\ -Fmt!Valued(d) \in least..largest THEN Value(-Fmt!Valued(d)) ELSE NoValue
    BY <1>3, <1>4, <1>6, Zenon DEF FromChars
  <2>2. -Fmt!Valued(d) = n
    BY <1>1
  <2>3. Reads(n, t, least, largest)
    BY <1>1, <2>1, <2>2, Zenon DEF Reads
  <2> QED BY <1>3, <2>3 DEF t
<1>7. CASE ~(least < 0)
  <2>1. FromChars(t, least, largest) = NoValue
    BY <1>5, <1>7, Zenon DEF FromChars
  <2>2. n \notin least..largest
    BY <1>7
  <2>3. Reads(n, t, least, largest)
    BY <2>1, <2>2, Zenon DEF Reads
  <2> QED BY <1>3, <2>3 DEF t
<1> QED BY <1>6, <1>7

LEMMA NumberRead ==
  ASSUME NEW n \in Int, NEW w, Decimal(n, w), NEW r, Behind(r), NEW least \in Int, NEW largest \in Int
  PROVE  /\ Reads(n, w \o r, least, largest)
         /\ w \o r # <<>> /\ (w \o r)[1] \in Fmt!Digit \cup {"-"}
<1>1. PICK d : IsNumeral(d, Size(n)) /\ w = Sign(n) \o d
  BY DEF Decimal
<1>2. CASE n < 0
  <2>1. IsNumeral(d, -n) /\ w = <<"-">> \o d
    BY <1>1, <1>2 DEF Size, Sign
  <2>2. PICK t : t = (<<"-">> \o d) \o r
    OBVIOUS
  <2>3. Reads(n, t, least, largest) /\ t # <<>> /\ t[1] = "-"
    BY <1>2, <2>1, <2>2, ReadsNegative
  <2> QED BY <2>1, <2>2, <2>3
<1>3. CASE ~(n < 0)
  <2>1. IsNumeral(d, n) /\ n \in Nat /\ w = <<>> \o d
    BY <1>1, <1>3 DEF Size, Sign
  <2>2. <<>> \o d = d
    BY <2>1, ConcatEmptySeq DEF IsNumeral
  <2>3. Reads(n, d \o r, least, largest) /\ d \o r # <<>> /\ (d \o r)[1] \in Fmt!Digit
    BY <2>1, ReadsPositive
  <2> QED BY <2>1, <2>2, <2>3
<1> QED BY <1>2, <1>3

LEMMA BehindIs == Behind(<<>>) /\ Behind(<<"x">>)
<1>1. <<>> \in Seq(Marks) /\ <<"x">> \in Seq(Marks) /\ <<"x">>[1] = "x"
  BY MarksApart
<1> QED BY <1>1, MarksApart DEF Behind

\* What an int holds.
IntRange == IntLeast..IntLargest

LEMMA IntRangeIs == IntLeast \in Int /\ IntLargest \in Int /\ {-16, 0, 1, 15} \subseteq IntRange /\ IntRange \subseteq Int
<1>1. IntLeast \in Int
  BY DEF IntLeast
<1>2. IntLargest \in Int
  BY DEF IntLargest
<1>3. IntLeast <= -16 /\ 15 <= IntLargest
  BY DEF IntLeast, IntLargest
<1>4. 0 \in IntRange /\ 1 \in IntRange /\ -16 \in IntRange /\ 15 \in IntRange
  BY <1>1, <1>2, <1>3 DEF IntRange
<1>5. IntRange \subseteq Int
  BY <1>1, <1>2 DEF IntRange
<1> QED BY <1>1, <1>2, <1>4, <1>5

\* A number is read as a truth value too.
LEMMA TruthRead ==
  ASSUME NEW n \in IntRange, NEW w, Decimal(n, w), NEW r, Behind(r)
  PROVE  ConvertArg(Truth, w \o r) = Value(n # 0)
<1>1. PICK t : t = w \o r
  OBVIOUS
<1>2. Reads(n, t, IntLeast, IntLargest) /\ t[1] \in Fmt!Digit \cup {"-"}
  BY <1>1, IntRangeIs, NumberRead
<1>3. t \notin Truths /\ t \notin Falsehoods
  <2>1. t[1] \notin {"t", "T", "f", "F"}
    BY <1>2, DigitsAre
  <2>2. ASSUME NEW u \in Truths PROVE u[1] \in {"t", "T"}
    BY DEF Truths
  <2>3. ASSUME NEW u \in Falsehoods PROVE u[1] \in {"f", "F"}
    BY DEF Falsehoods
  <2> QED BY <2>1, <2>2, <2>3
<1>4. FromChars(t, IntLeast, IntLargest) = Value(n)
  BY <1>2 DEF Reads, IntRange
<1>5. Truth.kind = "truth"
  BY DEF Truth
<1>6. Value(n).ok = TRUE /\ Value(n).value = n
  BY DEF Value
<1> HIDE DEF Truth
<1>7. ConvertArg(Truth, t) = Value(n # 0)
  BY <1>3, <1>4, <1>5, <1>6 DEF ConvertArg
<1> QED BY <1>1, <1>7

NumberType(least, largest) == [kind |-> "number", least |-> least, largest |-> largest]

-----------------------------------------------------------------------------
(* What the arguments of a command are.                                    *)

LEMMA ValueIs ==
  ASSUME NEW v
  PROVE  Value(v).ok = TRUE /\ Value(v).value = v /\ NoValue.ok = FALSE
BY DEF Value, NoValue

\* Two arguments from three words that are the same.
LEMMA DoneBoth ==
  ASSUME NEW s, NEW t, NEW word, NEW v, NEW u, ConvertArg(s, word) = Value(v), ConvertArg(t, word) = Value(u)
  PROVE  Done(<<s, t>>, <<word, word, word>>) = Value(<<v, u>>)
<1> DEFINE types == <<s, t>>
           words == <<word, word, word>>
           A(i) == ConvertArg(types[i], IF i <= Len(words) THEN words[i] ELSE <<>>)
<1>1. DOMAIN types = {1, 2} /\ types[1] = s /\ types[2] = t
  OBVIOUS
<1>2. Len(words) = 3 /\ words[1] = word /\ words[2] = word
  OBVIOUS
<1>3. A(1) = Value(v) /\ A(2) = Value(u)
  <2> HIDE DEF types, words
  <2> QED BY <1>1, <1>2
<1>4. Done(types, words) =
        IF \A i \in DOMAIN types : A(i).ok THEN Value([i \in DOMAIN types |-> A(i).value]) ELSE NoValue
  BY Zenon DEF Done
<1>5. Value(v).ok = TRUE /\ Value(v).value = v /\ Value(u).ok = TRUE /\ Value(u).value = u
  BY ValueIs
<1> HIDE DEF A
<1>6. \A i \in DOMAIN types : A(i).ok
  <2> HIDE DEF types
  <2> QED BY <1>1, <1>3, <1>5
<1>7. [i \in DOMAIN types |-> A(i).value] = <<v, u>>
  <2>1. PICK f : f = [i \in {1, 2} |-> A(i).value]
    OBVIOUS
  <2>2. DOMAIN f = {1, 2} /\ f[1] = v /\ f[2] = u
    BY <1>3, <1>5, <2>1
  <2>3. f = [i \in 1..2 |-> <<v, u>>[i]]
    BY <2>1, <2>2
  <2>4. <<v, u>> = [i \in 1..2 |-> <<v, u>>[i]]
    OBVIOUS
  <2> HIDE DEF types
  <2> QED BY <1>1, <2>1, <2>3, <2>4
<1> QED BY <1>4, <1>6, <1>7

LEMMA DoneNeither ==
  ASSUME NEW s, NEW t, NEW word, ConvertArg(s, word) = NoValue
  PROVE  Done(<<s, t>>, <<word, word, word>>) = NoValue
<1> DEFINE types == <<s, t>>
           words == <<word, word, word>>
           A(i) == ConvertArg(types[i], IF i <= Len(words) THEN words[i] ELSE <<>>)
<1>1. DOMAIN types = {1, 2} /\ types[1] = s
  OBVIOUS
<1>2. Len(words) = 3 /\ words[1] = word
  OBVIOUS
<1>3. A(1) = NoValue
  <2> HIDE DEF types, words
  <2> QED BY <1>1, <1>2
<1>4. Done(types, words) =
        IF \A i \in DOMAIN types : A(i).ok THEN Value([i \in DOMAIN types |-> A(i).value]) ELSE NoValue
  BY Zenon DEF Done
<1>5. NoValue.ok = FALSE
  BY ValueIs
<1> HIDE DEF A
<1>6. ~\A i \in DOMAIN types : A(i).ok
  <2> HIDE DEF types
  <2> QED BY <1>1, <1>3, <1>5
<1> QED BY <1>4, <1>6

LEMMA DoneOne ==
  ASSUME NEW t, NEW word, NEW u, ConvertArg(t, word) = Value(u)
  PROVE  Done(<<t>>, <<word>>) = Value(<<u>>)
<1> DEFINE types == <<t>>
           words == <<word>>
           A(i) == ConvertArg(types[i], IF i <= Len(words) THEN words[i] ELSE <<>>)
<1>1. DOMAIN types = {1} /\ types[1] = t
  OBVIOUS
<1>2. Len(words) = 1 /\ words[1] = word
  OBVIOUS
<1>3. A(1) = Value(u)
  <2> HIDE DEF types, words
  <2> QED BY <1>1, <1>2
<1>4. Done(types, words) =
        IF \A i \in DOMAIN types : A(i).ok THEN Value([i \in DOMAIN types |-> A(i).value]) ELSE NoValue
  BY Zenon DEF Done
<1>5. Value(u).ok = TRUE /\ Value(u).value = u
  BY ValueIs
<1> HIDE DEF A
<1>6. \A i \in DOMAIN types : A(i).ok
  <2> HIDE DEF types
  <2> QED BY <1>1, <1>3, <1>5
<1>7. [i \in DOMAIN types |-> A(i).value] = <<u>>
  <2>1. PICK f : f = [i \in {1} |-> A(i).value]
    OBVIOUS
  <2>2. f = [i \in 1..1 |-> <<u>>[i]]
    BY <1>3, <1>5, <2>1
  <2>3. <<u>> = [i \in 1..1 |-> <<u>>[i]]
    OBVIOUS
  <2> HIDE DEF types
  <2> QED BY <1>1, <2>1, <2>2, <2>3
<1> QED BY <1>4, <1>6, <1>7

LEMMA ReadsBoth ==
  ASSUME NEW n \in Int, NEW w, Decimal(n, w), NEW r, Behind(r), NEW least \in IntRange, NEW largest \in IntRange
  PROVE  ReadsNumber(NumberType(least, largest), n, w \o r)
<1>1. PICK word : word = w \o r
  OBVIOUS
<1>2. PICK type : type = NumberType(least, largest)
  OBVIOUS
<1>3. type.kind = "number" /\ type.least = least /\ type.largest = largest
  BY <1>2 DEF NumberType
<1>4. least \in Int /\ largest \in Int
  BY IntRangeIs
<1>5. Reads(n, word, least, largest)
  BY <1>1, <1>4, NumberRead
<1>6. ConvertArg(type, word) = FromChars(word, least, largest)
  BY <1>3 DEF ConvertArg
<1>7. CASE n \in least..largest
  <2>1. n \in IntRange
    BY <1>4, <1>7, IntRangeIs DEF IntRange
  <2>2. ConvertArg(type, word) = Value(n)
    BY <1>5, <1>6, <1>7 DEF Reads
  <2>3. ConvertArg(Truth, word) = Value(n # 0)
    BY <1>1, <2>1, TruthRead
  <2>4. Done(<<type, Truth>>, <<word, word, word>>) = Value(<<n, n # 0>>)
    BY <2>2, <2>3, DoneBoth
  <2> QED BY <1>1, <1>2, <1>3, <1>7, <2>4, Zenon DEF ReadsNumber
<1>8. CASE n \notin least..largest
  <2>1. ConvertArg(type, word) = NoValue
    BY <1>5, <1>6, <1>8 DEF Reads
  <2>2. Done(<<type, Truth>>, <<word, word, word>>) = NoValue
    BY <2>1, DoneNeither
  <2> QED BY <1>1, <1>2, <1>3, <1>8, <2>2, Zenon DEF ReadsNumber
<1> QED BY <1>7, <1>8

\* A truth value is read as it is printed, as a number and as a word.
LEMMA TruthReadBack ==
  ASSUME NEW b \in BOOLEAN, NEW option \in {"d", "s"}
  PROVE  ReadsTruth(b, Fmt!FormatAs(Fmt!Asking(option), <<[kind |-> "boolean", is |-> b]>>))
<1> DEFINE v == [kind |-> "boolean", is |-> b]
           m == IF b THEN 1 ELSE 0
           t == IF b THEN <<"t", "r", "u", "e">> ELSE <<"f", "a", "l", "s", "e">>
<1>1. PICK word : word = Fmt!FormatAs(Fmt!Asking(option), <<v>>)
  OBVIOUS
<1>2. /\ Fmt!FormatAs(Fmt!Asking("s"), <<v>>) = t
      /\ \E w : /\ Decimal(m, w) /\ w \in Seq(Marks)
                /\ Fmt!FormatAs(Fmt!Asking("d"), <<v>>) = w
  BY TruthPrinted
<1> HIDE DEF v
<1>3. ConvertArg(Truth, word) = Value(b)
  <2>1. CASE option = "s"
    <3>1. word = t
      BY <1>1, <1>2, <2>1
    <3>2. Truth.kind = "truth"
      BY DEF Truth
    <3>3. CASE b = TRUE
      <4>1. word \in Truths
        BY <3>1, <3>3 DEF Truths
      <4> HIDE DEF t
      <4> QED BY <3>2, <3>3, <4>1 DEF ConvertArg
    <3>4. CASE b = FALSE
      <4>1. word = <<"f", "a", "l", "s", "e">>
        BY <3>1, <3>4
      <4>2. word \in Falsehoods
        BY <4>1 DEF Falsehoods
      <4>3. word \notin Truths
        BY <4>1 DEF Truths
      <4> HIDE DEF t
      <4> QED BY <3>2, <3>4, <4>2, <4>3 DEF ConvertArg
    <3> QED BY <3>3, <3>4
  <2>2. CASE option = "d"
    <3>1. PICK w : Decimal(m, w) /\ w \in Seq(Marks) /\ word = w
      BY <1>1, <1>2, <2>2
    <3>2. w \o <<>> = w
      BY <3>1, ConcatEmptySeq
    <3>3. m \in IntRange /\ ((m # 0) = b)
      BY IntRangeIs
    <3>4. ConvertArg(Truth, w \o <<>>) = Value(m # 0)
      BY <3>1, <3>3, BehindIs, TruthRead
    <3> HIDE DEF m
    <3> QED BY <3>1, <3>2, <3>3, <3>4
  <2> QED BY <2>1, <2>2
<1>4. Done(<<Truth>>, <<word>>) = Value(<<b>>)
  BY <1>3, DoneOne
<1> QED BY <1>1, <1>4, Zenon DEF ReadsTruth, v

LEMMA NumberReadBack ==
  ASSUME NEW n \in Int, NEW least \in IntRange, NEW largest \in IntRange
  PROVE  ReadsNumber(NumberType(least, largest), n, Fmt!FormatAs(Fmt!Asking("d"), <<Fmt!Number(n)>>) \o <<"x">>)
<1>1. PICK w : Decimal(n, w) /\ Fmt!FormatAs(Fmt!Asking("d"), <<Fmt!Number(n)>>) = w
  BY NumberPrinted
<1>2. ReadsNumber(NumberType(least, largest), n, w \o <<"x">>)
  BY <1>1, BehindIs, ReadsBoth
<1> QED BY <1>1, <1>2, Zenon

\* A command without arguments is executed, and a number that is missing is not read.
LEMMA MissingRefused ==
  ASSUME NEW least \in IntRange, NEW largest \in IntRange, NEW types \in {<<>>, <<NumberType(least, largest)>>}
  PROVE  Done(types, <<>>).ok = (types = <<>>)
<1> DEFINE A(i) == ConvertArg(types[i], IF i <= Len(<<>>) THEN (<<>>)[i] ELSE <<>>)
<1>1. Done(types, <<>>) =
        IF \A i \in DOMAIN types : A(i).ok THEN Value([i \in DOMAIN types |-> A(i).value]) ELSE NoValue
  BY Zenon DEF Done
<1>2. CASE types = <<>>
  <2>1. DOMAIN types = {}
    BY <1>2
  <2> HIDE DEF A
  <2>2. \A i \in DOMAIN types : A(i).ok
    BY <2>1
  <2>3. Done(types, <<>>).ok = TRUE
    BY <1>1, <2>2, ValueIs
  <2> QED BY <1>2, <2>3
<1>3. CASE types = <<NumberType(least, largest)>>
  <2>1. PICK type : type = NumberType(least, largest)
    OBVIOUS
  <2>2. DOMAIN types = {1} /\ types[1] = type /\ types # <<>>
    BY <1>3, <2>1
  <2>3. type.kind = "number" /\ type.least = least /\ type.largest = largest
    BY <2>1 DEF NumberType
  <2>4. Fmt!Numeral(<<>>) = <<>>
    <3>1. <<>> \in Seq(Fmt!Digit) /\ <<>> \in Seq(Marks) /\ <<>> \o <<>> = <<>>
      BY ConcatEmptySeq
    <3> QED BY <3>1, NumeralIs
  <2>5. FromChars(<<>>, least, largest) = NoValue
    BY <2>4, Zenon DEF FromChars
  <2>6. A(1) = NoValue
    <3>1. A(1) = ConvertArg(type, <<>>)
      BY <2>2
    <3>2. ConvertArg(type, <<>>) = FromChars(<<>>, least, largest)
      BY <2>3 DEF ConvertArg
    <3> QED BY <2>5, <3>1, <3>2
  <2> HIDE DEF A
  <2>7. ~\A i \in DOMAIN types : A(i).ok
    BY <2>2, <2>6, ValueIs
  <2>8. Done(types, <<>>).ok = FALSE
    BY <1>1, <2>7, ValueIs
  <2> QED BY <2>2, <2>8
<1> QED BY <1>2, <1>3

\* What the log prints of a number or a truth value, a command that asks for one
\* reads as that number or truth value, with something else behind the number and
\* more words than are asked for, unless its type does not hold the number, which is
\* then refused; for every number, and every type that int holds (FormatAs, digits by
\* repeated division; FromChars, ConvertArg and Done).
THEOREM PrintedReadsBack ==
  \A numbers \in SUBSET Int, least \in IntRange, largest \in IntRange :
    ReadAsPrinted(numbers, least, largest)
<1> SUFFICES ASSUME NEW numbers \in SUBSET Int, NEW least \in IntRange, NEW largest \in IntRange
             PROVE  ReadAsPrinted(numbers, least, largest)
  OBVIOUS
<1> DEFINE number == [kind |-> "number", least |-> least, largest |-> largest]
<1>1. number = NumberType(least, largest)
  BY DEF NumberType
<1> HIDE DEF number
<1>2. ASSUME NEW types \in {<<>>, <<number>>}
      PROVE  Done(types, <<>>).ok = (types = <<>>)
  BY <1>1, MissingRefused
<1>3. ASSUME NEW b \in BOOLEAN, NEW option \in {"d", "s"}
      PROVE  ReadsTruth(b, Fmt!FormatAs(Fmt!Asking(option), <<[kind |-> "boolean", is |-> b]>>))
  BY TruthReadBack
<1>4. ASSUME NEW n \in numbers
      PROVE  ReadsNumber(number, n, Fmt!FormatAs(Fmt!Asking("d"), <<Fmt!Number(n)>>) \o <<"x">>)
  BY <1>1, NumberReadBack
<1> QED BY <1>2, <1>3, <1>4, Zenon DEF ReadAsPrinted, number

LEMMA ValuesAreRead == ValuesReadBack
<1> DEFINE C == {"x", "n", "\n", " ", Quote, Backslash, Hash}
<1>1. ReadAsWritten(BoundedSeq(C, 3))
  <2> HIDE DEF C
  <2>1. BoundedSeq(C, 3) \subseteq Seq(C)
    <3> SUFFICES ASSUME NEW s \in BoundedSeq(C, 3) PROVE s \in Seq(C)
      OBVIOUS
    <3>1. PICK m \in 0..3 : s \in [1..m -> C]
      BY DEF BoundedSeq, SeqOf
    <3>2. \A i \in 1..m : s[i] \in C
      BY <3>1
    <3>3. [i \in 1..m |-> s[i]] \in Seq(C)
      BY <3>1, <3>2, IsASeq
    <3> QED BY <3>1, <3>3
  <2> QED BY <2>1, EchoesAsWritten
<1>2. -20..20 \in SUBSET Int /\ -16 \in IntRange /\ 15 \in IntRange /\ 0 \in IntRange
  BY IntRangeIs
<1>3. ReadAsPrinted(-20..20, -16, 15) /\ ReadAsPrinted(-20..20, 0, 15)
  BY <1>2, PrintedReadsBack
<1> QED BY <1>1, <1>3, Zenon DEF ValuesReadBack

\* At every line of a script, whatever its writer meant can be written so that it is
\* read as that: a value in quotes by echo, a printed number or truth value by a
\* command that asks for one.  What a line says depends on nothing but the line.
THEOREM WhatIsWrittenIsRead == StartSpec => []ReadsWhatIsWritten
<1>1. ReadsWhatIsWritten
  BY ValuesAreRead DEF ReadsWhatIsWritten
<1> QED BY <1>1, PTL
=============================================================================
