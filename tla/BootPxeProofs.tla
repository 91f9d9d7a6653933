--------------------------- MODULE BootPxeProofs ----------------------------
(***************************************************************************)
(* What the boot program guarantees, proved for every memory map, size of  *)
(* the image and answer of BIOS, ROM and server.                           *)
(***************************************************************************)
EXTENDS BootPxe, TLAPS

-----------------------------------------------------------------------------
(* The invariant.                                                          *)

Asking == {"init", "map", "dhcp", "probe", "query"}
Downloading == {"download", "open", "read"}

\* The memory chosen is one usable entry of the map, no larger than that.
Chosen ==
  \E i \in 1..info.count :
    /\ map[i].type = 1 /\ map[i].base >= Extended
    /\ target.addr = map[i].base % Wrap /\ target.size <= map[i].size

\* Nothing is stored before memory is chosen, and what has been received is
\* stored, before the image is handed over.
Stored ==
  /\ pc \in Asking \cup Downloading => info.image_size = 0
  /\ pc \in Asking \cup {"download", "open"} => mem = {} /\ total = 0
  /\ pc \in Downloading => Chosen
  /\ pc = "read" => total <= target.size /\ Block(total) \subseteq mem

BootInv == TypeOK /\ Stored /\ ImageInRam /\ HandOver

-----------------------------------------------------------------------------
(* Arithmetic.                                                             *)

LEMMA CutIs ==
  ASSUME NEW x \in Nat
  PROVE  Cut(x) \in 0..(Wrap - 1) /\ Cut(x) <= x
<1>1. Wrap \in Nat \ {0}
  BY BootAssumption
<1>2. x % Wrap \in 0..(Wrap - 1)
  BY <1>1, SMT
<1>3. x % Wrap <= x
  <2>1. CASE x < Wrap
    BY <1>1, <2>1, SMT
  <2>2. CASE x >= Wrap
    BY <1>1, <1>2, <2>2, SMT
  <2> QED BY <1>1, <2>1, <2>2
<1> QED BY <1>2, <1>3 DEF Cut

\* Every status is a word.
Words == {w \in Nat : w < Word}

LEMMA WordIs == \A w \in Words : w \in Nat /\ Code(w) = w
<1>1. \A w \in Nat : w < 65536 => w % 65536 = w
  BY SMT
<1> QED BY <1>1 DEF Words, Word, Code

LEMMA CodesAreWords == Codes \subseteq Words
BY BootAssumption DEF Words

LEMMA OwnStatuses ==
  /\ success \in Words /\ pxe_not_available \in Words
  /\ cant_download_empty \in Words /\ unexpected_packet_length \in Words
  /\ unexpected_packet_number \in Words /\ buffer_not_large_enough \in Words
BY DEF Words, Word, success, pxe_not_available, cant_download_empty, unexpected_packet_length,
       unexpected_packet_number, buffer_not_large_enough

LEMMA StatusIs ==
  /\ CallApi \subseteq Words /\ NoPacket \subseteq Words /\ InitFailures \subseteq Words
  /\ \A c \in CachedInfo : c.status \in Words
<1>1. CallApi \subseteq Words
  BY CodesAreWords, OwnStatuses DEF CallApi
<1>2. \A c \in CachedInfo : c.status \in CallApi
  BY DEF CachedInfo
<1>3. NoPacket \subseteq CallApi
  BY <1>2 DEF NoPacket
<1>4. InitFailures \subseteq Words
  BY DEF InitFailures, Words, Word
<1> QED
  BY <1>1, <1>2, <1>3, <1>4

LEMMA ReceivedIs == ASSUME NEW k \in Nat PROVE Received(k) \in Words
BY OwnStatuses DEF Received

LEMMA ErrorIs ==
  ASSUME NEW category \in Nat, NEW code \in Words
  PROVE  /\ MakeError(category, code) \in Nat
         /\ Code(MakeError(category, code)) = code
<1>1. \A a \in Nat, b \in Nat : b < 65536 => (a * 65536 + b) % 65536 = b
  BY SMT
<1> QED BY <1>1 DEF MakeError, Code, Words, Word

LEMMA CodeIs == \A e \in Nat : Code(e) \in Nat
BY DEF Code, Word

\* What is asked for the size of the image answers with one.
LEMMA QueryIs == ASSUME NEW q \in QuerySize PROVE q.status \in Words /\ q.size \in Nat
<1>1. CASE q \in [status : NoPacket \cup (CallApi \ {success}), size : {0}]
  BY <1>1, StatusIs
<1>2. CASE q \in [status : CallApi \cap {success}, size : Sizes]
  BY <1>2, StatusIs, BootAssumption
<1> QED
  BY <1>1, <1>2 DEF QuerySize

-----------------------------------------------------------------------------
(* Types.                                                                  *)

LEMMA InitTypes == Init => TypeOK
<1> SUFFICES ASSUME Init PROVE TypeOK
  OBVIOUS
<1>1. map \in Seq(Regions) /\ Len(map) = 0
  BY DEF Init
<1>2. 0 \in 0..(Wrap - 1) /\ 0 \in 0..Signature /\ 0 <= MapItems
  BY BootAssumption
<1>3. rom \in BOOLEAN /\ Len(map) <= MapItems /\ word \in 0..Signature
  BY <1>1, <1>2 DEF Init
<1>4. info \in [count : 0..Len(map), dhcp : BOOLEAN, port : 0..3, conf : {0, 227},
                image_addr : 0..(Wrap - 1), image_size : Nat]
  <2>1. 0 \in 0..Len(map)
    BY <1>1
  <2> QED BY <1>2, <2>1 DEF Init, Cleared
<1>5. target \in [addr : 0..(Wrap - 1), size : 0..(Wrap - 1)]
  BY <1>2 DEF Init
<1>6. hint \in Nat /\ file \in Nat \cup {Nothing} /\ total \in Nat /\ mem \subseteq Nat \X Nat
      /\ error \in Nat /\ said \in Nat \cup {Nothing}
  BY DEF Init, NO_ERROR_SUCCESS
<1>7. pc = "init"
  BY DEF Init
<1> QED
  BY <1>1, <1>3, <1>4, <1>5, <1>6, <1>7 DEF TypeOK

\* The values of pc.
Places == {"init", "map", "dhcp", "probe", "query", "download", "open", "read",
           "returned", "halted", "lost"}

\* The part of TypeOK that Halt, Goto and Judge are about.
EndingOK == pc \in Places /\ error \in Nat /\ said \in Nat \cup {Nothing}

LEMMA GotoKeepsTypes ==
  ASSUME EndingOK, NEW next \in Places, Goto(next)
  PROVE  EndingOK'
BY DEF EndingOK, Goto, Places

LEMMA JudgeKeepsTypes ==
  ASSUME EndingOK, NEW next \in Places, NEW e \in Nat, Judge(e, next)
  PROVE  EndingOK'
BY CodeIs DEF EndingOK, Judge, Halt, Places

LEMMA FailKeepsTypes ==
  ASSUME EndingOK, NEW category \in Nat, NEW code \in Words, Fail(category, code)
  PROVE  EndingOK'
BY JudgeKeepsTypes, ErrorIs DEF Fail, Places

\* The rest of TypeOK.
StartOK == rom \in BOOLEAN /\ map \in Seq(Regions) /\ Len(map) <= MapItems /\ word \in 0..Signature

InfoOK ==
  info \in [count : 0..Len(map), dhcp : BOOLEAN, port : 0..3, conf : {0, 227},
            image_addr : 0..(Wrap - 1), image_size : Nat]

ChosenOK == target \in [addr : 0..(Wrap - 1), size : 0..(Wrap - 1)] /\ hint \in Nat

TransferOK == file \in Nat \cup {Nothing} /\ total \in Nat /\ mem \subseteq Nat \X Nat

LEMMA TypeParts == TypeOK <=> EndingOK /\ StartOK /\ InfoOK /\ ChosenOK /\ TransferOK
BY DEF TypeOK, EndingOK, StartOK, InfoOK, ChosenOK, TransferOK, Places

LEMMA TypePartsNext == TypeOK' <=> EndingOK' /\ StartOK' /\ InfoOK' /\ ChosenOK' /\ TransferOK'
BY DEF TypeOK, EndingOK, StartOK, InfoOK, ChosenOK, TransferOK, Places

LEMMA DownloadedKeepsTypes ==
  ASSUME EndingOK, InfoOK, ChosenOK, map' = map, NEW n \in Nat, Downloaded(n)
  PROVE  EndingOK' /\ InfoOK'
<1>1. NO_ERROR_SUCCESS \in Nat /\ "returned" \in Places
  BY DEF NO_ERROR_SUCCESS, Places
<1>2. EndingOK'
  BY <1>1, JudgeKeepsTypes DEF Downloaded
<1>3. InfoOK'
  BY DEF Downloaded, InfoOK, ChosenOK
<1> QED BY <1>2, <1>3

LEMMA DownloadFailsKeepsTypes ==
  ASSUME EndingOK, InfoOK, map' = map, NEW s \in Words, DownloadFails(s)
  PROVE  EndingOK' /\ InfoOK'
<1>1. PXE_DOWNLOAD_FAILED \in Nat
  BY DEF PXE_DOWNLOAD_FAILED
<1> QED
  BY <1>1, FailKeepsTypes DEF DownloadFails, InfoOK

LEMMA BlocksAreTyped ==
  ASSUME ChosenOK, NEW n \in Nat
  PROVE  Block(n) \subseteq Nat \X Nat
<1>1. \A k \in 0..(n - 1) : target.addr + k \in Nat /\ k \in Nat
  BY BootAssumption DEF ChosenOK
<1> QED BY <1>1 DEF Block

\* An entry that is found is one of those the BIOS reported, and fits.
LEMMA LocatedIs ==
  ASSUME StartOK, InfoOK, NEW size, NEW i \in Located(size)
  PROVE  /\ i \in 1..info.count /\ Fits(i, size)
         /\ map[i].base \in Nat /\ map[i].size \in Nat
<1>1. i \in 1..info.count /\ Fits(i, size)
  BY DEF Located
<1>2. i \in 1..Len(map)
  BY <1>1 DEF InfoOK, StartOK
<1>3. map[i] \in Regions
  BY <1>2 DEF StartOK
<1> QED BY <1>1, <1>3, BootAssumption

\* A packet that is taken is the one that is due, and there is room for it.
LEMMA RightPacket ==
  ASSUME NEW k, Received(k) = success
  PROVE  k = total + 1 /\ ~(total + 1 > target.size)
BY DEF Received, success, unexpected_packet_number, unexpected_packet_length,
       buffer_not_large_enough

LEMMA StepTypes == TypeOK /\ [Next]_vars => TypeOK'
<1> SUFFICES ASSUME TypeOK, [Next]_vars PROVE TypeOK'
  OBVIOUS
<1>1. EndingOK /\ StartOK /\ InfoOK /\ ChosenOK /\ TransferOK
  BY TypeParts
<1>2. SUFFICES EndingOK' /\ StartOK' /\ InfoOK' /\ ChosenOK' /\ TransferOK'
  BY TypePartsNext
<1>a. UNCHANGED start => StartOK'
  BY <1>1 DEF StartOK, start
<1>b. map' = map /\ info' = info => InfoOK'
  BY <1>1 DEF InfoOK
<1>c. UNCHANGED chosen => ChosenOK'
  BY <1>1 DEF ChosenOK, chosen
<1>d. UNCHANGED transfer => TransferOK'
  BY <1>1 DEF TransferOK, transfer
<1>e. /\ PXE_FAILED_TO_INITIALIZE \in Nat /\ ACQUIRE_BIOS_MEMMAP_OVERFLOW \in Nat
      /\ ACQUIRE_PXE_DHCP_INFO_FAILED \in Nat /\ NOT_ENOUGH_EXTENDED_MEMORY \in Nat
      /\ CORE_IMAGE_BAD_OR_NOT_FOUND \in Nat /\ PXE_DOWNLOAD_FAILED \in Nat
      /\ NO_ERROR_SUCCESS \in Nat /\ 0 \in Words
  BY DEF PXE_FAILED_TO_INITIALIZE, ACQUIRE_BIOS_MEMMAP_OVERFLOW, ACQUIRE_PXE_DHCP_INFO_FAILED,
         NOT_ENOUGH_EXTENDED_MEMORY, CORE_IMAGE_BAD_OR_NOT_FOUND, PXE_DOWNLOAD_FAILED,
         NO_ERROR_SUCCESS, Words, Word
<1>3. CASE PxeInit
  <2>1. StartOK'
    BY <1>1, <1>3 DEF PxeInit, StartOK
  <2>2. EndingOK'
    <3>1. CASE Goto("map")
      BY <1>1, <3>1, GotoKeepsTypes DEF Places
    <3>2. CASE error' = error /\ \E s \in InitFailures : Halt(MakeError(PXE_FAILED_TO_INITIALIZE, s))
      <4>1. PICK s \in InitFailures : Halt(MakeError(PXE_FAILED_TO_INITIALIZE, s))
        BY <3>2
      <4>2. MakeError(PXE_FAILED_TO_INITIALIZE, s) \in Nat
        BY <1>e, StatusIs, ErrorIs
      <4> QED BY <1>1, <3>2, <4>1, <4>2 DEF EndingOK, Halt, Places
    <3> QED BY <1>3, <3>1, <3>2 DEF PxeInit
  <2>3. map' = map /\ info' = info /\ UNCHANGED chosen /\ UNCHANGED transfer
    BY <1>3 DEF PxeInit
  <2> QED BY <1>b, <1>c, <1>d, <2>1, <2>2, <2>3
<1>4. CASE QueryMemmap
  <2>0. rom' = rom /\ word' = word /\ UNCHANGED chosen /\ UNCHANGED transfer
    BY <1>4 DEF QueryMemmap
  <2>1. CASE /\ Judge(MakeError(ACQUIRE_BIOS_MEMMAP_OVERFLOW, 0), "query")
             /\ UNCHANGED <<map, info>>
    <3>1. EndingOK'
      BY <1>1, <1>e, <2>1, ErrorIs, JudgeKeepsTypes DEF Places
    <3> QED BY <1>1, <1>b, <1>c, <1>d, <2>0, <2>1, <3>1 DEF StartOK
  <2>2. CASE /\ Len(map) < MapItems
             /\ \E r \in Regions, last \in BOOLEAN :
                  /\ map' = Append(map, r)
                  /\ info' = IF last THEN [info EXCEPT !.count = Len(map')] ELSE info
                  /\ Goto(IF last THEN "dhcp" ELSE "map")
    <3>1. PICK r \in Regions, last \in BOOLEAN :
            /\ map' = Append(map, r)
            /\ info' = IF last THEN [info EXCEPT !.count = Len(map')] ELSE info
            /\ Goto(IF last THEN "dhcp" ELSE "map")
      BY <2>2
    <3>2. EndingOK'
      BY <1>1, <3>1, GotoKeepsTypes DEF Places
    <3>3. map' \in Seq(Regions) /\ Len(map') = Len(map) + 1
      BY <1>1, <3>1 DEF StartOK
    <3>4. StartOK'
      BY <1>1, <2>0, <2>2, <3>3, BootAssumption DEF StartOK
    <3>5. 0..Len(map) \subseteq 0..Len(map') /\ Len(map') \in 0..Len(map')
      BY <1>1, <3>3 DEF StartOK
    <3>6. InfoOK'
      BY <1>1, <3>1, <3>5 DEF InfoOK
    <3> QED BY <1>c, <1>d, <2>0, <3>2, <3>4, <3>6
  <2>3. CASE BiosRefuses /\ UNCHANGED <<map, info>>
    <3>1. EndingOK'
      BY <1>1, <2>3, GotoKeepsTypes DEF BiosRefuses, Places
    <3> QED BY <1>1, <1>b, <1>c, <1>d, <2>0, <2>3, <3>1 DEF StartOK
  <2> QED BY <1>4, <2>1, <2>2, <2>3 DEF QueryMemmap
<1>5. CASE AcquireDhcpInfo
  <2>1. PICK c \in CachedInfo :
          IF c.packet
          THEN info' = [info EXCEPT !.dhcp = TRUE] /\ Goto("probe")
          ELSE info' = info /\ Judge(MakeError(ACQUIRE_PXE_DHCP_INFO_FAILED, c.status), "query")
    BY <1>5 DEF AcquireDhcpInfo
  <2>2. c.status \in Words
    BY StatusIs
  <2>3. EndingOK'
    BY <1>1, <1>e, <2>1, <2>2, ErrorIs, GotoKeepsTypes, JudgeKeepsTypes DEF Places
  <2>4. UNCHANGED start /\ UNCHANGED chosen /\ UNCHANGED transfer
    BY <1>5 DEF AcquireDhcpInfo
  <2>5. map' = map
    BY <2>4 DEF start
  <2>6. InfoOK'
    <3>1. CASE c.packet
      <4>1. info' = [info EXCEPT !.dhcp = TRUE]
        BY <2>1, <3>1
      <4> QED BY <1>1, <2>5, <4>1 DEF InfoOK
    <3>2. CASE ~c.packet
      BY <1>b, <2>1, <2>5, <3>2
    <3> QED BY <3>1, <3>2
  <2> QED BY <1>a, <1>c, <1>d, <2>3, <2>4, <2>6
<1>6. CASE ProbeSerial
  <2>1. rom' = rom /\ map' = map /\ UNCHANGED chosen /\ UNCHANGED transfer
    BY <1>6 DEF ProbeSerial
  <2>2. CASE word < Signature /\ word' = word + 1 /\ Goto("probe") /\ UNCHANGED info
    <3>1. EndingOK'
      BY <1>1, <2>2, GotoKeepsTypes DEF Places
    <3>2. StartOK'
      BY <1>1, <2>1, <2>2, BootAssumption DEF StartOK
    <3> QED BY <1>b, <1>c, <1>d, <2>1, <2>2, <3>1, <3>2
  <2>3. CASE /\ info' = IF word < 4 THEN [info EXCEPT !.port = word, !.conf = 227] ELSE info
             /\ Judge(NO_ERROR_SUCCESS, "query")
             /\ UNCHANGED word
    <3>1. EndingOK'
      BY <1>1, <1>e, <2>3, JudgeKeepsTypes DEF Places
    <3>2. word < 4 => word \in 0..3
      BY <1>1, BootAssumption DEF StartOK
    <3>3. InfoOK'
      <4>1. CASE word < 4
        <5>1. info' = [info EXCEPT !.port = word, !.conf = 227]
          BY <2>3, <4>1
        <5> QED BY <1>1, <2>1, <3>2, <4>1, <5>1 DEF InfoOK
      <4>2. CASE ~(word < 4)
        BY <1>b, <2>1, <2>3, <4>2
      <4> QED BY <4>1, <4>2
    <3> QED BY <1>1, <1>c, <1>d, <2>1, <2>3, <3>1, <3>3 DEF StartOK
  <2> QED BY <1>6, <2>2, <2>3 DEF ProbeSerial
<1>7. CASE LocateMemory
  <2>0. UNCHANGED start /\ UNCHANGED transfer /\ map' = map /\ info' = info
    BY <1>7 DEF LocateMemory, start
  <2>1. CASE /\ Fail(CORE_IMAGE_BAD_OR_NOT_FOUND, 0) \/ Fail(NOT_ENOUGH_EXTENDED_MEMORY, 0)
             /\ UNCHANGED chosen
    <3>1. Fail(CORE_IMAGE_BAD_OR_NOT_FOUND, 0) => EndingOK'
      BY <1>1, <1>e, FailKeepsTypes
    <3>2. Fail(NOT_ENOUGH_EXTENDED_MEMORY, 0) => EndingOK'
      BY <1>1, <1>e, FailKeepsTypes
    <3>3. EndingOK' /\ UNCHANGED chosen
      BY <2>1, <3>1, <3>2
    <3> QED BY <1>a, <1>b, <1>c, <1>d, <2>0, <3>3
  <2>2. CASE \E q \in QuerySize :
               /\ \E i \in Located(q.size) :
                    target' = [addr |-> Cut(map[i].base), size |-> Cut(map[i].size)]
               /\ hint' = q.size
               /\ Goto("download")
    <3>1. PICK q \in QuerySize :
               /\ \E i \in Located(q.size) :
                    target' = [addr |-> Cut(map[i].base), size |-> Cut(map[i].size)]
               /\ hint' = q.size
               /\ Goto("download")
      BY <2>2
    <3>2. PICK i \in Located(q.size) :
               target' = [addr |-> Cut(map[i].base), size |-> Cut(map[i].size)]
      BY <3>1
    <3>3. map[i].base \in Nat /\ map[i].size \in Nat
      BY <1>1, LocatedIs
    <3>4. EndingOK'
      BY <1>1, <3>1, GotoKeepsTypes DEF Places
    <3>5. ChosenOK'
      BY <3>1, <3>2, <3>3, CutIs, QueryIs DEF ChosenOK
    <3> QED BY <1>a, <1>b, <1>d, <2>0, <3>4, <3>5
  <2> QED BY <1>7, <2>1, <2>2 DEF LocateMemory
<1>8. CASE Download
  <2>0. UNCHANGED start /\ UNCHANGED chosen /\ map' = map /\ file' = file /\ total' = total
    BY <1>8 DEF Download, start
  <2>1. CASE /\ \E s \in NoPacket : IF s = success THEN Downloaded(0) ELSE DownloadFails(s)
             /\ UNCHANGED mem
    <3>1. PICK s \in NoPacket : IF s = success THEN Downloaded(0) ELSE DownloadFails(s)
      BY <2>1
    <3>2. EndingOK' /\ InfoOK'
      BY <1>1, <2>0, <3>1, StatusIs, DownloadedKeepsTypes, DownloadFailsKeepsTypes
    <3> QED BY <1>1, <1>a, <1>c, <2>0, <2>1, <3>2 DEF TransferOK
  <2>2. CASE \E n \in Sizes, s \in CallApi :
             IF s # success
             THEN /\ DownloadFails(s)
                  /\ \E part \in 0..n : part <= target.size /\ mem' = mem \cup Block(part)
             ELSE /\ n <= target.size
                  /\ Downloaded(n)
                  /\ mem' = mem \cup Block(n)
    <3>1. PICK n \in Sizes, s \in CallApi :
             IF s # success
             THEN /\ DownloadFails(s)
                  /\ \E part \in 0..n : part <= target.size /\ mem' = mem \cup Block(part)
             ELSE /\ n <= target.size
                  /\ Downloaded(n)
                  /\ mem' = mem \cup Block(n)
      BY <2>2
    <3>2. n \in Nat
      BY BootAssumption
    <3>3. EndingOK' /\ InfoOK'
      BY <1>1, <2>0, <3>1, <3>2, StatusIs, DownloadedKeepsTypes, DownloadFailsKeepsTypes
    <3>4. \E part \in Nat : mem' = mem \cup Block(part)
      BY <3>1, <3>2
    <3>5. TransferOK'
      BY <1>1, <2>0, <3>4, BlocksAreTyped DEF TransferOK
    <3> QED BY <1>a, <1>c, <2>0, <3>3, <3>5
  <2> QED BY <1>8, <2>1, <2>2 DEF Download
<1>9. CASE DownloadWithStatus
  <2>0. UNCHANGED start /\ target' = target /\ UNCHANGED transfer /\ map' = map
    BY <1>9 DEF DownloadWithStatus, start
  <2>1. CASE Goto("open") /\ UNCHANGED <<hint, info>>
    <3>1. EndingOK'
      BY <1>1, <2>1, GotoKeepsTypes DEF Places
    <3> QED BY <1>1, <1>a, <1>b, <1>d, <2>0, <2>1, <3>1 DEF ChosenOK
  <2>2. CASE \E q \in QuerySize :
              /\ hint' = q.size
              /\ \/ q.size = 0 /\ DownloadFails(cant_download_empty)
                 \/ q.size > target.size /\ DownloadFails(buffer_not_large_enough)
                 \/ q.size \in 1..target.size /\ Goto("open") /\ UNCHANGED info
    <3>1. PICK q \in QuerySize :
              /\ hint' = q.size
              /\ \/ q.size = 0 /\ DownloadFails(cant_download_empty)
                 \/ q.size > target.size /\ DownloadFails(buffer_not_large_enough)
                 \/ q.size \in 1..target.size /\ Goto("open") /\ UNCHANGED info
      BY <2>2
    <3>2. CASE DownloadFails(cant_download_empty) \/ DownloadFails(buffer_not_large_enough)
      <4>1. EndingOK' /\ InfoOK'
        BY <1>1, <2>0, <3>2, OwnStatuses, DownloadFailsKeepsTypes
      <4> QED BY <1>1, <1>a, <1>d, <2>0, <3>1, <4>1, QueryIs DEF ChosenOK
    <3>3. CASE Goto("open") /\ UNCHANGED info
      <4>1. EndingOK'
        BY <1>1, <3>3, GotoKeepsTypes DEF Places
      <4> QED BY <1>1, <1>a, <1>b, <1>d, <2>0, <3>1, <3>3, <4>1, QueryIs DEF ChosenOK
    <3> QED BY <3>1, <3>2, <3>3
  <2> QED BY <1>9, <2>1, <2>2 DEF DownloadWithStatus
<1>10. CASE TftpOpen
  <2>0. UNCHANGED start /\ UNCHANGED chosen /\ map' = map /\ total' = total /\ mem' = mem
    BY <1>10 DEF TftpOpen, start
  <2>1. CASE /\ \E s \in NoPacket \cup (CallApi \ {success}) :
                  IF s = success THEN Goto("read") /\ UNCHANGED info ELSE DownloadFails(s)
             /\ UNCHANGED file
    <3>1. PICK s \in NoPacket \cup (CallApi \ {success}) :
            IF s = success THEN Goto("read") /\ UNCHANGED info ELSE DownloadFails(s)
      BY <2>1
    <3>2. s \in Words
      BY StatusIs
    <3>3. CASE Goto("read") /\ UNCHANGED info
      <4>1. EndingOK'
        BY <1>1, <3>3, GotoKeepsTypes DEF Places
      <4> QED BY <1>1, <1>a, <1>b, <1>c, <2>0, <2>1, <3>3, <4>1 DEF TransferOK
    <3>4. CASE DownloadFails(s)
      <4>1. EndingOK' /\ InfoOK'
        BY <1>1, <2>0, <3>2, <3>4, DownloadFailsKeepsTypes
      <4> QED BY <1>1, <1>a, <1>c, <2>0, <2>1, <4>1 DEF TransferOK
    <3> QED BY <3>1, <3>3, <3>4
  <2>2. CASE (\E n \in Sizes : file' = n) /\ Goto("read") /\ UNCHANGED info
    <3>1. EndingOK'
      BY <1>1, <2>2, GotoKeepsTypes DEF Places
    <3>2. file' \in Nat
      BY <2>2, BootAssumption
    <3> QED BY <1>1, <1>a, <1>b, <1>c, <2>0, <2>2, <3>1, <3>2 DEF TransferOK
  <2> QED BY <1>10, <2>1, <2>2 DEF TftpOpen
<1>11. CASE TftpRead
  <2>0. UNCHANGED start /\ UNCHANGED chosen /\ map' = map /\ file' = file
    BY <1>11 DEF TftpRead, start
  <2>1. CASE /\ \E s \in CallApi \ {success} : DownloadFails(s)
             /\ UNCHANGED <<total, mem>>
    <3>1. EndingOK' /\ InfoOK'
      BY <1>1, <2>0, <2>1, StatusIs, DownloadFailsKeepsTypes
    <3> QED BY <1>1, <1>a, <1>c, <2>0, <2>1, <3>1 DEF TransferOK
  <2>2. CASE \E k \in total..(total + 2) :
             IF Received(k) # success
             THEN DownloadFails(Received(k)) /\ UNCHANGED <<total, mem>>
             ELSE /\ mem' = mem \cup {<<target.addr + total, k - 1>>}
                  /\ total' = total + 1
                  /\ \/ Goto("read") /\ UNCHANGED info
                     \/ \E s \in Codes : DownloadFails(s)
    <3>1. PICK k \in total..(total + 2) :
             IF Received(k) # success
             THEN DownloadFails(Received(k)) /\ UNCHANGED <<total, mem>>
             ELSE /\ mem' = mem \cup {<<target.addr + total, k - 1>>}
                  /\ total' = total + 1
                  /\ \/ Goto("read") /\ UNCHANGED info
                     \/ \E s \in Codes : DownloadFails(s)
      BY <2>2
    <3>2. k \in Nat /\ Received(k) \in Words
      BY <1>1, <3>1, ReceivedIs DEF TransferOK
    <3>3. CASE Received(k) # success
      <4>1. EndingOK' /\ InfoOK'
        BY <1>1, <2>0, <3>1, <3>2, <3>3, DownloadFailsKeepsTypes
      <4> QED BY <1>1, <1>a, <1>c, <2>0, <3>1, <3>3, <4>1 DEF TransferOK
    <3>4. CASE Received(k) = success
      <4>1. k = total + 1
        BY <3>4, RightPacket
      <4>2. target.addr + total \in Nat /\ k - 1 \in Nat /\ total + 1 \in Nat
        BY <1>1, <4>1, BootAssumption DEF ChosenOK, TransferOK
      <4>3. TransferOK'
        BY <1>1, <2>0, <3>1, <3>4, <4>2 DEF TransferOK
      <4>4. EndingOK' /\ InfoOK'
        <5>1. CASE Goto("read") /\ UNCHANGED info
          BY <1>1, <1>b, <2>0, <5>1, GotoKeepsTypes DEF Places
        <5>2. CASE \E s \in Codes : DownloadFails(s)
          BY <1>1, <2>0, <5>2, CodesAreWords, DownloadFailsKeepsTypes
        <5> QED BY <3>1, <3>4, <5>1, <5>2
      <4> QED BY <1>a, <1>c, <2>0, <4>3, <4>4
    <3> QED BY <3>3, <3>4
  <2> QED BY <1>11, <2>1, <2>2 DEF TftpRead
<1>12. CASE TftpClose
  <2>0. UNCHANGED start /\ UNCHANGED chosen /\ map' = map /\ total' = total /\ mem' = mem
    BY <1>12 DEF TftpClose, start
  <2>1. CASE Downloaded(total) /\ file' = Nothing
    <3>1. EndingOK' /\ InfoOK'
      BY <1>1, <2>0, <2>1, DownloadedKeepsTypes DEF TransferOK
    <3> QED BY <1>1, <1>a, <1>c, <2>0, <2>1, <3>1 DEF TransferOK
  <2>2. CASE (\E s \in CallApi \ {success} : DownloadFails(s)) /\ UNCHANGED file
    <3>1. EndingOK' /\ InfoOK'
      BY <1>1, <2>0, <2>2, StatusIs, DownloadFailsKeepsTypes
    <3> QED BY <1>1, <1>a, <1>c, <2>0, <2>2, <3>1 DEF TransferOK
  <2> QED BY <1>12, <2>1, <2>2 DEF TftpClose
<1>13. CASE UNCHANGED vars
  BY <1>1, <1>13 DEF EndingOK, StartOK, InfoOK, ChosenOK, TransferOK, vars, start, chosen,
     transfer, ending
<1> QED
  BY <1>3, <1>4, <1>5, <1>6, <1>7, <1>8, <1>9, <1>10, <1>11, <1>12, <1>13 DEF Next

\* The ranges of all variables, in every behaviour.
THEOREM TypeCorrect == Spec => []TypeOK
<1>1. TypeOK /\ [Next]_vars => TypeOK'
  BY StepTypes
<1> QED
  BY InitTypes, <1>1, PTL DEF Spec

-----------------------------------------------------------------------------
(* Where the image is stored, and what is handed over.                     *)

LEMMA InitHolds == Init => BootInv
<1> SUFFICES ASSUME Init PROVE BootInv
  OBVIOUS
<1>1. Stored /\ ImageInRam /\ HandOver
  BY DEF Init, Cleared, Stored, Chosen, Asking, Downloading, ImageInRam, HandOver
<1> QED BY <1>1, InitTypes DEF BootInv

\* What is stored inside the memory chosen is stored in usable memory.
LEMMA StoredInRam ==
  ASSUME TypeOK, Chosen, ImageInRam, NEW k \in Nat, k < target.size
  PROVE  \E i \in 1..info.count :
           /\ map[i].type = 1 /\ map[i].base >= Extended /\ k < map[i].size
           /\ target.addr + k = (map[i].base % Wrap) + k
<1>1. PICK i \in 1..info.count :
        /\ map[i].type = 1 /\ map[i].base >= Extended
        /\ target.addr = map[i].base % Wrap /\ target.size <= map[i].size
  BY DEF Chosen
<1>2. map[i].size \in Nat /\ target.size \in Nat
  <2>1. i \in 1..Len(map) /\ map \in Seq(Regions)
    BY DEF TypeOK
  <2>2. map[i] \in Regions
    BY <2>1
  <2>3. target.size \in 0..(Wrap - 1) /\ Wrap \in Nat
    BY BootAssumption DEF TypeOK
  <2> QED BY <2>2, <2>3, BootAssumption
<1> QED BY <1>1, <1>2

\* What a step stores, if it stays inside the memory chosen.
LEMMA MoreBlocks ==
  ASSUME TypeOK, Chosen, ImageInRam, map' = map, info'.count = info.count,
         NEW S, mem' \subseteq mem \cup S,
         \A m \in S : \E k \in Nat : k < target.size /\ m = <<target.addr + k, k>>
  PROVE  ImageInRam'
<1> SUFFICES ASSUME NEW m \in mem \cup S
             PROVE  \E i \in 1..info.count :
                      /\ map[i].type = 1 /\ map[i].base >= Extended /\ m[2] < map[i].size
                      /\ m[1] = (map[i].base % Wrap) + m[2]
  BY DEF ImageInRam
<1>1. CASE m \in mem
  BY <1>1 DEF ImageInRam
<1>2. CASE m \in S
  <2>1. PICK k \in Nat : k < target.size /\ m = <<target.addr + k, k>>
    BY <1>2
  <2>2. m[1] = target.addr + k /\ m[2] = k
    BY <2>1
  <2> QED BY <2>1, <2>2, StoredInRam
<1> QED BY <1>1, <1>2

LEMMA BlocksInside ==
  ASSUME TypeOK, NEW n \in Nat, n <= target.size
  PROVE  \A m \in Block(n) : \E k \in Nat : k < target.size /\ m = <<target.addr + k, k>>
<1>1. target.size \in Nat
  BY BootAssumption DEF TypeOK
<1>2. \A k \in 0..(n - 1) : k \in Nat /\ k < target.size
  BY <1>1
<1> QED BY <1>2 DEF Block

LEMMA NextBlock ==
  ASSUME TypeOK, Chosen, ImageInRam, map' = map, info' = info, total < target.size,
         mem' = mem \cup {<<target.addr + total, total>>}
  PROVE  ImageInRam'
<1> DEFINE S == {<<target.addr + total, total>>}
<1>1. total \in Nat
  BY DEF TypeOK
<1>2. \A m \in S : \E k \in Nat : k < target.size /\ m = <<target.addr + k, k>>
  BY <1>1
<1>3. mem' \subseteq mem \cup S /\ info'.count = info.count
  OBVIOUS
<1> HIDE DEF S
<1> QED BY <1>2, <1>3, MoreBlocks

\* The ways a step ends.
LEMMA HaltIs ==
  ASSUME NEW e \in Nat, Judge(e, "returned")
  PROVE  /\ pc' \in {"returned", "halted"}
         /\ error' = e /\ (pc' = "returned" => Code(e) = NO_ERROR_SUCCESS)
BY DEF Judge, Halt

LEMMA FailIs ==
  ASSUME NEW category \in Nat, NEW code \in Words, Fail(category, code),
         info'.image_size = 0
  PROVE  HandOver' /\ pc' \in {"returned", "halted"}
<1>1. MakeError(category, code) \in Nat
  BY ErrorIs
<1>2. /\ pc' \in {"returned", "halted"}
      /\ error' = MakeError(category, code)
      /\ pc' = "returned" => Code(error') = NO_ERROR_SUCCESS
  BY <1>1, HaltIs DEF Fail
<1>3. Block(0)' = {} /\ ~(0 > 0)
  BY DEF Block
<1> QED BY <1>2, <1>3 DEF HandOver

LEMMA DownloadedIs ==
  ASSUME TypeOK, target' = target, NEW n \in Nat, Downloaded(n), Block(n) \subseteq mem'
  PROVE  HandOver' /\ pc' \in {"returned", "halted"} /\ info'.count = info.count
<1>1. /\ pc' \in {"returned", "halted"} /\ error' = NO_ERROR_SUCCESS
      /\ pc' = "returned" => Code(error') = NO_ERROR_SUCCESS
  BY HaltIs DEF Downloaded, NO_ERROR_SUCCESS
<1>2. info'.image_size = n /\ info'.image_addr = target.addr /\ info'.count = info.count
  BY DEF Downloaded, TypeOK
<1>3. Block(info.image_size)' = Block(n)
  BY <1>2 DEF Block
<1> QED BY <1>1, <1>2, <1>3 DEF HandOver

LEMMA AtTheEnd ==
  ASSUME pc' \in {"returned", "halted", "lost"}
  PROVE  Stored'
BY DEF Stored, Asking, Downloading

\* While nothing has been stored, nothing is.
LEMMA AskingStep ==
  ASSUME Stored, pc \in Asking, UNCHANGED transfer, info'.image_size = info.image_size,
         pc' \in Asking \cup {"halted", "lost"}
  PROVE  Stored' /\ ImageInRam' /\ HandOver'
<1>1. mem' = {} /\ total' = 0 /\ info'.image_size = 0
  BY DEF Stored, transfer
<1>2. Stored' /\ HandOver'
  BY <1>1 DEF Stored, HandOver, Asking, Downloading
<1> QED BY <1>1, <1>2 DEF ImageInRam

LEMMA JudgeIs ==
  ASSUME NEW e, NEW next, Judge(e, next)
  PROVE  pc' \in {next, "halted"}
BY DEF Judge, Halt

LEMMA EmptyMemory ==
  ASSUME mem' = {}
  PROVE  ImageInRam'
BY DEF ImageInRam

LEMMA StepHolds == BootInv /\ [Next]_vars => BootInv'
<1> SUFFICES ASSUME TypeOK, Stored, ImageInRam, HandOver, [Next]_vars PROVE BootInv'
  BY DEF BootInv
<1>1. SUFFICES Stored' /\ ImageInRam' /\ HandOver'
  BY StepTypes DEF BootInv
<1>e. /\ PXE_DOWNLOAD_FAILED \in Nat /\ NOT_ENOUGH_EXTENDED_MEMORY \in Nat
      /\ CORE_IMAGE_BAD_OR_NOT_FOUND \in Nat /\ 0 \in Words
  BY DEF NOT_ENOUGH_EXTENDED_MEMORY, CORE_IMAGE_BAD_OR_NOT_FOUND, PXE_DOWNLOAD_FAILED, Words, Word
<1>t. /\ total \in Nat /\ target.size \in Nat /\ target.addr \in Nat /\ info.image_size \in Nat
  BY BootAssumption DEF TypeOK
<1>3. CASE PxeInit
  <2>1. pc \in Asking /\ UNCHANGED transfer /\ info' = info
    BY <1>3 DEF PxeInit, Asking
  <2>2. pc' \in {"map", "halted"}
    BY <1>3 DEF PxeInit, Goto, Halt
  <2> QED BY <2>1, <2>2, AskingStep DEF Asking
<1>4. CASE QueryMemmap
  <2>1. pc \in Asking /\ UNCHANGED transfer
    BY <1>4 DEF QueryMemmap, Asking
  <2>2. info'.image_size = info.image_size
    BY <1>4 DEF QueryMemmap, TypeOK
  <2>3. pc' \in {"map", "dhcp", "query", "halted", "lost"}
    BY <1>4, JudgeIs DEF QueryMemmap, Goto, BiosRefuses
  <2> QED BY <2>1, <2>2, <2>3, AskingStep DEF Asking
<1>5. CASE AcquireDhcpInfo
  <2>1. pc \in Asking /\ UNCHANGED transfer
    BY <1>5 DEF AcquireDhcpInfo, Asking
  <2>2. info'.image_size = info.image_size
    BY <1>5 DEF AcquireDhcpInfo, TypeOK
  <2>3. pc' \in {"probe", "query", "halted"}
    BY <1>5, JudgeIs DEF AcquireDhcpInfo, Goto
  <2> QED BY <2>1, <2>2, <2>3, AskingStep DEF Asking
<1>6. CASE ProbeSerial
  <2>1. pc \in Asking /\ UNCHANGED transfer
    BY <1>6 DEF ProbeSerial, Asking
  <2>2. info'.image_size = info.image_size
    <3>1. \/ info' = info
          \/ info' = [info EXCEPT !.port = word, !.conf = 227]
      BY <1>6 DEF ProbeSerial
    <3>2. InfoOK
      BY TypeParts
    <3> QED BY <3>1, <3>2 DEF InfoOK
  <2>3. pc' \in {"probe", "query", "halted"}
    BY <1>6, JudgeIs DEF ProbeSerial, Goto
  <2> QED BY <2>1, <2>2, <2>3, AskingStep DEF Asking
<1>7. CASE LocateMemory
  <2>1. /\ pc \in Asking /\ map' = map /\ info' = info
        /\ mem' = mem /\ total' = total
    BY <1>7 DEF LocateMemory, start, transfer, Asking
  <2>2. mem' = {} /\ total' = 0 /\ info'.image_size = 0
    BY <2>1 DEF Stored
  <2>3. CASE Fail(CORE_IMAGE_BAD_OR_NOT_FOUND, 0) \/ Fail(NOT_ENOUGH_EXTENDED_MEMORY, 0)
    <3>1. HandOver' /\ pc' \in {"returned", "halted"}
      BY <1>e, <2>2, <2>3, FailIs
    <3> QED BY <2>2, <3>1, AtTheEnd, EmptyMemory
  <2>4. CASE \E q \in QuerySize :
               /\ \E i \in Located(q.size) :
                    target' = [addr |-> Cut(map[i].base), size |-> Cut(map[i].size)]
               /\ hint' = q.size
               /\ Goto("download")
    <3>q. PICK q \in QuerySize :
            \E i \in Located(q.size) :
              target' = [addr |-> Cut(map[i].base), size |-> Cut(map[i].size)]
      BY <2>4
    <3>1. PICK i \in Located(q.size) :
            target' = [addr |-> Cut(map[i].base), size |-> Cut(map[i].size)]
      BY <3>q
    <3>2. pc' = "download"
      BY <2>4 DEF Goto
    <3>3. /\ i \in 1..info.count /\ Fits(i, q.size)
          /\ map[i].base \in Nat /\ map[i].size \in Nat
      BY LocatedIs, TypeParts
    <3>4. target'.addr = map[i].base % Wrap /\ target'.size <= map[i].size
      BY <3>1, <3>3, CutIs DEF Cut
    <3>5. Chosen'
      BY <2>1, <3>3, <3>4 DEF Chosen, Fits
    <3>6. Stored'
      BY <2>2, <3>2, <3>5 DEF Stored, Asking, Downloading
    <3> QED BY <2>2, <3>2, <3>6, EmptyMemory DEF HandOver
  <2> QED BY <1>7, <2>3, <2>4 DEF LocateMemory
<1>d. \A s \in Words : pc \in Downloading /\ DownloadFails(s) =>
        /\ Stored' /\ HandOver' /\ info' = info
  <2> SUFFICES ASSUME NEW s \in Words, pc \in Downloading, DownloadFails(s)
               PROVE  Stored' /\ HandOver' /\ info' = info
    OBVIOUS
  <2>1. Fail(PXE_DOWNLOAD_FAILED, s) /\ info' = info
    BY DEF DownloadFails
  <2>2. info'.image_size = 0
    BY <2>1 DEF Stored
  <2>3. HandOver' /\ pc' \in {"returned", "halted"}
    BY <1>e, <2>1, <2>2, FailIs
  <2> QED BY <2>1, <2>3, AtTheEnd
<1>8. CASE Download
  <2>1. pc = "download" /\ map' = map /\ target' = target
    BY <1>8 DEF Download, start, chosen
  <2>2. pc \in Downloading /\ mem = {} /\ Chosen
    BY <2>1 DEF Stored, Downloading
  <2>3. CASE /\ \E s \in NoPacket : IF s = success THEN Downloaded(0) ELSE DownloadFails(s)
             /\ UNCHANGED mem
    <3>1. Block(0) \subseteq mem'
      BY DEF Block
    <3>2. CASE Downloaded(0)
      BY <2>1, <2>2, <2>3, <3>1, <3>2, DownloadedIs, AtTheEnd, EmptyMemory
    <3>3. CASE \E s \in NoPacket : DownloadFails(s)
      BY <1>d, <2>2, <2>3, <3>3, StatusIs, EmptyMemory
    <3> QED BY <2>3, <3>2, <3>3
  <2>4. CASE \E n \in Sizes, s \in CallApi :
             IF s # success
             THEN /\ DownloadFails(s)
                  /\ \E part \in 0..n : part <= target.size /\ mem' = mem \cup Block(part)
             ELSE /\ n <= target.size
                  /\ Downloaded(n)
                  /\ mem' = mem \cup Block(n)
    <3>1. PICK n \in Sizes, s \in CallApi :
             IF s # success
             THEN /\ DownloadFails(s)
                  /\ \E part \in 0..n : part <= target.size /\ mem' = mem \cup Block(part)
             ELSE /\ n <= target.size
                  /\ Downloaded(n)
                  /\ mem' = mem \cup Block(n)
      BY <2>4
    <3>2. n \in Nat
      BY BootAssumption
    <3>3. CASE s # success
      <4>1. Stored' /\ HandOver' /\ info' = info
        BY <1>d, <2>2, <3>1, <3>3, StatusIs
      <4>2. PICK part \in 0..n : part <= target.size /\ mem' = mem \cup Block(part)
        BY <3>1, <3>3
      <4>3. ImageInRam'
        BY <2>1, <2>2, <3>2, <4>1, <4>2, BlocksInside, MoreBlocks
      <4> QED BY <4>1, <4>3
    <3>4. CASE s = success
      <4>1. n <= target.size /\ Downloaded(n) /\ mem' = mem \cup Block(n)
        BY <3>1, <3>4
      <4>2. HandOver' /\ pc' \in {"returned", "halted"} /\ info'.count = info.count
        BY <2>1, <3>2, <4>1, DownloadedIs
      <4>3. ImageInRam'
        BY <2>1, <2>2, <3>2, <4>1, <4>2, BlocksInside, MoreBlocks
      <4> QED BY <4>2, <4>3, AtTheEnd
    <3> QED BY <3>3, <3>4
  <2> QED BY <1>8, <2>3, <2>4 DEF Download
<1>9. CASE DownloadWithStatus
  <2>1. /\ pc = "download" /\ map' = map /\ target' = target
        /\ mem' = mem /\ total' = total
    BY <1>9 DEF DownloadWithStatus, start, transfer
  <2>2. /\ pc \in Downloading /\ mem' = {} /\ total' = 0 /\ Chosen
        /\ info.image_size = 0
    BY <2>1 DEF Stored, Downloading
  <2>3. CASE Goto("open") /\ info' = info
    <3>1. pc' = "open"
      BY <2>3 DEF Goto
    <3>2. Chosen'
      BY <2>1, <2>2, <2>3 DEF Chosen
    <3> QED
      BY <2>2, <2>3, <3>1, <3>2, EmptyMemory DEF Stored, HandOver, Asking, Downloading
  <2>4. CASE DownloadFails(cant_download_empty) \/ DownloadFails(buffer_not_large_enough)
    BY <1>d, <2>2, <2>4, OwnStatuses, EmptyMemory
  <2> QED BY <1>9, <2>3, <2>4 DEF DownloadWithStatus
<1>10. CASE TftpOpen
  <2>1. /\ pc = "open" /\ map' = map /\ target' = target
        /\ mem' = mem /\ total' = total
    BY <1>10 DEF TftpOpen, start, chosen
  <2>2. /\ pc \in Downloading /\ mem' = {} /\ total' = 0 /\ Chosen
        /\ info.image_size = 0
    BY <2>1 DEF Stored, Downloading
  <2>3. CASE Goto("read") /\ info' = info
    <3>1. pc' = "read"
      BY <2>3 DEF Goto
    <3>2. Chosen'
      BY <2>1, <2>2, <2>3 DEF Chosen
    <3>3. total' <= target'.size /\ Block(total)' \subseteq mem'
      BY <1>t, <2>1, <2>2 DEF Block
    <3> QED
      BY <2>2, <2>3, <3>1, <3>2, <3>3, EmptyMemory DEF Stored, HandOver, Asking, Downloading
  <2>4. CASE \E s \in NoPacket \cup (CallApi \ {success}) : DownloadFails(s)
    BY <1>d, <2>2, <2>4, StatusIs, EmptyMemory
  <2> QED BY <1>10, <2>3, <2>4 DEF TftpOpen
<1>11. CASE TftpRead
  <2>1. pc = "read" /\ map' = map /\ target' = target
    BY <1>11 DEF TftpRead, start, chosen
  <2>2. /\ pc \in Downloading /\ Chosen /\ info.image_size = 0
        /\ total <= target.size /\ Block(total) \subseteq mem
    BY <2>1 DEF Stored, Downloading
  <2>f. mem' = mem /\ info' = info => ImageInRam'
    BY <2>1 DEF ImageInRam
  <2>3. CASE (\E s \in CallApi \ {success} : DownloadFails(s)) /\ UNCHANGED <<total, mem>>
    BY <1>d, <2>f, <2>2, <2>3, StatusIs
  <2>4. CASE \E k \in total..(total + 2) :
             IF Received(k) # success
             THEN DownloadFails(Received(k)) /\ UNCHANGED <<total, mem>>
             ELSE /\ mem' = mem \cup {<<target.addr + total, k - 1>>}
                  /\ total' = total + 1
                  /\ \/ Goto("read") /\ UNCHANGED info
                     \/ \E s \in Codes : DownloadFails(s)
    <3>1. PICK k \in total..(total + 2) :
             IF Received(k) # success
             THEN DownloadFails(Received(k)) /\ UNCHANGED <<total, mem>>
             ELSE /\ mem' = mem \cup {<<target.addr + total, k - 1>>}
                  /\ total' = total + 1
                  /\ \/ Goto("read") /\ UNCHANGED info
                     \/ \E s \in Codes : DownloadFails(s)
      BY <2>4
    <3>2. k \in Nat /\ Received(k) \in Words
      BY <1>t, <3>1, ReceivedIs
    <3>3. CASE Received(k) # success
      BY <1>d, <2>f, <2>2, <3>1, <3>2, <3>3
    <3>4. CASE Received(k) = success
      <4>1. k - 1 = total /\ total + 1 <= target.size
        BY <1>t, <3>2, <3>4, RightPacket
      <4>2. mem' = mem \cup {<<target.addr + total, total>>} /\ total' = total + 1
        BY <3>1, <3>4, <4>1
      <4>3. info' = info /\ HandOver' /\ (pc' = "read" \/ Stored')
        <5>1. CASE Goto("read") /\ UNCHANGED info
          BY <5>1 DEF Goto, HandOver
        <5>2. CASE \E s \in Codes : DownloadFails(s)
          BY <1>d, <2>2, <5>2, CodesAreWords
        <5> QED BY <3>1, <3>4, <5>1, <5>2
      <4>4. ImageInRam'
        <5>1. total < target.size
          BY <1>t, <4>1
        <5> QED BY <2>1, <2>2, <4>2, <4>3, <5>1, NextBlock
      <4>5. Chosen'
        BY <2>1, <2>2, <4>3 DEF Chosen
      <4>6. total' <= target'.size /\ Block(total)' \subseteq mem'
        <5>1. \A j \in 0..total : j = total \/ j \in 0..(total - 1)
          BY <1>t
        <5>2. total' - 1 = total
          BY <1>t, <4>2
        <5> QED BY <2>1, <2>2, <4>1, <4>2, <5>1, <5>2 DEF Block
      <4>7. pc' = "read" => Stored'
        BY <2>2, <4>3, <4>5, <4>6 DEF Stored, Asking, Downloading
      <4> QED BY <4>3, <4>4, <4>7
    <3> QED BY <3>3, <3>4
  <2> QED BY <1>11, <2>3, <2>4 DEF TftpRead
<1>12. CASE TftpClose
  <2>1. pc = "read" /\ map' = map /\ target' = target /\ mem' = mem
    BY <1>12 DEF TftpClose, start, chosen
  <2>2. pc \in Downloading /\ Block(total) \subseteq mem'
    BY <2>1 DEF Stored, Downloading
  <2>3. CASE Downloaded(total)
    <3>1. HandOver' /\ pc' \in {"returned", "halted"} /\ info'.count = info.count
      BY <1>t, <2>1, <2>2, <2>3, DownloadedIs
    <3> QED BY <2>1, <3>1, AtTheEnd DEF ImageInRam
  <2>4. CASE \E s \in CallApi \ {success} : DownloadFails(s)
    <3>1. Stored' /\ HandOver' /\ info' = info
      BY <1>d, <2>2, <2>4, StatusIs
    <3> QED BY <2>1, <3>1 DEF ImageInRam
  <2> QED BY <1>12, <2>3, <2>4 DEF TftpClose
<1>13. CASE UNCHANGED vars
  BY <1>13 DEF Stored, Chosen, ImageInRam, HandOver, Block, Downloading, vars, start, chosen,
     transfer, ending
<1> QED
  BY <1>3, <1>4, <1>5, <1>6, <1>7, <1>8, <1>9, <1>10, <1>11, <1>12, <1>13 DEF Next

THEOREM InvariantHolds == Spec => []BootInv
<1>1. BootInv /\ [Next]_vars => BootInv'
  BY StepHolds
<1> QED
  BY InitHolds, <1>1, PTL DEF Spec

\* The image goes nowhere but into usable extended memory, whatever memory map
\* the BIOS reports, and however often the file changes its size.
THEOREM ImageStaysInRam == Spec => []ImageInRam
<1>1. BootInv => ImageInRam
  BY DEF BootInv
<1> QED
  BY InvariantHolds, <1>1, PTL

\* What main returns with is there, in every behaviour.
THEOREM HandedOverWhole == Spec => []HandOver
<1>1. BootInv => HandOver
  BY DEF BootInv
<1> QED
  BY InvariantHolds, <1>1, PTL

-----------------------------------------------------------------------------
(* Why the program ends: every step is one of fewer, in the order of its   *)
(* parts and, in the loops, by what the loop goes up to.                   *)

Stage ==
  CASE pc = "init"     -> 8
    [] pc = "map"      -> 7
    [] pc = "dhcp"     -> 6
    [] pc = "probe"    -> 5
    [] pc = "query"    -> 4
    [] pc = "download" -> 3
    [] pc = "open"     -> 2
    [] pc = "read"     -> 1
    [] OTHER           -> 0

UpTo(n, limit) == IF n < limit THEN limit - n ELSE 0

\* Entries of system_info, words before the signature, bytes of the image.
ToDo ==
  CASE pc = "map"   -> UpTo(Len(map), MapItems)
    [] pc = "probe" -> UpTo(word, Signature)
    [] pc = "read"  -> UpTo(total, hint)
    [] OTHER        -> 0

Nearer == Stage' < Stage \/ (Stage' = Stage /\ ToDo' < ToDo)

RunsDown == [][Nearer]_vars

LEMMA JudgeStage ==
  ASSUME NEW e, NEW next \in {"query", "returned"}, Judge(e, next)
  PROVE  pc' \in {next, "halted"}
BY DEF Judge, Halt

LEMMA MapNearer ==
  ASSUME TypeOK, QueryMemmap
  PROVE  Nearer
<1>1. pc = "map" /\ Len(map) \in Nat /\ MapItems \in Nat
  BY BootAssumption DEF QueryMemmap, TypeOK
<1>2. CASE pc' \in {"query", "dhcp", "halted", "lost"}
  BY <1>1, <1>2 DEF Nearer, Stage
<1>3. CASE pc' \notin {"query", "dhcp", "halted", "lost"}
  <2>1. Len(map) < MapItems /\ pc' = "map" /\ \E r \in Regions : map' = Append(map, r)
    BY <1>3, JudgeStage DEF QueryMemmap, Goto, BiosRefuses
  <2>2. Len(map') = Len(map) + 1
    BY <2>1 DEF TypeOK
  <2>3. ToDo' < ToDo
    BY <1>1, <2>1, <2>2 DEF ToDo, UpTo
  <2> QED BY <1>1, <2>1, <2>3 DEF Nearer, Stage
<1> QED BY <1>2, <1>3

LEMMA ProbeNearer ==
  ASSUME TypeOK, ProbeSerial
  PROVE  Nearer
<1>1. pc = "probe" /\ word \in Nat /\ Signature \in Nat
  BY BootAssumption DEF ProbeSerial, TypeOK
<1>2. CASE pc' \in {"query", "halted"}
  BY <1>1, <1>2 DEF Nearer, Stage
<1>3. CASE pc' \notin {"query", "halted"}
  <2>1. word < Signature /\ word' = word + 1 /\ pc' = "probe"
    BY <1>3, JudgeStage DEF ProbeSerial, Goto
  <2> QED BY <1>1, <2>1 DEF Nearer, Stage, ToDo, UpTo
<1> QED BY <1>2, <1>3

LEMMA ReadNearer ==
  ASSUME TypeOK, TftpRead
  PROVE  Nearer
<1>1. pc = "read" /\ total \in Nat /\ hint \in Nat /\ total < hint
  BY DEF TftpRead, TypeOK
<1>2. CASE pc' \in {"returned", "halted"}
  BY <1>1, <1>2 DEF Nearer, Stage
<1>3. CASE pc' \notin {"returned", "halted"}
  <2>1. pc' = "read" /\ total' = total + 1 /\ hint' = hint
    BY <1>3, JudgeStage DEF TftpRead, Goto, DownloadFails, Fail, chosen
  <2> QED BY <1>1, <2>1 DEF Nearer, Stage, ToDo, UpTo
<1> QED BY <1>2, <1>3

LEMMA StepNearer ==
  ASSUME TypeOK, Next
  PROVE  Nearer
<1>1. CASE PxeInit
  BY <1>1 DEF PxeInit, Goto, Halt, Nearer, Stage
<1>2. CASE AcquireDhcpInfo
  <2>1. pc = "dhcp" /\ pc' \in {"probe", "query", "halted"}
    BY <1>2, JudgeStage DEF AcquireDhcpInfo, Goto
  <2> QED BY <2>1 DEF Nearer, Stage
<1>3. CASE LocateMemory
  <2>1. pc = "query" /\ pc' \in {"download", "returned", "halted"}
    BY <1>3, JudgeStage DEF LocateMemory, Goto, Fail
  <2> QED BY <2>1 DEF Nearer, Stage
<1>4. CASE Download
  <2>1. pc = "download" /\ pc' \in {"returned", "halted"}
    BY <1>4, JudgeStage DEF Download, Downloaded, DownloadFails, Fail
  <2> QED BY <2>1 DEF Nearer, Stage
<1>5. CASE DownloadWithStatus
  <2>1. pc = "download" /\ pc' \in {"open", "returned", "halted"}
    BY <1>5, JudgeStage DEF DownloadWithStatus, Goto, DownloadFails, Fail
  <2> QED BY <2>1 DEF Nearer, Stage
<1>6. CASE TftpOpen
  <2>1. pc = "open" /\ pc' \in {"read", "returned", "halted"}
    BY <1>6, JudgeStage DEF TftpOpen, Goto, DownloadFails, Fail
  <2> QED BY <2>1 DEF Nearer, Stage
<1>7. CASE TftpClose
  <2>1. pc = "read" /\ pc' \in {"returned", "halted"}
    BY <1>7, JudgeStage DEF TftpClose, Downloaded, DownloadFails, Fail
  <2> QED BY <2>1 DEF Nearer, Stage
<1> QED BY <1>1, <1>2, <1>3, <1>4, <1>5, <1>6, <1>7, MapNearer, ProbeNearer, ReadNearer DEF Next

\* The program goes through its parts in one direction, also where an error has
\* no code and is not noticed, and no loop in it goes on for longer than what it
\* counts: entries of a table, words before a signature, bytes of the image.
THEOREM ProgramRunsDown == Spec => RunsDown /\ [](Stage \in 0..8 /\ ToDo \in Nat)
<1>1. TypeOK => Stage \in 0..8 /\ ToDo \in Nat
  <2> SUFFICES ASSUME TypeOK PROVE Stage \in 0..8 /\ ToDo \in Nat
    OBVIOUS
  <2>1. \A m \in Nat, n \in Nat : UpTo(m, n) \in Nat
    BY DEF UpTo
  <2>2. Len(map) \in Nat /\ MapItems \in Nat /\ word \in Nat /\ Signature \in Nat
        /\ total \in Nat /\ hint \in Nat
    BY BootAssumption DEF TypeOK
  <2> QED BY <2>1, <2>2 DEF Stage, ToDo
<1>2. TypeOK /\ [Next]_vars => [Nearer]_vars
  BY StepNearer
<1> QED BY <1>1, <1>2, TypeCorrect, PTL DEF Spec, RunsDown
=============================================================================
