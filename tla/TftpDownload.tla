---------------------------- MODULE TftpDownload ----------------------------
(***************************************************************************)
(* pxenv::tftp::download: ask for the size of a file, open it, resize the  *)
(* file written to, read packet after packet, close.  Every call goes to   *)
(* the PXE ROM, which has one connection, and any of them may fail; the    *)
(* server may put another version of the file in place between two calls,  *)
(* and the ROM may hand over a packet twice or leave one out.              *)
(*                                                                         *)
(* A file is a sequence of bytes.  Definitions ending in _Slip are used by *)
(* no specification (README, "What each property is sensitive to").        *)
(***************************************************************************)
EXTENDS HeapFile

CONSTANTS
  Names,        (* names of files                                          *)
  Files,        (* the versions of each file the server will have, in turn *)
  PacketSize,   (* the size of a packet agreed on when opening             *)
  PacketLimit   (* packet numbers are counted modulo it (2^16)             *)

\* What a byte of a file may be.
Byte ==
  {Junk} \cup
  UNION {UNION {{Files[n][v][i] : i \in DOMAIN Files[n][v]} : v \in DOMAIN Files[n]} : n \in Names}

\* A file that no server has is one with no versions.
ASSUME TftpAssumption ==
  /\ PacketSize \in Nat \ {0}
  /\ PacketLimit \in Nat \ {0, 1}
  /\ DOMAIN Files = Names
  /\ \A n \in Names : Files[n] \in Seq(Seq(Byte))

VARIABLES
  version,     (* the version of each file the server has now              *)
  rom,         (* the ROM's connection, and what it has handed over        *)
  pc,          (* where the program is                                     *)
  name,        (* the file being downloaded                                *)
  fileSize,    (* file_size                                                *)
  bytesRead,   (* bytes_read                                               *)
  lastPacket,  (* last_packet                                              *)
  out,         (* the file written to: the open entry of the archive       *)
  offset,      (* and its offset                                           *)
  steady       (* auxiliary: the server has not changed the file since it  *)
               (* was asked for its size                                   *)

server   == <<version>>
transfer == <<rom, name, fileSize, bytesRead, lastPacket>>
written  == <<out, offset>>

NoFile == <<>>
NoConnection == [open |-> FALSE, file |-> NoFile, sent |-> 0, packet |-> 0]

Served(n) == version[n] # 0
File(n) == Files[n][version[n]]

Smaller(m, n) == IF m < n THEN m ELSE n
Portion(file, from, n) == SubSeq(file, from + 1, Smaller(from + n, Len(file)))

-----------------------------------------------------------------------------
(* The server.                                                             *)

\* Another version is put in place; a connection goes on with the one it has.
Publish(n) ==
  /\ version[n] \in 1..(Len(Files[n]) - 1)
  /\ version' = [version EXCEPT ![n] = @ + 1]
  /\ steady' = (steady /\ n # name)
  /\ UNCHANGED <<transfer, written, pc>>

-----------------------------------------------------------------------------
(* The download.                                                           *)

Goto(next) == pc' = next /\ UNCHANGED <<server, transfer, written, steady>>

\* The ROM refuses the call.
Refused == Goto("download_failed")

GetFileSize ==
  /\ pc = "get_fsize"
  /\ \/ /\ Served(name)
        /\ fileSize' = Len(File(name))
        /\ steady' = TRUE
        /\ pc' = "tftp_open"
        /\ UNCHANGED <<server, written, rom, name, bytesRead, lastPacket>>
     \/ Refused

\* The ROM has one connection: an open while there is one fails.  resize(0)
\* of the archive's entry leaves it as it is.
TftpOpen ==
  /\ pc = "tftp_open"
  /\ \/ /\ ~rom.open /\ Served(name)
        /\ rom' = [open |-> TRUE, file |-> File(name), sent |-> 0, packet |-> 0]
        /\ out' = IF fileSize = 0 THEN out ELSE Resized(out, fileSize)
        /\ bytesRead' = 0 /\ lastPacket' = 0
        /\ pc' = "tftp_read"
        /\ UNCHANGED <<server, offset, name, fileSize, steady>>
     \/ Refused

\* What tftp_read may be given: the next packet, the last one once more, or
\* the one after the next; with it, what the ROM has then handed over.
Packet(k) ==
  [number |-> (rom.packet + k) % PacketLimit,
   bytes  |-> Portion(rom.file, rom.sent + (k - 1) * PacketSize, PacketSize),
   sent   |-> Smaller(rom.sent + k * PacketSize, Len(rom.file))]

Packets ==
  {Packet(1)} \cup
  (IF rom.sent > 0 THEN {Packet(0)} ELSE {}) \cup
  (IF rom.sent + PacketSize <= Len(rom.file) THEN {Packet(2)} ELSE {})

\* Takes whatever packet comes.
ReadPacket_Slip ==
  /\ pc = "tftp_read" /\ bytesRead < fileSize
  /\ \E p \in Packets :
       /\ rom' = [rom EXCEPT !.sent = p.sent, !.packet = p.number]
       /\ out' = WriteAt(out, offset, p.bytes)
       /\ offset' = offset + Len(p.bytes)
       /\ bytesRead' = bytesRead + Len(p.bytes)
       /\ lastPacket' = p.number
       /\ pc' = IF Len(p.bytes) < PacketSize THEN "tftp_close" ELSE "tftp_read"
  /\ UNCHANGED <<server, name, fileSize, steady>>

\* One pass of the loop.  The numbers are compared as integers: the packet
\* after the last number there is never has the number expected.
ReadPacket ==
  /\ pc = "tftp_read" /\ bytesRead < fileSize
  /\ \E p \in Packets :
       IF p.number = lastPacket + 1
       THEN /\ rom' = [rom EXCEPT !.sent = p.sent, !.packet = p.number]
            /\ out' = WriteAt(out, offset, p.bytes)
            /\ offset' = offset + Len(p.bytes)
            /\ bytesRead' = bytesRead + Len(p.bytes)
            /\ lastPacket' = p.number
            /\ pc' = IF Len(p.bytes) < PacketSize THEN "tftp_close" ELSE "tftp_read"
            /\ UNCHANGED <<server, name, fileSize, steady>>
       ELSE Refused

\* Starts again from the beginning.
ReadRefused_Slip ==
  /\ pc = "tftp_read" /\ bytesRead < fileSize
  /\ rom' = NoConnection
  /\ bytesRead' = 0 /\ offset' = 0
  /\ pc' = "get_fsize"
  /\ UNCHANGED <<server, name, fileSize, lastPacket, out, steady>>

ReadRefused ==
  /\ pc = "tftp_read" /\ bytesRead < fileSize
  /\ Refused

AllRead ==
  /\ pc = "tftp_read" /\ bytesRead >= fileSize
  /\ Goto("tftp_close")

\* Leaves the connection as it is.
TftpClose_Slip ==
  /\ pc = "tftp_close"
  /\ Goto("downloaded")

\* The status of the close is the status of the download.
TftpClose ==
  /\ pc = "tftp_close"
  /\ \/ /\ rom' = [rom EXCEPT !.open = FALSE]
        /\ pc' = "downloaded"
        /\ UNCHANGED <<server, written, name, fileSize, bytesRead, lastPacket, steady>>
     \/ Refused

DownloadStep ==
  GetFileSize \/ TftpOpen \/ ReadPacket \/ ReadRefused \/ AllRead \/ TftpClose

-----------------------------------------------------------------------------
(* One download after another, each into a new file; after one that failed *)
(* the program ends (NetBoot shows that it does).                          *)

TftpInit ==
  /\ version = [n \in Names |-> IF Files[n] = <<>> THEN 0 ELSE 1]
  /\ rom = NoConnection
  /\ pc = "idle" /\ name \in Names
  /\ fileSize = 0 /\ bytesRead = 0 /\ lastPacket = 0
  /\ out = <<>> /\ offset = 0
  /\ steady = TRUE

\* The state from which a download of n starts, with where it writes.
Start(n) ==
  /\ name' = n
  /\ pc' = "get_fsize"
  /\ fileSize' = 0 /\ bytesRead' = 0 /\ lastPacket' = 0
  /\ UNCHANGED <<server, rom, steady>>

StartDownload(n) ==
  /\ pc \in {"idle", "downloaded"}
  /\ Start(n)
  /\ out' = <<>> /\ offset' = 0

TftpNext ==
  \/ \E n \in Names : StartDownload(n) \/ Publish(n)
  \/ DownloadStep

tftpVars == <<server, transfer, written, pc, steady>>

\* The program goes on with the download it is in; every call to the ROM
\* returns (the ROM has its own timeouts).
TftpSpec == TftpInit /\ [][TftpNext]_tftpVars /\ WF_tftpVars(DownloadStep)

-----------------------------------------------------------------------------
(* What a download delivers.                                               *)

\* Numbers are in range, and a connection has not handed over more than its
\* file has.
TftpTypeOK ==
  /\ \A n \in Names : version[n] \in 0..Len(Files[n])
  /\ rom.sent \in 0..Len(rom.file) /\ rom.packet \in 0..(PacketLimit - 1)
  /\ lastPacket \in 0..(PacketLimit - 1)
  /\ bytesRead \in Nat /\ fileSize \in Nat /\ offset \in 0..Len(out)

Downloading == pc \in {"tftp_read", "tftp_close", "downloaded"}

\* What has been written is what the connection's file begins with, and what
\* is left of the size asked for first is unwritten memory.
DeliversPrefix ==
  Downloading =>
    out = WriteAt(Resized(<<>>, fileSize), 0, Portion(rom.file, 0, bytesRead))

\* A download that succeeds has delivered the whole file, if the server has
\* not changed it meanwhile, and has closed its connection.
WholeOnSuccess ==
  pc = "downloaded" => ~rom.open /\ (steady => out = rom.file)

\* A download ends, whatever packets the ROM hands over.
DownloadEnds ==
  pc \in {"get_fsize", "tftp_open", "tftp_read", "tftp_close"}
    ~> pc \in {"downloaded", "download_failed"}
=============================================================================
