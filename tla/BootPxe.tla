------------------------------ MODULE BootPxe -------------------------------
(***************************************************************************)
(* os99/boot-pxe: the program the network boot ROM loads.  It finds the    *)
(* ROM's interface, asks the BIOS for the memory map, copies the DHCP      *)
(* reply, looks for a serial port, asks the server for the size of the     *)
(* core image, chooses extended memory for it and downloads it there.  The *)
(* BIOS, the ROM and the server may answer every call in any way they are  *)
(* allowed to; the file may be another one each time it is asked for.      *)
(*                                                                         *)
(* Memory is counted in blocks, and a packet carries one.  Definitions     *)
(* ending in _Slip are used by no specification.                           *)
(***************************************************************************)
EXTENDS Integers, Sequences, FiniteSets

CONSTANTS
  MapItems,    (* NUMBER_OF_MEMMAP_ITEMS: entries system_info has room for *)
  Extended,    (* where extended memory begins (0x100000)                  *)
  Wrap,        (* addresses and sizes of the image are kept modulo it (2^32) *)
  Regions,     (* entries a BIOS may report: [base, size, type]            *)
  Sizes,       (* sizes the image may have on the server                   *)
  Codes,       (* status words of the ROM other than success               *)
  Signature    (* words between the serial port table and system_info      *)

\* A word has 16 bits; an error value is made of two.
Word == 65536

ASSUME BootAssumption ==
  /\ MapItems \in Nat \ {0} /\ Extended \in Nat /\ Wrap \in Nat \ {0}
  /\ Regions \subseteq [base : Nat, size : Nat, type : Nat]
  /\ Sizes \subseteq Nat
  /\ Codes \subseteq Nat \ {0} /\ \A c \in Codes : c < Word
  /\ Signature \in Nat \ 0..3

VARIABLES
  pc,        (* where the program is                                       *)
  rom,       (* s_PXEbang: whether an interface of the ROM is known        *)
  map,       (* memory_map.data, as far as it is filled                    *)
  info,      (* the rest of system_info                                    *)
  word,      (* the index of SYSINFO_probe_serial                          *)
  target,    (* the memory the image is downloaded to                      *)
  hint,      (* the size of the image the program goes by                  *)
  file,      (* the size of the file the ROM's connection has open         *)
  total,     (* total_received_bytes                                       *)
  mem,       (* the image's blocks in memory: pairs of an address and a block *)
  error,     (* the error value main was given last                        *)
  said       (* the error value the program has halted with                *)

start    == <<rom, map, word>>
chosen   == <<target, hint>>
transfer == <<file, total, mem>>
ending   == <<pc, error, said>>
vars     == <<start, info, chosen, transfer, ending>>

Nothing == -1

\* error_category_type
NO_ERROR_SUCCESS == 0
PXE_FAILED_TO_INITIALIZE == 2
ACQUIRE_BIOS_MEMMAP_OVERFLOW == 5
ACQUIRE_PXE_DHCP_INFO_FAILED == 6
NOT_ENOUGH_EXTENDED_MEMORY == 7
CORE_IMAGE_BAD_OR_NOT_FOUND == 8
PXE_DOWNLOAD_FAILED == 9

\* PXE_status: what the program itself returns, besides what the ROM does.
success == 0
pxe_not_available == 65535
cant_download_empty == 65529
unexpected_packet_length == 65528
unexpected_packet_number == 65527
buffer_not_large_enough == 65526
InitFailures == 65532..65535
Statuses == {success, cant_download_empty, unexpected_packet_length,
             unexpected_packet_number, buffer_not_large_enough} \cup InitFailures \cup Codes

MakeError(category, code) == category * Word + code
Code(e) == e % Word

\* What is left of them in the arguments of a download.
Cut(x) == x % Wrap

\* memset(info(), 0): what SYSINFO_acquire starts from.
Cleared == [count |-> 0, dhcp |-> FALSE, port |-> 0, conf |-> 0, image_addr |-> 0, image_size |-> 0]

Init ==
  /\ pc = "init" /\ rom = FALSE /\ map = <<>> /\ info = Cleared /\ word = 0
  /\ target = [addr |-> 0, size |-> 0] /\ hint = 0 /\ file = Nothing /\ total = 0
  /\ mem = {} /\ error = NO_ERROR_SUCCESS /\ said = Nothing

-----------------------------------------------------------------------------
(* Errors: main keeps an error value in 16 bits, where its category is not. *)

Halt(e) == pc' = "halted" /\ said' = e

Goto(next) == pc' = next /\ UNCHANGED <<error, said>>

\* Goes on whatever the error.
Judge_Slip(e, next) ==
  /\ error' = e
  /\ pc' = next /\ said' = said

Judge(e, next) ==
  /\ error' = e
  /\ IF Code(e) # NO_ERROR_SUCCESS THEN Halt(Code(e)) ELSE pc' = next /\ said' = said

-----------------------------------------------------------------------------
(* PXE_init and SYSINFO_acquire.                                           *)

PxeInit ==
  /\ pc = "init"
  /\ \/ /\ \E found \in BOOLEAN : rom' = found
        /\ Goto("map")
     \/ /\ \E s \in InitFailures : Halt(MakeError(PXE_FAILED_TO_INITIALIZE, s))
        /\ UNCHANGED <<rom, error>>
  /\ UNCHANGED <<map, word, info, chosen, transfer>>

\* The status words a call of the ROM may end with.
CallApi == IF rom THEN {success} \cup Codes ELSE {pxe_not_available}

\* PXE_get_cached_info: the status, and whether there is a packet.
CachedInfo ==
  [status : CallApi \ {success}, packet : {FALSE}] \cup
  [status : CallApi \cap {success}, packet : BOOLEAN]

\* What the functions that start with PXE_get_cached_info return when there is
\* no packet: its status, success included.
NoPacket == {c.status : c \in {i \in CachedInfo : ~i.packet}}

\* BIOS_query_memmap when the BIOS sets the carry flag, as some do at the end
\* of the map: it returns with two words too many on the stack.
BiosRefuses == Goto("lost")

\* One pass of SYSINFO_acquire_memory_map.
QueryMemmap ==
  /\ pc = "map"
  /\ \/ /\ Len(map) >= MapItems
        /\ Judge(MakeError(ACQUIRE_BIOS_MEMMAP_OVERFLOW, 0), "query")
        /\ UNCHANGED <<map, info>>
     \/ /\ Len(map) < MapItems
        /\ \E r \in Regions, last \in BOOLEAN :
             /\ map' = Append(map, r)
             /\ info' = IF last THEN [info EXCEPT !.count = Len(map')] ELSE info
             /\ Goto(IF last THEN "dhcp" ELSE "map")
     \/ /\ Len(map) < MapItems
        /\ BiosRefuses
        /\ UNCHANGED <<map, info>>
  /\ UNCHANGED <<rom, word, chosen, transfer>>

AcquireDhcpInfo ==
  /\ pc = "dhcp"
  /\ \E c \in CachedInfo :
       IF c.packet
       THEN info' = [info EXCEPT !.dhcp = TRUE] /\ Goto("probe")
       ELSE info' = info /\ Judge(MakeError(ACQUIRE_PXE_DHCP_INFO_FAILED, c.status), "query")
  /\ UNCHANGED <<start, chosen, transfer>>

\* Before the signature is there.
ProbeSerial_Slip ==
  /\ pc = "probe"
  /\ word' = (word + 1) % Signature
  /\ Goto("probe")
  /\ UNCHANGED <<rom, map, info, chosen, transfer>>

\* One word of SYSINFO_probe_serial, which looks for one that is not zero.
\* Behind the table of the ports are other words of the BIOS, and then the
\* signature of system_info.
ProbeSerial ==
  /\ pc = "probe"
  /\ \/ /\ word < Signature
        /\ word' = word + 1
        /\ Goto("probe")
        /\ UNCHANGED info
     \/ /\ info' = IF word < 4 THEN [info EXCEPT !.port = word, !.conf = 227] ELSE info
        /\ Judge(NO_ERROR_SUCCESS, "query")
        /\ UNCHANGED word
  /\ UNCHANGED <<rom, map, chosen, transfer>>

-----------------------------------------------------------------------------
(* download_image.                                                         *)

Fail(category, code) == Judge(MakeError(category, code), "returned")

\* PXE_query_size: the status, and *size, which is zero before.
QuerySize ==
  [status : NoPacket \cup (CallApi \ {success}), size : {0}] \cup
  [status : CallApi \cap {success}, size : Sizes]

\* Usable or not.
Fits_Slip(i, size) == map[i].base >= Extended /\ map[i].size >= size

Fits(i, size) == map[i].base >= Extended /\ map[i].type = 1 /\ map[i].size >= size

\* locate_extended_memory: the first entry that fits.
Located(size) ==
  {i \in 1..info.count : Fits(i, size) /\ \A j \in 1..(i - 1) : ~Fits(j, size)}

\* PXE_query_size and locate_extended_memory; base and size of the entry are
\* passed on in 32 bits.
LocateMemory ==
  /\ pc = "query"
  /\ \E q \in QuerySize :
       \/ /\ q.status # success \/ q.size < 1
          /\ Fail(CORE_IMAGE_BAD_OR_NOT_FOUND, 0)
          /\ UNCHANGED chosen
       \/ /\ q.status = success /\ q.size >= 1 /\ Located(q.size) = {}
          /\ Fail(NOT_ENOUGH_EXTENDED_MEMORY, 0)
          /\ UNCHANGED chosen
       \/ /\ q.status = success /\ q.size >= 1
          /\ \E i \in Located(q.size) :
               target' = [addr |-> Cut(map[i].base), size |-> Cut(map[i].size)]
          /\ hint' = q.size
          /\ Goto("download")
  /\ UNCHANGED <<start, info, transfer>>

\* The end of download_image.
Downloaded(n) ==
  /\ info' = [info EXCEPT !.image_addr = target.addr, !.image_size = n]
  /\ Judge(NO_ERROR_SUCCESS, "returned")

DownloadFails(s) == Fail(PXE_DOWNLOAD_FAILED, s) /\ UNCHANGED info

Block(n) == {<<target.addr + k, k>> : k \in 0..(n - 1)}

\* PXE_download.  The ROM stores no more than there is room for, and may have
\* stored a part when it fails; without a packet nothing is called, and the
\* status may be success.
Download ==
  /\ pc = "download"
  /\ \/ /\ \E s \in NoPacket : IF s = success THEN Downloaded(0) ELSE DownloadFails(s)
        /\ UNCHANGED mem
     \/ /\ \E n \in Sizes, s \in CallApi :
             IF s # success
             THEN /\ DownloadFails(s)
                  /\ \E part \in 0..n : part <= target.size /\ mem' = mem \cup Block(part)
             ELSE /\ n <= target.size
                  /\ Downloaded(n)
                  /\ mem' = mem \cup Block(n)
  /\ UNCHANGED <<start, chosen, file, total>>

-----------------------------------------------------------------------------
(* PXE_download_with_status, which takes the place of PXE_download if its  *)
(* caller gives a function to be told of the progress.  The size hint is   *)
(* the size of the file, or zero, and the file is asked for again.         *)

DownloadWithStatus ==
  /\ pc = "download"
  /\ \/ /\ Goto("open")
        /\ UNCHANGED <<hint, info>>
     \/ \E q \in QuerySize :
          /\ hint' = q.size
          /\ \/ q.size = 0 /\ DownloadFails(cant_download_empty)
             \/ q.size > target.size /\ DownloadFails(buffer_not_large_enough)
             \/ q.size \in 1..target.size /\ Goto("open") /\ UNCHANGED info
  /\ UNCHANGED <<start, target, transfer>>

\* Without a packet the status may be success with nothing open.
TftpOpen ==
  /\ pc = "open"
  /\ \/ /\ \E s \in NoPacket \cup (CallApi \ {success}) :
             IF s = success THEN Goto("read") /\ UNCHANGED info ELSE DownloadFails(s)
        /\ UNCHANGED file
     \/ /\ \E n \in Sizes : file' = n
        /\ Goto("read")
        /\ UNCHANGED info
  /\ UNCHANGED <<start, chosen, total, mem>>

\* What is made of the packet with the number k, which carries the block k - 1
\* of the file or, after its last block, nothing.
Received(k) ==
  IF k # total + 1 THEN unexpected_packet_number
  ELSE IF k > file THEN unexpected_packet_length
  ELSE IF total + 1 > target.size THEN buffer_not_large_enough
  ELSE success

\* One pass of the loop: the ROM fails, or hands over the next packet, the one
\* before or the one after it.  The function told of it may stop the download.
TftpRead ==
  /\ pc = "read" /\ total < hint
  /\ \/ /\ \E s \in CallApi \ {success} : DownloadFails(s)
        /\ UNCHANGED <<total, mem>>
     \/ /\ file # Nothing
        /\ \E k \in total..(total + 2) :
             IF Received(k) # success
             THEN DownloadFails(Received(k)) /\ UNCHANGED <<total, mem>>
             ELSE /\ mem' = mem \cup {<<target.addr + total, k - 1>>}
                  /\ total' = total + 1
                  /\ \/ Goto("read") /\ UNCHANGED info
                     \/ \E s \in Codes : DownloadFails(s)
  /\ UNCHANGED <<start, chosen, file>>

TftpClose ==
  /\ pc = "read" /\ total >= hint
  /\ \/ /\ Downloaded(total)
        /\ file' = Nothing
     \/ /\ \E s \in CallApi \ {success} : DownloadFails(s)
        /\ UNCHANGED file
  /\ UNCHANGED <<start, chosen, total, mem>>

-----------------------------------------------------------------------------

Next ==
  \/ PxeInit \/ QueryMemmap \/ AcquireDhcpInfo \/ ProbeSerial
  \/ LocateMemory \/ Download
  \/ DownloadWithStatus \/ TftpOpen \/ TftpRead \/ TftpClose

\* The program goes on; BIOS and ROM answer every call.
Spec == Init /\ [][Next]_vars /\ WF_vars(Next)

-----------------------------------------------------------------------------

\* Statuses and sizes are in range; the map has entries the BIOS reported, and
\* not more than there is room for.
TypeOK ==
  /\ pc \in {"init", "map", "dhcp", "probe", "query", "download", "open", "read",
             "returned", "halted", "lost"}
  /\ rom \in BOOLEAN
  /\ map \in Seq(Regions) /\ Len(map) <= MapItems
  /\ info \in [count : 0..Len(map), dhcp : BOOLEAN, port : 0..3, conf : {0, 227},
               image_addr : 0..(Wrap - 1), image_size : Nat]
  /\ word \in 0..Signature
  /\ target \in [addr : 0..(Wrap - 1), size : 0..(Wrap - 1)]
  /\ hint \in Nat /\ file \in Nat \cup {Nothing} /\ total \in Nat
  /\ mem \subseteq Nat \X Nat
  /\ error \in Nat /\ said \in Nat \cup {Nothing}

\* A part of the image is stored only in memory the BIOS reported as usable,
\* above the first megabyte and inside one entry, whatever the ROM hands over
\* and whichever file it downloads; or where such an entry of 4 GB or more
\* comes out when its address is cut to 32 bits.
ImageInRam ==
  \A m \in mem :
    \E i \in 1..info.count :
      /\ map[i].type = 1 /\ map[i].base >= Extended /\ m[2] < map[i].size
      /\ m[1] = (map[i].base % Wrap) + m[2]

\* When main returns with an image, the whole of what system_info says is
\* there, block by block; when it returns without one, no error with a code
\* has been met.  (Errors without a code make main return too.)
HandOver ==
  pc = "returned" =>
    /\ Code(error) = NO_ERROR_SUCCESS
    /\ Block(info.image_size) \subseteq mem
    /\ info.image_size > 0 => info.image_addr = target.addr /\ error = NO_ERROR_SUCCESS

\* The program comes to an end: the search for a port stops at the signature
\* stored before it, and a download has no packet that brings nothing.
Ends == <>(pc \in {"returned", "halted", "lost"})
=============================================================================
