------------------------------- MODULE Archive ------------------------------
(***************************************************************************)
(* vfsio::archive, the writer of the ram disk: files and directories one   *)
(* after the other in a block file (vfsio::heapfile), each behind a header *)
(* that holds its size, which is known, and written, only when it is       *)
(* closed.  archive_view::find and archive::load read the result back.     *)
(*                                                                         *)
(* A byte of the block file is the first byte of a header (with what the   *)
(* header says), another byte of a header, a byte of data, or Junk         *)
(* (HeapFile).                                                             *)
(*                                                                         *)
(* Definitions ending in _Slip are used by no specification (README, "What *)
(* each property is sensitive to").                                        *)
(***************************************************************************)
EXTENDS HeapFile

CONSTANTS
  Names,       (* names of files and directories                           *)
  HeaderSize,  (* the header's size, padded, for each name                 *)
  Data,        (* what a byte of data can be                               *)
  Align,       (* entries start at multiples of it (16 in the program)     *)
  Lengths,     (* how many bytes a caller writes, or resizes or seeks to   *)
  MaxBlock,    (* bound: the ram disk grows no larger                      *)
  MaxDepth     (* bound: entries open at a time                            *)

\* name_len pads every header to a whole number of alignment units.
ASSUME ArchiveAssumption ==
  /\ Align \in Nat \ {0}
  /\ HeaderSize \in [Names -> {n \in 1..MaxBlock : n % Align = 0}]
  /\ Lengths \subseteq Nat
  /\ MaxBlock \in Nat /\ MaxDepth \in Nat

VARIABLES
  block,   (* the block file's bytes                                       *)
  boffset, (* the block file's offset                                      *)
  stack,   (* m_stack: the entries open, innermost last                    *)
  gone,    (* whether the writer is being destroyed                        *)
  offset,  (* the archive's own offset, inside the innermost entry         *)
  data,    (* auxiliary: what the innermost file should hold               *)
  kids     (* auxiliary: what each open entry, and the root before them,   *)
           (* should contain                                               *)

vars == <<block, boffset, stack, gone, offset, data, kids>>

HeaderRest == [tag |-> "header rest"]
DataByte(d) == [tag |-> "data", value |-> d]
Header(type, name, n) == [tag |-> "header", type |-> type, name |-> name, size |-> n]

IsOpen == stack # <<>>
Top == stack[Len(stack)]
Below(s) == SubSeq(s, 1, Len(s) - 1)
DataStart == Top.offset + HeaderSize[Top.header.name]

\* Rounds down.
AlignUp_Slip(n) == (n \div Align) * Align

AlignUp(n) == ((n + Align - 1) \div Align) * Align

\* archive::size: from the innermost entry's header to the end of all.
Size == Len(block) - Top.offset

\* archive::write at a place of the innermost entry.
WriteInto(at, src) == WriteAt(block, DataStart + at, src)

HeaderBytes(h) ==
  [i \in 1..HeaderSize[h.name] |-> IF i = 1 THEN h ELSE HeaderRest]

-----------------------------------------------------------------------------
(* The writer.                                                             *)

Init ==
  /\ block = <<>> /\ boffset = 0
  /\ stack = <<>> /\ gone = FALSE /\ offset = 0
  /\ data = <<>> /\ kids = << <<>> >>

Open(type, name) ==
  LET at == AlignUp(boffset)
      header == Header(type, name, 0)
      end == at + HeaderSize[name]
  IN  /\ IsOpen => Top.header.type = "directory"
      /\ Len(stack) < MaxDepth /\ end <= MaxBlock
      /\ stack' = Append(stack, [offset |-> at, header |-> header])
      /\ block' = WriteAt(AtLeast(block, at), at, HeaderBytes(header))
      /\ boffset' = end
      /\ offset' = 0
      /\ data' = <<>>
      /\ kids' = Append(kids, <<>>)
      /\ UNCHANGED gone

\* A file has no entries inside it.
OpenRefused ==
  /\ IsOpen /\ Top.header.type # "directory"
  /\ UNCHANGED vars

\* Callers write into files.
InFile == IsOpen /\ Top.header.type = "file"

\* Writes where the block file stands, not where the entry does.
Write_Slip(d, n) ==
  LET src == [i \in 1..n |-> DataByte(d)] IN
  /\ InFile
  /\ boffset + offset + n <= MaxBlock
  /\ block' = WriteAt(block, boffset, src)
  /\ offset' = offset + n
  /\ data' = WriteAt(data, offset, src)
  /\ UNCHANGED <<boffset, stack, gone, kids>>

Write(d, n) ==
  LET src == [i \in 1..n |-> DataByte(d)] IN
  /\ InFile
  /\ DataStart + offset + n <= MaxBlock
  /\ block' = WriteInto(offset, src)
  /\ offset' = offset + n
  /\ data' = WriteAt(data, offset, src)
  /\ UNCHANGED <<boffset, stack, gone, kids>>

\* The size asked for is compared with the distance from the entry's first
\* byte to the block file's offset, which stays behind the header: asking for
\* no bytes at all leaves the file as it is.
Resize(n) ==
  /\ InFile
  /\ DataStart + n <= MaxBlock
  /\ IF n = boffset - DataStart
     THEN UNCHANGED <<block, data>>
     ELSE block' = Resized(block, DataStart + n) /\ data' = Resized(data, n)
  /\ UNCHANGED <<boffset, stack, gone, offset, kids>>

ResizeRefused ==
  /\ ~InFile
  /\ UNCHANGED vars

\* archive::size counts the header, so a seek may go past the data by as
\* much without resizing anything.
Seek(n) ==
  /\ InFile
  /\ DataStart + n <= MaxBlock
  /\ offset' = n
  /\ IF n > Size
     THEN block' = Resized(block, DataStart + n) /\ data' = Resized(data, n)
     ELSE UNCHANGED <<block, data>>
  /\ UNCHANGED <<boffset, stack, gone, kids>>

\* The size written leaves the header out.
Close_Slip ==
  LET n == Len(block) - DataStart
      header == [Top.header EXCEPT !.size = n]
      next == AlignUp(Top.offset + n)
      node == [name |-> header.name, type |-> header.type,
               data |-> data, kids |-> kids[Len(kids)]]
  IN  /\ IsOpen
      /\ block' = AtLeast(WriteAt(block, Top.offset, HeaderBytes(header)), next)
      /\ boffset' = next
      /\ stack' = Below(stack)
      /\ kids' = [Below(kids) EXCEPT ![Len(kids) - 1] = Append(@, node)]
      /\ data' = <<>>
      /\ UNCHANGED <<gone, offset>>

Close ==
  LET header == [Top.header EXCEPT !.size = Size]
      next == AlignUp(Top.offset + Size)
      node == [name |-> header.name, type |-> header.type,
               data |-> data, kids |-> kids[Len(kids)]]
  IN  /\ IsOpen
      /\ block' = AtLeast(WriteAt(block, Top.offset, HeaderBytes(header)), next)
      /\ boffset' = next
      /\ stack' = Below(stack)
      /\ kids' = [Below(kids) EXCEPT ![Len(kids) - 1] = Append(@, node)]
      /\ data' = <<>>
      /\ UNCHANGED <<gone, offset>>

CloseRefused ==
  /\ ~IsOpen
  /\ UNCHANGED vars

\* What is in the archive cannot be read through the writer.
ReadRefused ==
  /\ IsOpen
  /\ UNCHANGED vars

\* The destructor closes whatever is open, the innermost entry first.
Destroy ==
  /\ ~gone /\ gone' = TRUE
  /\ UNCHANGED <<block, boffset, stack, offset, data, kids>>

DestroyClose == gone /\ Close

Use ==
  \/ \E type \in {"file", "directory"}, name \in Names : Open(type, name)
  \/ \E d \in Data, n \in Lengths \ {0} : Write(d, n)
  \/ \E n \in Lengths : Resize(n) \/ Seek(n)
  \/ Close
  \/ OpenRefused \/ ResizeRefused \/ CloseRefused \/ ReadRefused

Next == (~gone /\ Use) \/ Destroy \/ DestroyClose

Spec == Init /\ [][Next]_vars

-----------------------------------------------------------------------------
(* The readers, over a complete block file.                                *)

IsHeader(at) == at < Len(block) /\ block[at + 1].tag = "header"
HeaderAt(at) == block[at + 1]
BodyAt(at) == at + HeaderSize[HeaderAt(at).name]
EndAt(at) == AlignUp(at + HeaderAt(at).size)
Contents(from, to) == SubSeq(block, from + 1, to)

Missing == [found |-> "missing"]
Stuck   == [found |-> "stuck"]

Lesser(m, n) == IF m < n THEN m ELSE n

\* archive_view::find, one path component, in the bytes from lo to hi: where
\* the entry is, and where what it contains lies.
FindIn(name, lo, hi) ==
  LET walk[at \in lo..(MaxBlock + Align)] ==
        IF at >= hi \/ ~IsHeader(at) THEN Missing
        ELSE IF HeaderAt(at).name = name
             THEN [found |-> HeaderAt(at).type, lo |-> BodyAt(at),
                   hi |-> Lesser(EndAt(at), hi), end |-> at + HeaderAt(at).size]
        ELSE IF EndAt(at) <= at THEN Stuck
        ELSE walk[EndAt(at)]
  IN  walk[lo]

FoundData(entry) ==
  IF entry.found = "file"
  THEN [found |-> "file", data |-> Contents(entry.lo, entry.end)]
  ELSE [found |-> entry.found]

\* A path is a name, or a directory's name and a name in it.
Find(path) ==
  LET first == FindIn(path[1], 0, Len(block)) IN
  IF Len(path) = 1 \/ first.found \in {"missing", "stuck"} THEN FoundData(first)
  ELSE FoundData(FindIn(path[2], first.lo, first.hi))

\* archive::load's search for one component: it reads a header before it
\* asks whether the directory ends there.
LoadIn(name, lo, ending) ==
  LET walk[at \in lo..(MaxBlock + Align)] ==
        IF ~IsHeader(at) THEN Missing
        ELSE IF HeaderAt(at).name = name THEN [found |-> HeaderAt(at).type, at |-> at]
        ELSE IF EndAt(at) >= ending THEN Missing
        ELSE IF EndAt(at) <= at THEN Stuck
        ELSE walk[EndAt(at)]
  IN  walk[lo]

LoadedData(entry) ==
  IF entry.found = "file"
  THEN [found |-> "file",
        data |-> Contents(BodyAt(entry.at), entry.at + HeaderAt(entry.at).size)]
  ELSE [found |-> entry.found]

Load(path) ==
  LET first == LoadIn(path[1], 0, Len(block)) IN
  IF Len(path) = 1 \/ first.found \in {"missing", "stuck"} THEN LoadedData(first)
  ELSE IF first.found = "directory"
  THEN LoadedData(LoadIn(path[2], AlignUp(BodyAt(first.at)),
                         first.at + HeaderAt(first.at).size))
  ELSE LoadedData(LoadIn(path[2], first.at, Len(block)))

-----------------------------------------------------------------------------
(* What must hold.                                                         *)

\* The first entry of that name: what a path stands for.
LookupIn(name, nodes) ==
  IF \A i \in 1..Len(nodes) : nodes[i].name # name THEN [type |-> "missing"]
  ELSE nodes[CHOOSE i \in 1..Len(nodes) :
               nodes[i].name = name /\ \A j \in 1..(i - 1) : nodes[j].name # name]

Lookup(path) ==
  LET first == LookupIn(path[1], kids[1]) IN
  IF Len(path) = 1 THEN first
  ELSE IF first.type = "directory" THEN LookupIn(path[2], first.kids)
  ELSE [type |-> IF first.type = "file" THEN "not a directory" ELSE "missing"]

Paths == {<<n>> : n \in Names} \cup {<<d, n>> : d \in Names, n \in Names}

\* Offsets are inside the block file, and the auxiliary tree follows the stack.
TypeOK ==
  /\ Len(block) \in 0..(MaxBlock + Align) /\ boffset \in 0..Len(block)
  /\ Len(stack) \in 0..MaxDepth /\ Len(kids) = Len(stack) + 1
  /\ offset \in 0..MaxBlock
  /\ \A i \in 1..Len(stack) :
       /\ stack[i].offset % Align = 0 /\ stack[i].offset < Len(block)
       /\ i < Len(stack) => stack[i].header.type = "directory"

\* With nothing open, find gives for every path what was written under it,
\* byte for byte: sizes, padding and nesting of all entries agree.
FindsWhatWasWritten ==
  ~IsOpen =>
    \A path \in Paths :
      LET node == Lookup(path) IN
      /\ node.type \in {"missing", "directory"} => Find(path) = [found |-> node.type]
      /\ node.type = "file" => Find(path) = [found |-> "file", data |-> node.data]

\* load, the reader that works on the block file itself, gives the same for
\* every file there is.
LoadsWhatWasWritten ==
  ~IsOpen =>
    \A path \in Paths :
      LET node == Lookup(path) IN
      node.type = "file" => Load(path) = [found |-> "file", data |-> node.data]

\* The file being written can be read back at any time between its header
\* and the end of the block file, which is where close takes its size from.
OpenFileIsLast == InFile => Contents(DataStart, Len(block)) = data

\* Opening an entry touches no byte there is, and nothing done to an open one
\* touches a byte in front of its own header (the header of a directory is
\* written again when it is closed).
EarlierBytesKept ==
  [][LET first == IF IsOpen /\ Len(stack) >= Len(stack') THEN Top.offset ELSE Len(block)
     IN  SubSeq(block', 1, first) = SubSeq(block, 1, first)]_vars
=============================================================================
