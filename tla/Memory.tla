------------------------------- MODULE Memory -------------------------------
(***************************************************************************)
(* netboot/memory.cpp: the C and C++ functions that the rest of the program*)
(* allocates with, on top of a block list.  The list is given the memory   *)
(* that the map of the BIOS names; after that every call of the list is    *)
(* made by one of these functions, which abort where the list answers      *)
(* nothing, so that no caller ever looks at the answer.                    *)
(*                                                                         *)
(* The program has two heaps of this kind, one in base memory, whose map is*)
(* one range, and one in extended memory, with ext_allocate for malloc and *)
(* ext_deallocate for free and without the other functions.                *)
(*                                                                         *)
(* A function that aborts says why in a line of the log; a number in it is *)
(* put together in a string of base memory, so that the program turns to   *)
(* the heap once more while it dies.                                       *)
(***************************************************************************)
EXTENDS BlockListRefinement, TextFormat

CONSTANTS
  Maps,          (* the memory maps: sequences of [data, size, type]       *)
  Scratch,       (* bytes that the digits of a number take (130)           *)
  PointerPlaces  (* the width that pointers are logged with (8)            *)

ASSUME MemoryAssumption ==
  /\ Maps \subseteq Seq([data : Nat, size : Nat, type : Nat])
  /\ Scratch \in Requests
  /\ PointerPlaces \in Nat

VARIABLES
  todo,     (* what is left of the memory map                              *)
  user,     (* the function in progress, its pointer and size              *)
  held,     (* auxiliary: the blocks callers have been given and not freed *)
  said      (* the line that is logged when the program aborts: its text,  *)
            (* the number in it, where it has got, the block of the digits *)

memVars == <<vars, todo, user, held, said>>

\* A realloc that the list has answered nothing, until it gives up or goes on
\* with a block of another kind.
Regrown == {"realloc_failed", "realloc_again"}

Functions == Regrown \cup {"none", "start", "astray", "resource", "malloc", "free",
                            "realloc_null", "realloc", "realloc_free"}

NoUser == [fn |-> "none", ptr |-> Null, size |-> 0]
Serving(fn, b, n) == user' = [fn |-> fn, ptr |-> b, size |-> n]

\* How far a line has got: it is begun, its digits ask for memory, have it, give
\* it back; and the program has halted, or it begins a line within the line, for
\* ever, because there is no memory for the digits, of this heap or the other.
TheEnd == {"halted", "endless", "elsewhere"}
Stages == {"nothing", "line", "digits", "put", "erase"} \cup TheEnd

Usable == 1
Line(text, value, stage, b) == [text |-> text, value |-> value, at |-> stage, block |-> b]
Quiet == Line(<<>>, Size(0), "nothing", Null)
Aborted == said.at # "nothing"
At(stage) == said' = [said EXCEPT !.at = stage]

\* A caller may come in: start-up is over and no other call is in progress.
Ready == todo = <<>> /\ pc = "idle" /\ user = NoUser /\ ~Aborted

Fatal(text, value, stage) == said' = Line(text, value, stage, Null)

\* The digits are always in base memory; of this heap's the other knows nothing.
OtherHeap == {"halted", "elsewhere"}

OutOfMemory(n) ==
  Fatal(<<"Out of base memory, unable to allocate ", LBrace, RBrace, " bytes">>, Size(n), "line")

\* ext_allocate
OutOfExtended(n) ==
  \E stage \in OtherHeap :
    Fatal(<<"Out of extended memory, unable to allocate ", LBrace, RBrace, " bytes">>, Size(n), stage)

AsPointer == <<"#", "0">> \o InBase(PointerPlaces, "d") \o <<"p">>
PointerOptions == Options(AsPointer)
CannotFree(b) ==
  \E stage \in OtherHeap \cup {"line"} :
    Fatal(<<"Unable to free memory block at ", LBrace, ":">> \o AsPointer \o <<RBrace>>,
          Pointing(b + Q), stage)

-----------------------------------------------------------------------------
(* Start-up: the ranges of the map that are usable memory, in its order.   *)

\* An entry has 64 bits for each; a pointer and a size have 32.
Extent(entry) == [data |-> entry.data % WordSize, size |-> entry.size % WordSize]

\* initialize_base_heap, and one turn of the loop of initialize_extended_heap.
\* What insert_range answers is ignored.
AddRange ==
  /\ todo # <<>> /\ pc = "idle"
  /\ Head(todo).type = Usable
  /\ Extent(Head(todo)) \in Ranges /\ Insert(Extent(Head(todo)))
  /\ todo' = Tail(todo)
  /\ UNCHANGED <<user, held, said>>

\* A range that the list is not made for is given to it all the same: one that
\* starts inside memory it has, or off the boundaries it keeps.  A header is
\* written there, and what becomes of the heap is not modelled.
RangeAstray ==
  /\ todo # <<>> /\ pc = "idle"
  /\ Head(todo).type = Usable
  /\ ~(Extent(Head(todo)) \in Ranges /\ RangeIsNew(Extent(Head(todo))))
  /\ todo' = <<>>
  /\ Serving("astray", Null, 0)
  /\ UNCHANGED <<vars, held, said>>

SkipRange ==
  /\ todo # <<>> /\ pc = "idle"
  /\ Head(todo).type # Usable
  /\ todo' = Tail(todo)
  /\ UNCHANGED <<vars, user, held, said>>

\* The BIOS refuses to go on, or answers an entry of another length.
MapFails ==
  /\ todo # <<>> /\ pc = "idle"
  /\ todo' = <<>>
  /\ UNCHANGED <<vars, user, held, said>>

\* Extended memory cannot be reached: nothing of the map is read.
NoAddressLine ==
  /\ todo \in Maps /\ pc = "idle" /\ listed = {} /\ user = NoUser
  /\ Fatal(<<"Failed to enable address line 20.">>, Size(0), "halted")
  /\ todo' = <<>>
  /\ Serving("start", Null, 0)
  /\ UNCHANGED <<vars, held>>

-----------------------------------------------------------------------------
(* The functions.                                                          *)

\* malloc, operator new and new[], ext_allocate and do_allocate.
Malloc(n) ==
  /\ Ready
  /\ Allocate(n)
  /\ Serving("malloc", Null, n)
  /\ UNCHANGED <<todo, held, said>>

\* free, operator delete and delete[], ext_deallocate and do_deallocate.
Free(b) ==
  /\ Ready
  /\ Deallocate(b)
  /\ Serving("free", b, 0)
  /\ held' = held \ {b}
  /\ UNCHANGED <<todo, said>>

FreeStale(b) ==
  /\ Ready
  /\ StalePointer(b)
  /\ CannotFree(b)
  /\ Serving("free", b, 0)
  /\ UNCHANGED <<todo, held>>

\* realloc of the null pointer answers what allocate does, nothing included.
ReallocNull(n) ==
  /\ Ready
  /\ Allocate(n)
  /\ Serving("realloc_null", Null, n)
  /\ UNCHANGED <<todo, held, said>>

Realloc(b, n) ==
  /\ Ready
  /\ \/ /\ ReallocateSame(b, n) \/ ReallocateShrink(b, n)
        /\ UNCHANGED user
     \/ /\ GrowsAlone(b) /\ ReallocateGrow(b, n)
        /\ Serving("realloc", b, n)
  /\ UNCHANGED <<todo, held, said>>

\* do_allocate and do_deallocate of both memory resources, asked for more than
\* blocks are aligned to.
Misaligned ==
  /\ Ready
  /\ Fatal(<<"unable to satisfy alignment of more then 16bytes">>, Size(0), "halted")
  /\ Serving("resource", Null, 0)
  /\ UNCHANGED <<vars, todo, held>>

\* The list knows no such block, and its null pointer is taken for a lack of
\* memory.
ReallocStale(b, n) ==
  /\ Ready
  /\ StalePointer(b)
  /\ Serving("realloc_failed", b, n)
  /\ UNCHANGED <<todo, held, said>>

\* A block is allocated for the data instead.
AllocateAgain ==
  /\ user.fn = "realloc_failed" /\ pc = "idle"
  /\ Allocate(user.size)
  /\ user' = [user EXCEPT !.fn = "realloc_again"]
  /\ UNCHANGED <<todo, held, said>>

\* The old block is freed; nobody looks whether the list knew it.
FreeOld ==
  /\ user.fn = "realloc_free" /\ pc = "idle"
  /\ \/ Deallocate(user.ptr) /\ user' = [user EXCEPT !.fn = "free"]
     \/ StalePointer(user.ptr) /\ user' = NoUser
  /\ UNCHANGED <<todo, held, said>>

-----------------------------------------------------------------------------
(* What a function does with the list's answer.                            *)

\* The caller of realloc is given its block back, unless it had none.
Given(b) == held' = IF user.ptr = Null \/ user.ptr \in held
                    THEN (held \ {user.ptr}) \cup {b} ELSE held

\* The list answers with block b.
Answer(b) ==
  /\ Given(b)
  /\ user' = IF user.fn = "realloc_again" THEN [user EXCEPT !.fn = "realloc_free"] ELSE NoUser

Wait == UNCHANGED <<user, held>>

Take ==
  /\ AllocTake /\ ~Aborted
  /\ IF call.op = "allocate" THEN Answer(curr) ELSE Wait
  /\ UNCHANGED <<todo, said>>

\* The program goes on as if nothing had been allocated.
Fail_Slip ==
  /\ AllocFail /\ ~Aborted
  /\ user' = NoUser
  /\ UNCHANGED <<todo, said, held>>

Fail ==
  /\ AllocFail /\ ~Aborted
  /\ \/ user.fn = "realloc_null" /\ user' = NoUser /\ UNCHANGED said
     \/ user.fn = "realloc" /\ user' = [user EXCEPT !.fn = "realloc_failed"] /\ UNCHANGED said
     \/ user.fn \in {"malloc", "realloc_again"} /\ UNCHANGED user /\ OutOfMemory(user.size)
     \/ user.fn = "malloc" /\ UNCHANGED user /\ OutOfExtended(user.size)
  /\ UNCHANGED <<todo, held>>

GrowInPlace ==
  /\ Recheck
  /\ IF pc' = "idle" THEN Answer(call.block) ELSE Wait
  /\ UNCHANGED <<todo, said>>

Move ==
  /\ Copy
  /\ Given(curr)
  /\ user' = IF pc' = "idle" THEN NoUser ELSE user
  /\ UNCHANGED <<todo, said>>

\* The loops that answer nothing, or when they are through that all is well.
Loop ==
  /\ \/ InsertScan \/ InsertOverlap \/ InsertLink
     \/ MergeAhead \/ MergeAheadDone \/ MergeBehind \/ MergeBehindDone
     \/ AllocNext \/ Probe \/ ProbeDone
  /\ user' = IF pc' = "idle" /\ ~Aborted THEN NoUser ELSE user
  /\ said' = [said EXCEPT !.at = IF pc' = "idle" /\ Aborted THEN "halted" ELSE @]
  /\ UNCHANGED <<todo, held>>

-----------------------------------------------------------------------------
(* The line that says why, and abort.                                      *)

\* put_numeric.  Of a size in several units every part does as the first.
AskForDigits ==
  /\ said.at = "line" /\ pc = "idle"
  /\ Allocate(Scratch)
  /\ At("digits")
  /\ UNCHANGED <<todo, user, held>>

TakeDigits ==
  /\ AllocTake /\ Aborted
  /\ said' = [said EXCEPT !.at = "put", !.block = curr]
  /\ UNCHANGED <<todo, user, held>>

\* operator new says that there is no base memory, in a line that asks for it
\* again, until there is no stack either.
NoDigits ==
  /\ AllocFail /\ Aborted
  /\ At("endless")
  /\ UNCHANGED <<todo, user, held>>

\* The digits of a pointer and the two characters of its prefix need more than the
\* width they are to be filled up to.
TooWide ==
  user.fn = "free" /\ Zeros(PointerOptions, Prefix("x"), InBase(said.value.is, "x")) < 0

\* The digits are put and their string is done with; or the zeros in front of
\* them are more than a string can hold, and __throw_length_error aborts.
PutDigits ==
  /\ said.at = "put" /\ pc = "idle"
  /\ \/ TooWide /\ At("halted") /\ UNCHANGED vars
     \/ ~TooWide /\ Deallocate(said.block) /\ At("erase")
  /\ UNCHANGED <<todo, user, held>>

Serve ==
  \/ AllocateAgain \/ FreeOld \/ Take \/ Fail \/ GrowInPlace \/ Move \/ Loop
  \/ AskForDigits \/ TakeDigits \/ NoDigits \/ PutDigits

Stopped == (said.at \in TheEnd \/ user.fn = "astray") /\ UNCHANGED memVars

MemInit ==
  /\ Init
  /\ todo \in Maps
  /\ user = NoUser /\ held = {} /\ said = Quiet

MemNext ==
  \/ AddRange \/ RangeAstray \/ SkipRange \/ MapFails \/ NoAddressLine
  \/ Misaligned
  \/ \E n \in Requests : Malloc(n) \/ ReallocNull(n)
  \/ \E b \in Addr : meta[b] # Invalid /\ (Free(b) \/ FreeStale(b))
  \/ \E b \in Addr, n \in Requests : Realloc(b, n)
  \/ \E b \in Addr, n \in Requests : meta[b] # Invalid /\ ReallocStale(b, n)
  \/ Serve
  \/ Stopped

MemSpec == MemInit /\ [][MemNext]_memVars

\* Nothing else runs while a function is in progress.
FairMemSpec == MemSpec /\ WF_memVars(Serve)

-----------------------------------------------------------------------------
(* What must hold.                                                         *)

\* What the functions' callers believe is true whenever one of them can act on
\* it: a block they were given is theirs until they give it back.  A realloc
\* whose list has already lost the block (block_list.cpp:332, and see
\* FailedGrowthKeepsBlock) never returns: the program stops.
NothingLostSilently == Ready => held \subseteq live

\* Why that is so.  What is left of the map is as the map was, and nobody is
\* served before the map is read.
MapInv ==
  /\ todo \in Seq([data : Nat, size : Nat, type : Nat])
  /\ todo # <<>> => user = NoUser

\* The list executes the call of the function in progress.
UserInv ==
  /\ user \in [fn : Functions, ptr : Link, size : Nat]
  /\ user.fn \in {"malloc", "realloc_null"} => user.ptr = Null
  /\ user.fn \in Regrown \cup {"realloc", "realloc_free"} => user.ptr \in Addr
  /\ user.fn \in Regrown \cup {"malloc", "realloc_null", "realloc"} => user.size \in Requests
  /\ call.op = "allocate" /\ ~Aborted =>
       /\ user.fn \in {"malloc", "realloc_null", "realloc_again"}
       /\ call.need = RoundUp(user.size)
  /\ call.op = "reallocate" => /\ user.fn = "realloc" /\ user.ptr = call.block
                               /\ call.need = RoundUp(user.size)
  /\ user.fn = "realloc_failed" => pc = "idle"
  /\ user.fn = "realloc_again" /\ ~Aborted =>
       pc = "idle" \/ (pc = "alloc_scan" /\ call.op = "allocate")

\* A program that aborts is still in the function that did it, and the list is
\* called for the digits of its line alone.
AbortInv ==
  /\ said = Line(said.text, said.value, said.at, said.block)
  /\ said.at \in Stages /\ said.block \in Link
  /\ Aborted => user.fn \in {"start", "resource", "malloc", "free", "realloc_again"}
  /\ said.at \in TheEnd \cup {"line", "put"} => pc = "idle"
  /\ said.at = "digits" => pc = "alloc_scan" /\ call.op = "allocate" /\ call.need = RoundUp(Scratch)
  /\ said.at = "put" => said.block \in Addr
  /\ said.at = "erase" => pc \in {"merge_ahead", "merge_behind"} /\ call.op = "deallocate"

\* A scan has passed no block that is large enough; a realloc that has lost its
\* caller's block has seen that there is none, so it does not find one when it
\* looks again, the caller's own block least of all.
ScanPassed == pc = "alloc_scan" => \A b \in listed : (curr = Null \/ b < curr) => ~Fits(b)

NoRoom == \A b \in listed : meta[b] # Allocated => size[b] < RoundUp(user.size)

HeldInv ==
  /\ held \subseteq Addr
  /\ ~Aborted =>
       /\ \A b \in held : b \in live \/ (b = user.ptr /\ user.fn \in Regrown)
       /\ user.fn \in Regrown /\ user.ptr \in held => NoRoom
       /\ user.fn = "realloc_free" => user.ptr \notin held

MemInv == IInv /\ MapInv /\ UserInv /\ AbortInv /\ ScanPassed /\ HeldInv

\* What is said last, before the machine must be restarted.
LengthError ==
  Log("fatal", "info", "all", "", <<"Length error (", LBrace, ":", "s", RBrace, ").">>,
      <<String(<<"basic_string::_M_replace_aux">>)>>)

LastLine ==
  IF Format(said.text, <<said.value>>).error = "length_error" THEN LengthError
  ELSE Log("fatal", "info", "all", "Memory", said.text, <<said.value>>)

\* The number read off digits and units.
Unit == [K |-> 1024, M |-> 1024 ^ 2, G |-> 1024 ^ 3]
InUnits(shown) ==
  LET put(n, c) == IF c \in Digit THEN [n EXCEPT !.part = 10 * @ + DigitValue(c)]
                   ELSE IF c \in DOMAIN Unit THEN [sum |-> n.sum + n.part * Unit[c], part |-> 0]
                   ELSE n
      all == FoldLeft(put, [sum |-> 0, part |-> 0], shown)
  IN  all.sum + all.part

\* Where it is the pointer, all of its places can be read; where it is a size,
\* all of that.
Says(line) ==
  IF user.fn = "free"
  THEN LET shown == SelectSeq(line, IsHex)
       IN  Len(shown) = PointerPlaces - 1 /\ ReadIn(16, shown) = user.ptr + Q
  ELSE InUnits(line) = user.size

\* A program that halts has said what it died of, but for a pointer of more places
\* than the line has, for which it says that of the line.  It does not get there
\* if base memory has no room for the digits of the number; and so it never tells
\* of a request for base memory that is no larger than they are.
AbortSaysWhy ==
  /\ said.at = "halted" /\ user.fn \notin {"resource", "start"} =>
       IF user.fn = "free" /\ user.ptr + Q >= 16 ^ (PointerPlaces - 2)
       THEN LastLine = LengthError ELSE Says(LastLine)
  /\ said.at = "endless" => \A b \in listed : meta[b] # Allocated => size[b] < RoundUp(Scratch)
  /\ said.at = "put" /\ user.fn # "free" => user.size > Scratch
=============================================================================
