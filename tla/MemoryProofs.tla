---------------------------- MODULE MemoryProofs ----------------------------
(***************************************************************************)
(* What the functions of memory.cpp do with the block list is what the list*)
(* was proved correct for, so that it stays correct under them; and no     *)
(* block is lost without the program stopping.                             *)
(*                                                                         *)
(* The inductive invariant is MemInv of Memory.  One lemma per group of    *)
(* actions shows that it is preserved.                                     *)
(***************************************************************************)
EXTENDS Memory, BlockListProofs

Entries == [data : Nat, size : Nat, type : Nat]

-----------------------------------------------------------------------------
(* Facts used in several steps.                                            *)

LEMMA UserFacts ==
  ASSUME MemInv
  PROVE  /\ IInv /\ MapInv /\ UserInv /\ AbortInv /\ ScanPassed /\ HeldInv
         /\ user.fn \in Functions
         /\ user = NoUser => user.fn = "none" /\ user.ptr = Null
  BY DEF MemInv, UserInv, NoUser

\* A line is begun, or it was of the other heap.
LEMMA LineBegins ==
  ASSUME NEW text, NEW value, NEW stage, Fatal(text, value, stage)
  PROVE  said' = Line(said'.text, said'.value, stage, Null) /\ said'.at = stage
  BY DEF Fatal, Line

LEMMA WhyBegins ==
  ASSUME NEW n, OutOfMemory(n) \/ OutOfExtended(n) \/ CannotFree(n)
  PROVE  \E stage \in {"line"} \cup OtherHeap :
           said' = Line(said'.text, said'.value, stage, Null) /\ said'.at = stage
<1>1. \E text, value : \E stage \in {"line"} \cup OtherHeap : Fatal(text, value, stage)
  BY Zenon DEF OutOfMemory, OutOfExtended, CannotFree
<1>2. QED
  BY <1>1, LineBegins

\* Who has not come to where a function aborts is alive.
LEMMA NotDying ==
  ASSUME MemInv, user.fn \notin {"start", "resource", "malloc", "free", "realloc_again"}
  PROVE  ~Aborted
  BY DEF MemInv, AbortInv

\* A function that calls the list comes in when nothing else is going on.
LEMMA ReadyFacts ==
  ASSUME MemInv, Ready
  PROVE  /\ pc = "idle" /\ user = NoUser /\ user.fn = "none" /\ todo = <<>>
         /\ held \subseteq live
         /\ call.op # "allocate" /\ call.op # "reallocate"
<1>1. pc = "idle" /\ user = NoUser /\ user.fn = "none" /\ todo = <<>>
  BY DEF Ready, NoUser
<1>2. held \subseteq live
  BY <1>1, NotDying DEF MemInv, HeldInv, Regrown
<1>3. QED
  BY <1>1, <1>2, IdleFacts DEF MemInv

\* What is given up of a sequence leaves its other elements where they were.
LEMMA RestOfMap ==
  ASSUME MapInv, todo # <<>>, todo' = Tail(todo), user' = user
  PROVE  MapInv'
<1>1. /\ todo' \in Seq(Entries)
      /\ \A i \in DOMAIN todo' : i + 1 \in DOMAIN todo /\ todo'[i] = todo[i + 1]
  BY DEF MapInv, Entries
<1>2. QED
  BY <1>1 DEF MapInv, Extent, Entries

\* Every scan begins at the head of the list.
LEMMA ScanBegins ==
  ASSUME IInv', curr' = head'
  PROVE  ScanPassed'
<1>1. ListIntegrity' /\ TypeOK'
  BY DEF IInv
<1>2. Ends' /\ listed' \subseteq Addr /\ Null \notin Addr
  BY <1>1, BlockListAssumption DEF ListIntegrity, TypeOK, Addr, Null
<1>3. \A b \in listed' : head' # Null /\ head' \in listed' /\ head' <= b
  BY <1>2 DEF Ends
<1>4. Addr \subseteq Int
  BY BlockListAssumption DEF Addr
<1>5. \A b \in listed' : ~(curr' = Null \/ b < curr')
  <2> SUFFICES ASSUME NEW b \in listed' PROVE ~(curr' = Null \/ b < curr')
    OBVIOUS
  <2>1. b \in Int /\ head' \in Int /\ head' # Null /\ head' <= b
    BY <1>2, <1>3, <1>4
  <2>2. QED
    BY <2>1
<1>6. QED
  BY <1>5 DEF ScanPassed

-----------------------------------------------------------------------------
(* Steps of the list.                                                      *)

\* Whatever the functions do, the list is asked for what it was made for, or not
\* at all, up to a range of the map that it is not made for (RangeAstray).
THEOREM UsesTheList == MemInv /\ [MemNext]_memVars => [Next]_vars
<1> SUFFICES ASSUME MemInv, [MemNext]_memVars PROVE [Next]_vars
  OBVIOUS
<1>1. CASE AddRange
  BY <1>1 DEF AddRange, Next
<1>2. CASE RangeAstray \/ SkipRange \/ MapFails \/ NoAddressLine \/ Misaligned \/ Stopped
  BY <1>2 DEF RangeAstray, SkipRange, MapFails, NoAddressLine, Misaligned, Stopped, memVars
<1>3. ASSUME NEW n \in Requests, Malloc(n) \/ ReallocNull(n) PROVE Next
  BY <1>3 DEF Malloc, ReallocNull, Next
<1>4. ASSUME NEW b \in Addr, Free(b) PROVE Next
  <2>1. meta[b] = Allocated /\ Deallocate(b)
    BY <1>4 DEF Free, Deallocate
  <2>2. QED
    BY <2>1 DEF Next, Allocated, Invalid
<1>5. ASSUME NEW b \in Addr, FreeStale(b) PROVE UNCHANGED vars
  BY <1>5 DEF FreeStale, StalePointer
<1>6. ASSUME NEW b \in Addr, NEW n \in Requests, Realloc(b, n) PROVE Next
  BY <1>6 DEF Realloc, Next
<1>7. ASSUME NEW b \in Addr, NEW n \in Requests, ReallocStale(b, n) PROVE UNCHANGED vars
  BY <1>7 DEF ReallocStale, StalePointer
<1>8. CASE AllocateAgain
  <2>1. user.size \in Requests /\ Allocate(user.size)
    BY <1>8 DEF AllocateAgain, MemInv, UserInv, Regrown
  <2>2. QED
    BY <2>1 DEF Next
<1>9. CASE FreeOld
  <2>1. CASE StalePointer(user.ptr)
    BY <2>1 DEF StalePointer
  <2>2. CASE Deallocate(user.ptr)
    <3>1. user.ptr \in Addr
      BY <1>9 DEF FreeOld, MemInv, UserInv
    <3>2. meta[user.ptr] # Invalid
      BY <2>2 DEF Deallocate, Allocated, Invalid
    <3>3. QED
      BY <2>2, <3>1, <3>2 DEF Next
  <2>3. QED
    BY <1>9, <2>1, <2>2 DEF FreeOld
<1>10. CASE Take \/ Fail \/ GrowInPlace \/ Move \/ Loop \/ TakeDigits \/ NoDigits
  <2>1. CallInProgress
    BY <1>10 DEF Take, Fail, GrowInPlace, Move, Loop, TakeDigits, NoDigits, CallInProgress
  <2>2. QED
    BY <2>1 DEF Next
<1>11. CASE AskForDigits
  <2>1. Scratch \in Requests /\ Allocate(Scratch)
    BY <1>11, MemoryAssumption DEF AskForDigits
  <2>2. QED
    BY <2>1 DEF Next
<1>12. CASE PutDigits
  <2>1. CASE UNCHANGED vars
    BY <2>1
  <2>2. CASE Deallocate(said.block)
    <3>1. said.block \in Addr
      BY <1>12 DEF PutDigits, MemInv, AbortInv
    <3>2. meta[said.block] # Invalid
      BY <2>2 DEF Deallocate, Allocated, Invalid
    <3>3. QED
      BY <2>2, <3>1, <3>2 DEF Next
  <2>3. QED
    BY <1>12, <2>1, <2>2 DEF PutDigits
<1>13. CASE UNCHANGED memVars
  BY <1>13 DEF memVars
<1>14. QED
  BY <1>1, <1>2, <1>3, <1>4, <1>5, <1>6, <1>7, <1>8, <1>9, <1>10, <1>11, <1>12, <1>13 DEF MemNext, Serve

-----------------------------------------------------------------------------
(* The start, and calls that the list has no part in.                      *)

Rest == MapInv /\ UserInv /\ ScanPassed /\ HeldInv

LEMMA MemInitInv == MemInit => MemInv
<1> SUFFICES ASSUME MemInit PROVE MemInv
  OBVIOUS
<1>1. IInv
  BY InitInv DEF MemInit
<1>2. MapInv
  <2>1. todo \in Seq(Entries)
    BY MemoryAssumption DEF MemInit, Entries
  <2>2. QED
    BY <2>1 DEF MemInit, MapInv, Entries
<1>3. UserInv /\ AbortInv /\ ScanPassed /\ HeldInv
  BY DEF MemInit, Init, NoUser, NoCall, UserInv, ScanPassed, HeldInv, Regrown, Functions, Link,
     AbortInv, Aborted, Quiet, Line, Stages, TheEnd
<1>4. QED
  BY <1>1, <1>2, <1>3 DEF MemInv

LEMMA AddRangeInv ==
  ASSUME MemInv, AddRange
  PROVE  Rest'
<1> DEFINE r == Extent(Head(todo))
<1>1. /\ user = NoUser /\ user' = user /\ held' = held /\ pc = "idle" /\ Insert(r)
      /\ call.op # "allocate" /\ call.op # "reallocate" /\ ~Aborted
  BY IdleFacts, NotDying DEF AddRange, MemInv, MapInv, NoUser
<1>2. /\ live' = live /\ pc' \in {"idle", "insert_scan"}
      /\ call'.op # "allocate" /\ call'.op # "reallocate"
  <2>1. CASE InsertNothing(r)
    BY <1>1, <2>1 DEF InsertNothing, vars, control, clients
  <2>2. CASE InsertFirst(r)
    BY <1>1, <2>2 DEF InsertFirst, control, clients
  <2>3. CASE InsertBegin(r)
    BY <1>1, <2>3 DEF InsertBegin, Enter, clients
  <2>4. QED
    BY <1>1, <2>1, <2>2, <2>3 DEF Insert
<1>3. MapInv'
  BY <1>1, RestOfMap DEF AddRange, MemInv
<1>4. UserInv' /\ ScanPassed' /\ HeldInv'
  BY <1>1, <1>2 DEF MemInv, UserInv, ScanPassed, HeldInv, NoUser, Regrown
<1>5. QED
  BY <1>3, <1>4 DEF Rest

\* The list is not called.
LEMMA AsideInv ==
  ASSUME MemInv, UNCHANGED <<vars, held>>,
         \/ UNCHANGED <<user, said>>
         \/ user = NoUser /\ pc = "idle"
              /\ user'.fn \in {"start", "astray", "resource", "free", "realloc_failed"}
              /\ user' \in [fn : Functions, ptr : Link, size : Nat]
              /\ (user'.fn = "realloc_failed" =>
                    user'.ptr \in Addr /\ user'.ptr \notin held /\ user'.size \in Requests),
         MapInv'
  PROVE  Rest'
<1>1. /\ UNCHANGED <<size, meta, next, prev>> /\ UNCHANGED <<head, tail, listed, pool>>
      /\ UNCHANGED <<live, span, asked>> /\ UNCHANGED <<pc, call, curr, ahead>> /\ held' = held
  BY DEF vars, headers, list, clients, control
<1>2. ScanPassed'
  BY <1>1 DEF MemInv, ScanPassed, Fits
<1>3. CASE UNCHANGED <<user, said>>
  BY <1>1, <1>2, <1>3 DEF MemInv, UserInv, HeldInv, NoRoom, Rest, Aborted
<1>4. CASE user = NoUser
  <2>1. (call.op # "allocate" /\ call.op # "reallocate" /\ ~Aborted) \/ UNCHANGED <<user, said>>
    BY <1>1, <1>4, IdleFacts, NotDying DEF MemInv, NoUser
  <2>2. UserInv' \/ UNCHANGED <<user, said>>
    BY <1>1, <1>4, <2>1 DEF UserInv, Regrown
  <2>3. HeldInv' \/ UNCHANGED <<user, said>>
    BY <1>1, <1>4, <2>1 DEF MemInv, HeldInv, Regrown, NoUser
  <2>4. QED
    BY <1>2, <1>3, <2>2, <2>3 DEF Rest
<1>5. QED
  BY <1>3, <1>4

-----------------------------------------------------------------------------
(* Functions that call the list.                                           *)

LEMMA AllocateCallInv ==
  ASSUME MemInv, IInv', NEW n \in Requests, Allocate(n), held' = held, todo' = <<>>, todo = <<>>, said' = said,
         \/ user = NoUser /\ user' \in {[fn |-> f, ptr |-> Null, size |-> n] : f \in {"malloc", "realloc_null"}}
         \/ user.fn = "realloc_failed" /\ n = user.size /\ user' = [user EXCEPT !.fn = "realloc_again"]
  PROVE  Rest'
<1>1. /\ UNCHANGED <<size, meta, listed, live, head>>
      /\ pc = "idle" /\ pc' = "alloc_scan" /\ curr' = head
      /\ call' = [op |-> "allocate", block |-> Null, need |-> RoundUp(n), asked |-> n]
  BY DEF Allocate, Enter, headers, list, clients
<1>2. ScanPassed'
  BY <1>1, ScanBegins
<1>3. n \in Nat /\ ~Aborted
  BY BlockListAssumption, NotDying DEF NoUser
<1>4. CASE user = NoUser
  <2>1. user' \in [fn : Functions, ptr : Link, size : Nat]
    BY <1>3, <1>4 DEF Functions, Regrown, Link, NoUser
  <2>2. MapInv' /\ UserInv'
    BY <1>1, <1>4, <2>1 DEF MemInv, MapInv, UserInv, NoUser, Regrown
  <2>3. HeldInv'
    BY <1>1, <1>3, <1>4 DEF MemInv, HeldInv, NoUser, Regrown
  <2>4. QED
    BY <1>2, <2>2, <2>3 DEF Rest
<1>5. CASE user.fn = "realloc_failed"
  <2>1. /\ user \in [fn : Functions, ptr : Link, size : Nat] /\ user.ptr \in Addr
        /\ user' = [user EXCEPT !.fn = "realloc_again"] /\ n = user.size
    BY <1>5 DEF MemInv, UserInv, NoUser, Regrown
  <2>2. user' \in [fn : Functions, ptr : Link, size : Nat]
    BY <2>1 DEF Functions, Regrown
  <2>3. user'.fn = "realloc_again" /\ user'.ptr = user.ptr /\ user'.size = user.size
    BY <2>1
  <2>4. MapInv' /\ UserInv'
    BY <1>1, <2>1, <2>2, <2>3 DEF MemInv, MapInv, UserInv, Regrown
  <2>5. HeldInv'
    BY <1>1, <1>3, <1>5, <2>1, <2>3 DEF MemInv, HeldInv, NoRoom, Regrown
  <2>6. QED
    BY <1>2, <2>4, <2>5 DEF Rest
<1>6. QED
  BY <1>4, <1>5

\* What is freed is nobody's any more.
LEMMA FreeInv ==
  ASSUME MemInv, NEW b \in Addr, Deallocate(b), todo' = todo, todo = <<>>,
         \/ user = NoUser /\ held' = held \ {b}
         \/ user.fn = "realloc_free" /\ b = user.ptr /\ held' = held,
         user'.fn = "free", user' \in [fn : Functions, ptr : Link, size : Nat]
  PROVE  Rest'
<1>1. /\ live' = live \ {b} /\ pc' = "merge_ahead" /\ call'.op = "deallocate"
  BY DEF Deallocate, Drop, Enter
<1>0. ~Aborted
  BY NotDying DEF NoUser
<1>2. b \notin held' /\ held' \subseteq held
  BY <1>0 DEF MemInv, HeldInv, NoUser
<1>3. held \subseteq live
  BY <1>0 DEF MemInv, HeldInv, NoUser, Regrown
<1>4. MapInv' /\ UserInv' /\ ScanPassed'
  BY <1>1 DEF MemInv, MapInv, UserInv, ScanPassed, Regrown
<1>5. HeldInv'
  BY <1>1, <1>2, <1>3 DEF MemInv, HeldInv, Regrown
<1>6. QED
  BY <1>4, <1>5 DEF Rest

LEMMA ReallocInv ==
  ASSUME MemInv, NEW b \in Addr, NEW n \in Requests, Realloc(b, n)
  PROVE  Rest'
<1>1. /\ user = NoUser /\ todo = <<>> /\ todo' = todo /\ held' = held /\ pc = "idle" /\ held \subseteq live
      /\ call.op # "allocate" /\ call.op # "reallocate" /\ user.fn = "none" /\ ~Aborted
  BY ReadyFacts DEF Realloc, Ready
<1>a. ~(RoundUp(n) > size[b] /\ (RoundUp(n) = size[b] \/ RoundUp(n) < size[b]))
  BY RoundUpFacts DEF MemInv, IInv, TypeOK
<1>2. CASE ReallocateSame(b, n) \/ ReallocateShrink(b, n)
  <2>1. user' = user /\ pc' = pc /\ call' = call /\ live' = live \cup {b}
    BY <1>1, <1>a, <1>2 DEF Realloc, ReallocateSame, ReallocateShrink, ReallocateGrow, Hold, control
  <2>2. MapInv' /\ UserInv' /\ ScanPassed'
    BY <1>1, <2>1 DEF MemInv, MapInv, UserInv, ScanPassed, Regrown
  <2>3. HeldInv'
    BY <1>1, <2>1 DEF MemInv, HeldInv, Regrown
  <2>4. QED
    BY <2>2, <2>3 DEF Rest
<1>3. CASE ReallocateGrow(b, n)
  <2>1. user' = [fn |-> "realloc", ptr |-> b, size |-> n]
    BY <1>a, <1>3 DEF Realloc, Serving, ReallocateGrow, ReallocateSame, ReallocateShrink
  <2>2. /\ live' = live /\ pc' = "probe"
        /\ call' = [op |-> "reallocate", block |-> b, need |-> RoundUp(n), asked |-> n]
    BY <1>3 DEF ReallocateGrow, Enter, clients
  <2>3. user' \in [fn : Functions, ptr : Link, size : Nat]
    BY <2>1, BlockListAssumption DEF Functions, Link
  <2>4. MapInv' /\ UserInv' /\ ScanPassed'
    BY <1>1, <2>1, <2>2, <2>3 DEF MemInv, MapInv, UserInv, ScanPassed, Regrown
  <2>5. HeldInv'
    BY <1>1, <2>1, <2>2 DEF MemInv, HeldInv, Regrown
  <2>6. QED
    BY <2>4, <2>5 DEF Rest
<1>4. QED
  BY <1>2, <1>3 DEF Realloc

-----------------------------------------------------------------------------
(* Steps of a call of the list.                                            *)

\* Whose call it is that takes a block of the list, or finds none.
LEMMA ScanningFor ==
  ASSUME MemInv, pc = "alloc_scan", ~Aborted
  PROVE  /\ todo = <<>>
         /\ call.op \in {"allocate", "reallocate"} /\ user.fn # "realloc_failed"
         /\ call.need = RoundUp(user.size)
         /\ call.op = "allocate" =>
              (user.fn \in {"malloc", "realloc_null"} /\ user.ptr = Null) \/ user.fn = "realloc_again"
         /\ call.op = "reallocate" => user.fn = "realloc" /\ user.ptr = call.block /\ user.ptr \in Addr
<1>1. call.op \in {"allocate", "reallocate"}
  BY InvFacts DEF ScanInv, MemInv
<1>2. user # NoUser
  BY <1>1 DEF MemInv, UserInv, NoUser
<1>3. QED
  BY <1>1, <1>2 DEF MemInv, MapInv, UserInv

LEMMA TakeInv ==
  ASSUME MemInv, Take
  PROVE  Rest'
<1>1. /\ pc = "alloc_scan" /\ curr \in Addr \cap listed /\ Fits(curr) /\ todo' = todo /\ ~Aborted
  BY InvFacts DEF Take, AllocTake, ScanInv, MemInv
<1>2. CASE call.op = "reallocate"
  <2>1. live' = live /\ call' = call /\ pc' = "copy" /\ user' = user /\ held' = held
    BY <1>2 DEF Take, AllocTake, Goto, clients, Wait
  <2>2. user.fn = "realloc"
    BY <1>1, <1>2, ScanningFor
  <2>3. QED
    BY <1>1, <2>1, <2>2 DEF MemInv, MapInv, UserInv, ScanPassed, HeldInv, Regrown, Rest
<1>3. CASE call.op = "allocate"
  <2>1. live' = live \cup {curr} /\ pc' = "idle" /\ call' = NoCall /\ Answer(curr)
    BY <1>3 DEF Take, AllocTake, Return, Hold
  <2>2. todo = <<>> /\ user.fn # "none"
    BY <1>1, <1>3, ScanningFor
  <2>3. ~(user.fn = "realloc_again" /\ user.ptr \in held)
    <3>1. meta[curr] # Allocated /\ size[curr] >= call.need /\ call.need = RoundUp(user.size)
      BY <1>1, ScanningFor DEF Fits
    <3>2. size[curr] \in Nat /\ call.need \in Nat
      BY <1>1 DEF MemInv, IInv, TypeOK
    <3>3. QED
      BY <1>1, <3>1, <3>2 DEF MemInv, HeldInv, NoRoom, Regrown
  <2>4. CASE user.fn \in {"malloc", "realloc_null"}
    <3>1. user' = NoUser /\ user.ptr = Null /\ held \subseteq live
      BY <1>1, <2>1, <2>4 DEF Answer, MemInv, UserInv, HeldInv, Regrown
    <3>2. held' \subseteq live' /\ held' \subseteq Addr
      BY <1>1, <2>1, <3>1 DEF Answer, Given, MemInv, HeldInv
    <3>3. UserInv' /\ MapInv'
      BY <1>1, <2>1, <2>2, <3>1 DEF UserInv, MapInv, NoUser, NoCall, Regrown, Functions, Link, MemInv
    <3>4. HeldInv' /\ ScanPassed'
      BY <2>1, <3>1, <3>2 DEF HeldInv, NoUser, Regrown, ScanPassed
    <3>5. QED
      BY <3>3, <3>4 DEF Rest
  <2>5. CASE user.fn = "realloc_again"
    <3>1. /\ user' = [user EXCEPT !.fn = "realloc_free"]
          /\ user \in [fn : Functions, ptr : Link, size : Nat] /\ user.ptr \in Addr
      BY <2>1, <2>5 DEF Answer, MemInv, UserInv, Regrown
    <3>2. user.ptr \notin held /\ held' = held /\ held \subseteq live
      BY <1>1, <2>1, <2>3, <2>5, <3>1, InvFacts DEF Answer, Given, MemInv, HeldInv
    <3>3. user'.fn = "realloc_free" /\ user'.ptr = user.ptr
          /\ user' \in [fn : Functions, ptr : Link, size : Nat]
      BY <3>1 DEF Functions
    <3>4. UserInv' /\ MapInv'
      BY <1>1, <2>1, <2>2, <3>1, <3>3 DEF UserInv, MapInv, NoCall, Regrown, MemInv
    <3>5. HeldInv' /\ ScanPassed'
      BY <2>1, <3>2, <3>3 DEF HeldInv, Regrown, ScanPassed, MemInv
    <3>6. QED
      BY <3>4, <3>5 DEF Rest
  <2>6. QED
    BY <1>1, <1>3, <2>4, <2>5, ScanningFor
<1>4. QED
  BY <1>1, <1>2, <1>3, ScanningFor

\* The scan is through, so that no block is large enough.
LEMMA FailInv ==
  ASSUME MemInv, Fail
  PROVE  Rest'
<1>1. /\ pc = "alloc_scan" /\ curr = Null /\ pc' = "idle" /\ call' = NoCall /\ todo' = todo /\ held' = held
      /\ ~Aborted
      /\ UNCHANGED <<size, meta, listed>>
      /\ live' = live \/ (call.op = "reallocate" /\ live' = live \ {call.block})
  BY DEF Fail, AllocFail, Return, headers, list, clients, Drop
<1>2. NoRoom
  <2>1. \A b \in listed : ~Fits(b)
    BY <1>1 DEF MemInv, ScanPassed
  <2>2. \A b \in listed : size[b] \in Nat /\ call.need \in Nat /\ call.need = RoundUp(user.size)
    BY <1>1, ScanningFor DEF MemInv, IInv, TypeOK
  <2>3. QED
    BY <2>1, <2>2 DEF Fits, NoRoom
<1>3. user \in [fn : Functions, ptr : Link, size : Nat] /\ todo = <<>>
  BY <1>1, ScanningFor DEF MemInv, UserInv
<1>4. ScanPassed' /\ call'.op = "none"
  BY <1>1 DEF ScanPassed, NoCall
<1>5. CASE user' = user /\ user.fn \in {"malloc", "realloc_again"}
  <2>1. live' = live
    BY <1>1, <1>5, ScanningFor
  <2>2. UserInv' /\ MapInv'
    BY <1>1, <1>3, <1>4, <1>5 DEF UserInv, MapInv, MemInv, Regrown
  <2>3. HeldInv'
    BY <1>1, <1>5, <2>1 DEF MemInv, HeldInv, NoRoom
  <2>4. QED
    BY <1>4, <2>2, <2>3 DEF Rest
<1>6. CASE user' = NoUser /\ user.fn = "realloc_null"
  <2>1. live' = live
    BY <1>1, <1>6, ScanningFor
  <2>2. UserInv' /\ MapInv'
    BY <1>1, <1>3, <1>4, <1>6 DEF UserInv, MapInv, MemInv, Regrown, NoUser, Functions, Link
  <2>3. HeldInv'
    BY <1>1, <1>6, <2>1 DEF MemInv, HeldInv, Regrown, NoUser
  <2>4. QED
    BY <1>4, <2>2, <2>3 DEF Rest
<1>7. CASE user' = [user EXCEPT !.fn = "realloc_failed"] /\ user.fn = "realloc"
  <2>1. /\ user'.fn = "realloc_failed" /\ user'.ptr = user.ptr /\ user'.size = user.size
        /\ user' \in [fn : Functions, ptr : Link, size : Nat]
    BY <1>3, <1>7 DEF Functions, Regrown
  <2>2. UserInv' /\ MapInv'
    BY <1>1, <1>3, <1>4, <1>7, <2>1 DEF UserInv, MapInv, MemInv, Regrown
  <2>3. call.op = "reallocate" /\ user.ptr = call.block
    BY <1>1, <1>7, ScanningFor
  <2>4. HeldInv'
    BY <1>1, <1>2, <1>7, <2>1, <2>3 DEF MemInv, HeldInv, Regrown, NoRoom
  <2>5. QED
    BY <1>4, <2>2, <2>4 DEF Rest
<1>8. QED
  BY <1>5, <1>6, <1>7 DEF Fail

\* A block that grows where it is, or moves.
LEMMA GrownInv ==
  ASSUME MemInv, IInv', GrowInPlace \/ Move
  PROVE  Rest'
<1>1. /\ call.op = "reallocate" /\ call.block \in live /\ live \subseteq Addr
      /\ pc \in {"recheck", "copy"} /\ pc # "idle"
  BY InvFacts DEF GrowInPlace, Move, Recheck, Copy, GrowInv, MemInv
<1>2. /\ user.fn = "realloc" /\ user.ptr = call.block /\ user # NoUser /\ todo = <<>> /\ todo' = todo
      /\ held \subseteq live /\ ~Aborted /\ said' = said
  BY <1>1, NotDying DEF MemInv, UserInv, MapInv, HeldInv, Regrown, NoUser, GrowInPlace, Move
<1>3. CASE GrowInPlace /\ pc' = "alloc_scan"
  <2>1. /\ user' = user /\ held' = held /\ live' = live /\ call' = call /\ curr' = head /\ head' = head
    BY <1>3 DEF GrowInPlace, Recheck, Return, Goto, clients, Wait
  <2>2. ScanPassed'
    BY <2>1, ScanBegins
  <2>3. QED
    BY <1>2, <1>3, <2>1, <2>2 DEF MemInv, MapInv, UserInv, HeldInv, Regrown, Rest
<1>4. CASE GrowInPlace /\ pc' = "idle"
  <2>1. /\ user' = NoUser /\ Given(call.block) /\ live' = live \cup {call.block} /\ call' = NoCall
    BY <1>2, <1>4 DEF GrowInPlace, Recheck, Return, Goto, Hold, Answer
  <2>2. held' \subseteq live' /\ held' \subseteq Addr
    BY <1>1, <1>2, <2>1 DEF Given
  <2>3. QED
    BY <1>2, <1>4, <2>1, <2>2
       DEF MemInv, MapInv, UserInv, ScanPassed, HeldInv, Regrown, Rest, NoUser, NoCall, Functions, Link
<1>5. CASE Move
  <2>1. /\ live' = (live \ {call.block}) \cup {curr} /\ Given(curr) /\ curr \in Addr
        /\ pc' \in {"idle", "merge_ahead"} /\ call'.op \notin {"allocate", "reallocate"}
        /\ user' = IF pc' = "idle" THEN NoUser ELSE user
    BY <1>5, InvFacts DEF Move, Copy, Enter, Return, NoCall, GrowInv, MemInv
  <2>2. held' \subseteq live' /\ held' \subseteq Addr
    BY <1>1, <1>2, <2>1, InvFacts DEF Given, MemInv
  <2>3. QED
    BY <1>2, <2>1, <2>2
       DEF MemInv, MapInv, UserInv, ScanPassed, HeldInv, Regrown, Rest, NoUser, Functions, Link
<1>6. QED
  BY <1>3, <1>4, <1>5 DEF GrowInPlace, Recheck, Return, Goto

\* The loops give nobody anything and take nothing away.
LEMMA LoopEffects ==
  ASSUME Loop
  PROVE  /\ pc # "idle" /\ UNCHANGED <<live, todo, held>>
         /\ user' = IF pc' = "idle" /\ ~Aborted THEN NoUser ELSE user
         /\ said' = [said EXCEPT !.at = IF pc' = "idle" /\ Aborted THEN "halted" ELSE @]
         /\ call' = call \/ (pc' = "idle" /\ call' = NoCall)
         /\ pc = "alloc_scan" => AllocNext
         /\ pc' = "alloc_scan" => AllocNext \/ (curr' = head /\ head' = head)
<1>1. /\ user' = (IF pc' = "idle" /\ ~Aborted THEN NoUser ELSE user) /\ UNCHANGED <<todo, held>>
      /\ said' = [said EXCEPT !.at = IF pc' = "idle" /\ Aborted THEN "halted" ELSE @]
  BY DEF Loop
<1>2. CASE InsertScan \/ InsertOverlap \/ InsertLink
  BY <1>1, <1>2 DEF InsertScan, InsertOverlap, InsertLink, Goto, Return, clients
<1>3. CASE MergeAhead \/ MergeAheadDone \/ MergeBehind \/ MergeBehindDone
  BY <1>1, <1>3 DEF MergeAhead, MergeAheadDone, MergeBehind, MergeBehindDone, Goto, Return, clients, control
<1>4. CASE AllocNext \/ Probe \/ ProbeDone
  BY <1>1, <1>4 DEF AllocNext, Probe, ProbeDone, Goto, clients, list
<1>5. QED
  BY <1>2, <1>3, <1>4 DEF Loop

LEMMA NextOfScan ==
  ASSUME MemInv, AllocNext
  PROVE  ScanPassed'
<1>1. /\ curr \in listed /\ ~Fits(curr) /\ curr' = next[curr] /\ pc = "alloc_scan"
      /\ UNCHANGED <<size, meta, listed, call>>
  BY InvFacts DEF AllocNext, Goto, headers, list, ScanInv, MemInv
<1>2. IsNext(listed, curr, next[curr]) /\ listed \subseteq Nat /\ (curr' # Null => curr' \in Nat)
  BY <1>1, ListFacts DEF MemInv, IInv
<1>3. ASSUME NEW b \in listed, curr' = Null \/ b < curr' PROVE b = curr \/ b < curr
  BY <1>1, <1>2, <1>3 DEF IsNext
<1>4. \A b \in listed : (curr' = Null \/ b < curr') => ~Fits(b)
  BY <1>1, <1>3 DEF MemInv, ScanPassed
<1>5. QED
  BY <1>1, <1>4 DEF ScanPassed, Fits

LEMMA LoopInv ==
  ASSUME MemInv, IInv', Loop, ~Aborted
  PROVE  Rest'
<1>0. said.at = "nothing" /\ said' = [said EXCEPT !.at = "nothing"]
  BY LoopEffects DEF Aborted
<1>1. ScanPassed'
  BY LoopEffects, NextOfScan, ScanBegins DEF ScanPassed
<1>2. MapInv'
  BY LoopEffects DEF MemInv, MapInv
<1>3. user.fn = "realloc_again" => AllocNext
  BY LoopEffects DEF MemInv, UserInv
<1>4. user.fn = "realloc_again" => pc' = "alloc_scan" /\ call' = call /\ call.op = "allocate"
                                  /\ UNCHANGED <<size, meta, listed>>
  BY <1>3, LoopEffects DEF AllocNext, Goto, headers, list, MemInv, UserInv
<1>5. user.fn # "realloc_failed"
  BY LoopEffects DEF MemInv, UserInv
<1>6. CASE pc' = "idle"
  <2>1. user' = NoUser /\ user.fn # "realloc_again"
    BY <1>4, <1>6, LoopEffects
  <2>2. call'.op \notin {"allocate", "reallocate"}
    BY <1>6, IInv', IdleFacts DEF IInv, CallInv, ScanInv
  <2>3. UserInv'
    BY <2>1, <2>2 DEF UserInv, NoUser, Regrown, Functions, Link
  <2>4. HeldInv'
    BY <1>5, <2>1, LoopEffects DEF MemInv, HeldInv, Regrown, NoUser
  <2>5. QED
    BY <1>1, <1>2, <2>3, <2>4 DEF Rest
<1>7. CASE pc' # "idle"
  <2>1. user' = user /\ call' = call
    BY <1>7, LoopEffects
  <2>2. UserInv'
    BY <1>4, <1>5, <2>1 DEF MemInv, UserInv
  <2>3. HeldInv'
    BY <1>4, <1>5, <2>1, LoopEffects DEF MemInv, HeldInv, Regrown, NoRoom
  <2>4. QED
    BY <1>1, <1>2, <2>2, <2>3 DEF Rest
<1>8. QED
  BY <1>6, <1>7

-----------------------------------------------------------------------------
(* The line of a program that aborts.                                      *)

\* The function has nothing to do with what the list does now.
LEMMA DyingInv ==
  ASSUME MemInv, IInv', Aborted, AskForDigits \/ TakeDigits \/ NoDigits \/ PutDigits \/ Loop
  PROVE  Rest'
<1>1. /\ user.fn \in {"start", "resource", "malloc", "free", "realloc_again"}
      /\ user # NoUser /\ todo = <<>> /\ call.op # "reallocate"
  BY DEF MemInv, AbortInv, MapInv, UserInv, NoUser
<1>2. user' = user /\ held' = held /\ todo' = todo /\ Aborted'
  <2>1. CASE AskForDigits \/ TakeDigits \/ NoDigits \/ PutDigits
    BY <2>1 DEF AskForDigits, TakeDigits, NoDigits, PutDigits, At, Aborted, Line, MemInv, AbortInv
  <2>2. CASE Loop
    <3>1. /\ user' = user /\ held' = held /\ todo' = todo
          /\ said' = [said EXCEPT !.at = IF pc' = "idle" THEN "halted" ELSE @]
      BY <2>2, LoopEffects
    <3>2. QED
      BY <3>1 DEF Aborted, Line, MemInv, AbortInv
  <2>3. QED
    BY <2>1, <2>2
<1>3. call'.op # "reallocate" /\ ScanPassed'
  <2>1. CASE AskForDigits
    <3>1. curr' = head' /\ call'.op = "allocate"
      BY <2>1 DEF AskForDigits, Allocate, Enter, list
    <3>2. QED
      BY <3>1, ScanBegins
  <2>2. CASE TakeDigits \/ NoDigits
    <3>1. pc' = "idle" /\ call' = NoCall
      BY <1>1, <2>2, InvFacts DEF TakeDigits, NoDigits, AllocTake, AllocFail, Return, ScanInv, MemInv
    <3>2. QED
      BY <3>1 DEF ScanPassed, NoCall
  <2>3. CASE PutDigits
    <3>1. CASE UNCHANGED vars
      <4>1. pc' = "idle" /\ call' = call
        BY <2>3, <3>1 DEF PutDigits, vars, control
      <4>2. QED
        BY <1>1, <4>1 DEF ScanPassed
    <3>2. CASE Deallocate(said.block)
      <4>1. pc' = "merge_ahead" /\ call'.op = "deallocate"
        BY <3>2 DEF Deallocate, Enter
      <4>2. QED
        BY <4>1 DEF ScanPassed
    <3>3. QED
      BY <2>3, <3>1, <3>2 DEF PutDigits
  <2>4. CASE Loop
    <3>1. call' = call \/ call' = NoCall
      BY <2>4, LoopEffects
    <3>2. ScanPassed'
      BY <2>4, LoopEffects, NextOfScan, ScanBegins DEF ScanPassed
    <3>3. QED
      BY <1>1, <3>1, <3>2 DEF NoCall
  <2>5. QED
    BY <2>1, <2>2, <2>3, <2>4
<1>4. MapInv' /\ UserInv' /\ HeldInv'
  BY <1>1, <1>2, <1>3 DEF MemInv, MapInv, UserInv, HeldInv, Regrown
<1>5. QED
  BY <1>3, <1>4 DEF Rest

\* Where a line has got is where the list is with its digits.
LEMMA AbortStepInv ==
  ASSUME MemInv, IInv', Rest', [MemNext]_memVars
  PROVE  AbortInv'
<1> USE DEF Stages, TheEnd, OtherHeap, Line
<1>1. CASE AskForDigits
  BY <1>1 DEF AskForDigits, Allocate, Enter, At, Aborted, MemInv, AbortInv
<1>2. CASE TakeDigits
  <2>1. /\ curr \in Addr /\ pc' = "idle"
        /\ said' = [said EXCEPT !.at = "put", !.block = curr] /\ user' = user
    BY <1>2, InvFacts DEF TakeDigits, AllocTake, Return, ScanInv, MemInv, AbortInv, UserInv
  <2>2. QED
    BY <1>2, <2>1 DEF TakeDigits, Aborted, MemInv, AbortInv, Link, Line
<1>3. CASE NoDigits
  BY <1>3 DEF NoDigits, AllocFail, Return, At, Aborted, MemInv, AbortInv
<1>4. CASE PutDigits
  <2>1. CASE UNCHANGED vars /\ At("halted")
    BY <1>4, <2>1 DEF PutDigits, At, Aborted, MemInv, AbortInv, vars, control
  <2>2. CASE Deallocate(said.block) /\ At("erase")
    BY <1>4, <2>2 DEF PutDigits, Deallocate, Enter, At, Aborted, MemInv, AbortInv
  <2>3. QED
    BY <1>4, <2>1, <2>2 DEF PutDigits
<1>5. CASE Loop
  <2>1. CASE Aborted /\ pc' = "idle"
    <3>1. said' = Line(said.text, said.value, "halted", said.block) /\ user' = user
      BY <1>5, <2>1, LoopEffects DEF MemInv, AbortInv
    <3>2. QED
      BY <2>1, <3>1 DEF MemInv, AbortInv, Aborted
  <2>2. CASE Aborted /\ pc' # "idle"
    <3>1. said' = Line(said.text, said.value, said.at, said.block) /\ user' = user /\ call' = call
      BY <1>5, <2>2, LoopEffects DEF MemInv, AbortInv
    <3>2. pc # "idle" /\ said.at \in {"digits", "erase"}
      BY <1>5, <2>2, LoopEffects DEF MemInv, AbortInv, Aborted
    <3>3. CASE said.at = "digits"
      <4>1. pc = "alloc_scan"
        BY <3>3 DEF MemInv, AbortInv
      <4>2. pc' = "alloc_scan"
        BY <1>5, <4>1, LoopEffects DEF AllocNext, Goto
      <4>3. QED
        BY <3>1, <3>3, <4>2 DEF MemInv, AbortInv, Aborted
    <3>4. CASE said.at = "erase"
      <4>1. pc \in {"merge_ahead", "merge_behind"} /\ call.op = "deallocate"
        BY <3>4 DEF MemInv, AbortInv
      <4>2. pc' \in {"merge_ahead", "merge_behind"}
        BY <1>5, <2>2, <4>1 DEF Loop, InsertScan, InsertOverlap, InsertLink, MergeAhead, MergeAheadDone,
           MergeBehind, MergeBehindDone, AllocNext, Probe, ProbeDone, Goto, Return, control
      <4>3. QED
        BY <3>1, <3>4, <4>1, <4>2 DEF MemInv, AbortInv, Aborted
    <3>5. QED
      BY <3>2, <3>3, <3>4
  <2>3. CASE ~Aborted
    BY <1>5, <2>3, LoopEffects DEF MemInv, AbortInv, Aborted
  <2>4. QED
    BY <2>1, <2>2, <2>3
<1>6. CASE Fail
  <2>1. pc' = "idle" /\ ~Aborted
    BY <1>6 DEF Fail, AllocFail, Return
  <2>2. \/ said' = said
        \/ user' = user /\ user.fn \in {"malloc", "realloc_again"}
             /\ \E stage \in {"line", "halted", "elsewhere"} :
                  said' = Line(said'.text, said'.value, stage, Null)
    BY <1>6, WhyBegins DEF Fail
  <2>3. QED
    BY <2>1, <2>2 DEF MemInv, AbortInv, Aborted, Link
<1>7. CASE NoAddressLine \/ Misaligned \/ \E b \in Addr : FreeStale(b)
  <2>1. /\ pc' = pc /\ pc = "idle" /\ user'.fn \in {"start", "resource", "free"}
        /\ \E stage \in {"line", "halted", "elsewhere"} :
             said' = Line(said'.text, said'.value, stage, Null)
    <3>1. CASE NoAddressLine
      BY <3>1 DEF NoAddressLine, Fatal, Serving, vars, control
    <3>2. CASE Misaligned
      BY <3>2 DEF Misaligned, Ready, Fatal, Serving, vars, control
    <3>3. CASE \E b \in Addr : FreeStale(b)
      <4> PICK b \in Addr : FreeStale(b)
        BY <3>3
      <4>1. QED
        BY WhyBegins DEF FreeStale, StalePointer, Ready, Serving, vars, control
    <3>4. QED
      BY <1>7, <3>1, <3>2, <3>3
  <2>2. QED
    BY <2>1 DEF AbortInv, Link
<1>8. CASE /\ said' = said
           /\ ~Aborted \/ (UNCHANGED vars /\ UNCHANGED user)
  <2>1. CASE ~Aborted
    BY <1>8, <2>1 DEF MemInv, AbortInv, Aborted
  <2>2. CASE UNCHANGED vars /\ UNCHANGED user
    BY <1>8, <2>2 DEF MemInv, AbortInv, Aborted, vars, control
  <2>3. QED
    BY <1>8, <2>1, <2>2
<1>9. CASE AddRange \/ RangeAstray \/ SkipRange \/ MapFails
  <2>1. CASE todo # <<>>
    <3>1. ~Aborted
      BY <2>1, NotDying DEF MemInv, MapInv, NoUser
    <3>2. QED
      BY <1>8, <1>9, <3>1 DEF AddRange, RangeAstray, SkipRange, MapFails
  <2>2. QED
    BY <1>9, <2>1 DEF AddRange, RangeAstray, SkipRange, MapFails
<1>10. CASE \/ \E n \in Requests : Malloc(n) \/ ReallocNull(n)
            \/ \E b \in Addr : Free(b)
            \/ \E b \in Addr, n \in Requests : Realloc(b, n) \/ ReallocStale(b, n)
  BY <1>8, <1>10 DEF Malloc, ReallocNull, Free, Realloc, ReallocStale, Ready
<1>11. CASE AllocateAgain \/ FreeOld \/ Take \/ GrowInPlace \/ Move
  <2>1. said' = said
    BY <1>11 DEF AllocateAgain, FreeOld, Take, GrowInPlace, Move
  <2>2. ~Aborted
    <3>1. CASE AllocateAgain \/ FreeOld
      BY <3>1, NotDying DEF AllocateAgain, FreeOld
    <3>2. CASE Take
      BY <3>2 DEF Take
    <3>3. CASE GrowInPlace \/ Move
      <4>1. pc \in {"recheck", "copy"}
        BY <3>3 DEF GrowInPlace, Move, Recheck, Copy
      <4>2. QED
        BY <4>1 DEF MemInv, AbortInv, Aborted, Stages, TheEnd
    <3>4. QED
      BY <1>11, <3>1, <3>2, <3>3
  <2>3. QED
    BY <1>8, <2>1, <2>2
<1>12. CASE Stopped \/ UNCHANGED memVars
  BY <1>8, <1>12 DEF Stopped, memVars
<1>13. QED
  BY <1>1, <1>2, <1>3, <1>4, <1>5, <1>6, <1>7, <1>9, <1>10, <1>11, <1>12 DEF MemNext, Serve

-----------------------------------------------------------------------------
(* What follows.                                                           *)

\* No function, at any of its steps, breaks the inductive invariant.
THEOREM MemStepInv == MemInv /\ [MemNext]_memVars => MemInv'
<1> SUFFICES ASSUME MemInv, [MemNext]_memVars PROVE MemInv'
  OBVIOUS
<1>1. IInv'
  BY UsesTheList, StepInv DEF MemInv
<1>2. ASSUME AddRange PROVE Rest'
  BY <1>2, AddRangeInv
<1>3. ASSUME SkipRange PROVE Rest'
  <2>1. UNCHANGED <<vars, user, held, said>> /\ MapInv'
    BY <1>3, RestOfMap DEF SkipRange, MemInv
  <2>2. QED
    BY <2>1, AsideInv
<1>4. ASSUME MapFails \/ Stopped \/ UNCHANGED memVars PROVE Rest'
  <2>1. UNCHANGED <<vars, user, held, said>> /\ MapInv'
    <3>1. /\ UNCHANGED <<vars, user, held, said>>
          /\ todo' = <<>> \/ todo' = todo
      BY <1>4 DEF MapFails, Stopped, memVars
    <3>2. CASE todo' = <<>>
      BY <3>1, <3>2 DEF MapInv
    <3>3. CASE todo' = todo
      BY <3>1, <3>3 DEF MapInv, MemInv
    <3>4. QED
      BY <3>1, <3>2, <3>3
  <2>2. QED
    BY <2>1, AsideInv
<1>5. ASSUME NoAddressLine \/ RangeAstray \/ Misaligned PROVE Rest'
  <2>1. /\ UNCHANGED <<vars, held>> /\ pc = "idle" /\ todo' = <<>> /\ user = NoUser
        /\ user' \in {[fn |-> f, ptr |-> Null, size |-> 0] : f \in {"start", "astray", "resource"}}
    <3>1. CASE NoAddressLine \/ RangeAstray
      BY <3>1 DEF NoAddressLine, RangeAstray, Serving, MemInv, MapInv
    <3>2. CASE Misaligned
      BY <3>2 DEF Misaligned, Ready, Serving
    <3>3. QED
      BY <1>5, <3>1, <3>2
  <2>2. user'.fn \in {"start", "astray", "resource"} /\ user' \in [fn : Functions, ptr : Link, size : Nat] /\ MapInv'
    BY <2>1 DEF Functions, Link, MapInv
  <2>3. QED
    BY <2>1, <2>2, AsideInv
<1>6. ASSUME NEW n \in Requests, Malloc(n) \/ ReallocNull(n) PROVE Rest'
  <2>1. /\ todo = <<>> /\ todo' = <<>> /\ held' = held /\ Allocate(n) /\ user = NoUser /\ said' = said
        /\ user' \in {[fn |-> f, ptr |-> Null, size |-> n] : f \in {"malloc", "realloc_null"}}
    BY <1>6 DEF Malloc, ReallocNull, Ready, Serving
  <2>2. QED
    BY <1>1, <2>1, AllocateCallInv
<1>7. ASSUME NEW b \in Addr, Free(b) PROVE Rest'
  <2>1. /\ todo = <<>> /\ todo' = todo /\ held' = held \ {b} /\ Deallocate(b) /\ user = NoUser
        /\ user' = [fn |-> "free", ptr |-> b, size |-> 0]
    BY <1>7 DEF Free, Ready, Serving
  <2>2. user'.fn = "free" /\ user' \in [fn : Functions, ptr : Link, size : Nat]
    BY <2>1 DEF Functions, Link
  <2>3. QED
    BY <2>1, <2>2, FreeInv
<1>8. ASSUME NEW b \in Addr, FreeStale(b) PROVE Rest'
  <2>1. /\ UNCHANGED <<vars, todo, held>> /\ user = NoUser /\ pc = "idle" /\ todo = <<>>
        /\ user' = [fn |-> "free", ptr |-> b, size |-> 0]
    BY <1>8 DEF FreeStale, StalePointer, Ready, Serving
  <2>2. user'.fn = "free" /\ user' \in [fn : Functions, ptr : Link, size : Nat] /\ MapInv'
    BY <2>1 DEF Functions, Link, MapInv
  <2>3. QED
    BY <2>1, <2>2, AsideInv
<1>9. ASSUME NEW b \in Addr, NEW n \in Requests, Realloc(b, n) PROVE Rest'
  BY <1>9, ReallocInv
<1>10. ASSUME NEW b \in Addr, NEW n \in Requests, ReallocStale(b, n) PROVE Rest'
  <2>1. /\ UNCHANGED <<vars, todo, held>> /\ user = NoUser /\ pc = "idle" /\ todo = <<>>
        /\ user' = [fn |-> "realloc_failed", ptr |-> b, size |-> n] /\ held \subseteq live
        /\ meta[b] # Allocated
    BY <1>10, ReadyFacts DEF ReallocStale, StalePointer, Serving
  <2>2. b \notin held
    BY <2>1, IdleFacts DEF MemInv
  <2>3. /\ user'.fn = "realloc_failed" /\ user'.ptr = b /\ user'.size = n
        /\ user' \in [fn : Functions, ptr : Link, size : Nat] /\ MapInv'
    BY <2>1, BlockListAssumption DEF Functions, Regrown, Link, MapInv
  <2>4. QED
    BY <2>1, <2>2, <2>3, AsideInv
<1>11. ASSUME AllocateAgain PROVE Rest'
  <2>1. /\ user.fn = "realloc_failed" /\ user.size \in Requests /\ todo = <<>> /\ todo' = <<>>
        /\ held' = held /\ Allocate(user.size) /\ user' = [user EXCEPT !.fn = "realloc_again"]
        /\ said' = said
    BY <1>11 DEF AllocateAgain, MemInv, UserInv, MapInv, NoUser, Regrown
  <2>2. QED
    BY <1>1, <2>1, AllocateCallInv
<1>12. ASSUME FreeOld PROVE Rest'
  <2>1. /\ user.fn = "realloc_free" /\ user.ptr \in Addr /\ todo = <<>> /\ todo' = todo /\ held' = held
        /\ user \in [fn : Functions, ptr : Link, size : Nat] /\ pc = "idle"
    BY <1>12 DEF FreeOld, MemInv, UserInv, MapInv, NoUser
  <2>2. CASE Deallocate(user.ptr) /\ user' = [user EXCEPT !.fn = "free"]
    <3>1. user'.fn = "free" /\ user' \in [fn : Functions, ptr : Link, size : Nat]
      BY <2>1, <2>2 DEF Functions
    <3>2. QED
      BY <2>1, <2>2, <3>1, FreeInv
  <2>3. CASE StalePointer(user.ptr) /\ user' = NoUser
    <3>1. UNCHANGED <<size, meta, next, prev, head, tail, listed, pool, live, span, asked, pc, call, curr, ahead>>
      BY <2>3 DEF StalePointer, vars, headers, list, clients, control
    <3>2. MapInv' /\ UserInv' /\ ScanPassed' /\ HeldInv'
      BY <2>1, <2>3, <3>1, IdleFacts, NotDying
         DEF MemInv, MapInv, UserInv, ScanPassed, HeldInv, NoUser, Regrown, Functions, Link
    <3>3. QED
      BY <3>2 DEF Rest
  <2>4. QED
    BY <1>12, <2>2, <2>3 DEF FreeOld
<1>13. ASSUME Take \/ Fail \/ GrowInPlace \/ Move \/ (Loop /\ ~Aborted) PROVE Rest'
  BY <1>1, <1>13, TakeInv, FailInv, GrownInv, LoopInv
<1>14. ASSUME AskForDigits \/ TakeDigits \/ NoDigits \/ PutDigits \/ (Loop /\ Aborted) PROVE Rest'
  <2>1. Aborted
    BY <1>14 DEF AskForDigits, TakeDigits, NoDigits, PutDigits, Aborted
  <2>2. QED
    BY <1>1, <1>14, <2>1, DyingInv
<1>15. Rest'
  BY <1>2, <1>3, <1>4, <1>5, <1>6, <1>7, <1>8, <1>9, <1>10, <1>11, <1>12, <1>13, <1>14 DEF MemNext, Serve
<1>16. AbortInv'
  BY <1>1, <1>15, AbortStepInv
<1>17. QED
  BY <1>1, <1>15, <1>16 DEF MemInv, Rest

\* The inductive invariant holds of both heaps, for every memory map.
THEOREM MemSafety == MemSpec => []MemInv
<1>1. QED
  BY MemInitInv, MemStepInv, PTL DEF MemSpec

\* With every theorem of BlockListProofs: the functions are a
\* client of the list that it was made for, and so it stays as it should be.
THEOREM ListUsed == MemSpec => Spec
<1>1. MemInit => Init
  BY DEF MemInit
<1>2. QED
  BY <1>1, MemSafety, UsesTheList, PTL DEF MemSpec, Spec

\* A block somebody was given is theirs until they give it back, through every
\* malloc, free and realloc: where the list has lost it the program stops.
THEOREM NothingIsLost == MemSpec => []NothingLostSilently
<1>1. MemInv => NothingLostSilently
  BY ReadyFacts DEF NothingLostSilently
<1>2. QED
  BY <1>1, MemSafety, PTL

\* Both heaps stay well formed whatever is asked of them.
THEOREM HeapsWellFormed == MemSpec => []ListIntegrity
<1>1. QED
  BY ListUsed, WellFormed, PTL

\* Under malloc, free, realloc, new and delete clients see a heap that hands
\* out free donated bytes and loses none, and no header reaches what they keep.
THEOREM HeapsKeepBytes == MemSpec => ImplementsHeap /\ []PoolTiled /\ NoStomp
<1>1. QED
  BY ListUsed, ListImplementsHeap, NoByteIsLost, HeadersSparePayloads, PTL
-----------------------------------------------------------------------------
(* The maps that both heaps are made for.                                  *)

\* What the list makes of an entry, and whether that is enough for a block.
Part(e) == AlignRange(Extent(e))
Donated(e) == e.type = Usable /\ Part(e).size >= Threshold

\* Usable entries end on a boundary below Top, once they are cut to 32 bits; none
\* starts inside another; and only the first may be at address zero.
Apart(map) ==
  \A i \in DOMAIN map :
    /\ map[i].type = Usable => Extent(map[i]) \in Ranges
    /\ \A j \in DOMAIN map : i # j /\ Donated(map[i]) /\ Donated(map[j]) =>
         /\ Part(map[i]).data \notin Bytes(Part(map[j]).data, Part(map[j]).size)
         /\ j < i => Part(map[i]).data # Null

\* A part that is still to come starts outside of what the list has and is being
\* given; one at address zero comes before that has anything.
Clear(p) ==
  /\ p.data \notin pool
  /\ pc = "insert_scan" => p.data \notin Bytes(call.block, size[call.block])
  /\ p.data = Null => listed = {} /\ pc = "idle"

OnCourse ==
  /\ user.fn # "astray"
  /\ Apart(todo)
  /\ \A i \in DOMAIN todo : Donated(todo[i]) => Clear(Part(todo[i]))

LEMMA ApartOfRest ==
  ASSUME MapInv, todo # <<>>, OnCourse
  PROVE  /\ Apart(Tail(todo))
         /\ \A i \in DOMAIN Tail(todo) : Donated(Tail(todo)[i]) => Clear(Part(Tail(todo)[i]))
         /\ \A i \in DOMAIN Tail(todo) :
              Donated(Head(todo)) /\ Donated(Tail(todo)[i]) =>
                /\ Part(Tail(todo)[i]).data \notin Bytes(Part(Head(todo)).data, Part(Head(todo)).size)
                /\ Part(Tail(todo)[i]).data # Null
<1>1. /\ \A i \in DOMAIN Tail(todo) : i + 1 \in DOMAIN todo /\ i \in Nat /\ 1 < i + 1
                                      /\ Tail(todo)[i] = todo[i + 1]
      /\ 1 \in DOMAIN todo /\ Head(todo) = todo[1]
  <2>1. todo \in Seq(Entries) /\ todo # <<>>
    BY DEF MapInv, Entries
  <2>2. /\ Len(todo) \in Nat /\ DOMAIN todo = 1..Len(todo) /\ DOMAIN Tail(todo) = 1..(Len(todo) - 1)
        /\ Len(todo) # 0 /\ Head(todo) = todo[1]
    BY <2>1
  <2>3. \A i \in DOMAIN Tail(todo) : Tail(todo)[i] = todo[i + 1]
    BY <2>1
  <2>4. QED
    BY <2>2, <2>3
<1>2. Apart(Tail(todo))
  <2> SUFFICES ASSUME NEW i \in DOMAIN Tail(todo)
               PROVE  /\ Tail(todo)[i].type = Usable => Extent(Tail(todo)[i]) \in Ranges
                      /\ \A j \in DOMAIN Tail(todo) : i # j /\ Donated(Tail(todo)[i]) /\ Donated(Tail(todo)[j]) =>
                           /\ Part(Tail(todo)[i]).data \notin Bytes(Part(Tail(todo)[j]).data, Part(Tail(todo)[j]).size)
                           /\ j < i => Part(Tail(todo)[i]).data # Null
    BY DEF Apart
  <2>1. Tail(todo)[i].type = Usable => Extent(Tail(todo)[i]) \in Ranges
    BY <1>1 DEF OnCourse, Apart
  <2>2. ASSUME NEW j \in DOMAIN Tail(todo), i # j, Donated(Tail(todo)[i]), Donated(Tail(todo)[j])
        PROVE  /\ Part(Tail(todo)[i]).data \notin Bytes(Part(Tail(todo)[j]).data, Part(Tail(todo)[j]).size)
               /\ j < i => Part(Tail(todo)[i]).data # Null
    <3>1. /\ i + 1 \in DOMAIN todo /\ j + 1 \in DOMAIN todo /\ i + 1 # j + 1 /\ (j < i => j + 1 < i + 1)
          /\ Tail(todo)[i] = todo[i + 1] /\ Tail(todo)[j] = todo[j + 1]
      BY <1>1, <2>2
    <3>2. QED
      BY <2>2, <3>1 DEF OnCourse, Apart
  <2>3. QED
    BY <2>1, <2>2
<1>3. \A i \in DOMAIN Tail(todo) : Donated(Tail(todo)[i]) => Clear(Part(Tail(todo)[i]))
  BY <1>1 DEF OnCourse
<1>4. ASSUME NEW i \in DOMAIN Tail(todo), Donated(Head(todo)), Donated(Tail(todo)[i])
      PROVE  /\ Part(Tail(todo)[i]).data \notin Bytes(Part(Head(todo)).data, Part(Head(todo)).size)
             /\ Part(Tail(todo)[i]).data # Null
  <2>1. i + 1 \in DOMAIN todo /\ i + 1 # 1 /\ 1 < i + 1 /\ Tail(todo)[i] = todo[i + 1]
    BY <1>1
  <2>2. QED
    BY <1>1, <1>4, <2>1 DEF OnCourse, Apart
<1>5. QED
  BY <1>2, <1>3, <1>4

\* The next usable entry is one that the list is made for.
LEMMA NoneAstray ==
  ASSUME MemInv, PoolTiled, OnCourse, todo # <<>>, Head(todo).type = Usable
  PROVE  Extent(Head(todo)) \in Ranges /\ RangeIsNew(Extent(Head(todo)))
<1>1. 1 \in DOMAIN todo /\ Head(todo) = todo[1]
  BY DEF MemInv, MapInv
<1>2. Extent(Head(todo)) \in Ranges
  BY <1>1 DEF OnCourse, Apart
<1>3. ASSUME Part(Head(todo)).size >= Threshold
      PROVE  /\ Part(Head(todo)).data = Null => head = Null
             /\ \A b \in listed : Part(Head(todo)).data \notin Bytes(b, size[b])
  <2>1. Clear(Part(Head(todo)))
    BY <1>1, <1>3 DEF OnCourse, Donated
  <2>2. Part(Head(todo)).data = Null => head = Null
    BY <2>1 DEF Clear, MemInv, IInv, ListIntegrity, Ends
  <2>3. \A b \in listed : Part(Head(todo)).data \notin Bytes(b, size[b])
    BY <2>1 DEF Clear, PoolTiled
  <2>4. QED
    BY <2>2, <2>3
<1>4. QED
  BY <1>2, <1>3 DEF Part, RangeIsNew

\* While the map is read nothing but an insertion is in progress.
LEMMA OnlyLoops ==
  ASSUME MemInv, todo # <<>>, Serve
  PROVE  Loop
<1>1. user.fn = "none" /\ ~Aborted
  BY NotDying DEF MemInv, MapInv, NoUser
<1>2. ~AllocateAgain /\ ~FreeOld
  BY <1>1 DEF AllocateAgain, FreeOld
<1>3. ~(Take \/ Fail \/ TakeDigits \/ NoDigits)
  BY <1>1, ScanningFor DEF Take, Fail, TakeDigits, NoDigits, AllocTake, AllocFail
<1>4. ~(GrowInPlace \/ Move)
  BY <1>1, InvFacts DEF GrowInPlace, Move, Recheck, Copy, GrowInv, MemInv, UserInv
<1>5. ~(AskForDigits \/ PutDigits)
  BY <1>1 DEF AskForDigits, PutDigits, Aborted
<1>6. QED
  BY <1>2, <1>3, <1>4, <1>5 DEF Serve

LEMMA LoopStaysClear ==
  ASSUME Loop, NEW p, Clear(p)
  PROVE  Clear(p)'
<1>1. pc # "idle" /\ p.data # Null
  BY LoopEffects DEF Clear
<1>2. CASE InsertScan
  BY <1>1, <1>2 DEF InsertScan, Goto, headers, list, Clear
<1>3. CASE InsertLink
  BY <1>1, <1>3 DEF InsertLink, Goto, Clear
<1>4. CASE InsertOverlap \/ MergeAheadDone \/ MergeBehindDone \/ AllocNext \/ Probe \/ ProbeDone
  <2>1. pool' = pool /\ pc' # "insert_scan"
    BY <1>4 DEF InsertOverlap, MergeAheadDone, MergeBehindDone, AllocNext, Probe, ProbeDone, Goto, Return, list, vars
  <2>2. QED
    BY <1>1, <2>1 DEF Clear
<1>5. CASE MergeAhead \/ MergeBehind
  <2>1. pool' = pool /\ pc' # "insert_scan"
    BY <1>5 DEF MergeAhead, MergeBehind, MergeBlocks, Goto, control
  <2>2. QED
    BY <1>1, <2>1 DEF Clear
<1>6. QED
  BY <1>2, <1>3, <1>4, <1>5 DEF Loop

LEMMA InsertStaysClear ==
  ASSUME MemInv, NEW r \in Ranges, Insert(r), NEW p, Clear(p),
         AlignRange(r).size >= Threshold =>
           p.data # Null /\ p.data \notin Bytes(AlignRange(r).data, AlignRange(r).size)
  PROVE  Clear(p)'
<1>1. CASE InsertNothing(r)
  BY <1>1 DEF InsertNothing, vars, headers, list, control, Clear
<1>2. CASE InsertFirst(r)
  BY <1>2 DEF InsertFirst, control, Clear
<1>3. CASE InsertBegin(r)
  <2>1. /\ call'.block = AlignRange(r).data /\ pool' = pool /\ p.data # Null
        /\ p.data \notin Bytes(AlignRange(r).data, AlignRange(r).size)
    BY <1>3 DEF InsertBegin, Enter, list
  <2>2. AlignRange(r).data \in Addr /\ size \in [Addr -> Nat]
    <3>1. AlignRange(r).size >= Threshold /\ AlignRange(r).data # Null
      BY <1>3 DEF InsertBegin
    <3>2. /\ AlignRange(r).data \in Nat /\ AlignRange(r).size \in Nat
          /\ AlignRange(r).data + AlignRange(r).size <= Top + 1
      BY <3>1, AlignRangeFacts
    <3>3. AlignRange(r).data \in Addr
      <4> DEFINE d == AlignRange(r).data  n == AlignRange(r).size
      <4>1. d \in Nat /\ n \in Nat /\ d + n <= Top + 1 /\ n >= Threshold /\ d # 0
        BY <3>1, <3>2 DEF Null
      <4> HIDE DEF d, n
      <4>2. d \in 1..Top
        BY <4>1, QFacts, BlockListAssumption
      <4>3. QED
        BY <4>2 DEF d, Addr
    <3>4. QED
      BY <3>3 DEF MemInv, IInv, TypeOK
  <2>3. size'[AlignRange(r).data] = AlignRange(r).size
    BY <1>3, <2>2 DEF InsertBegin, InitializeBlock
  <2>4. QED
    BY <2>1, <2>3 DEF Clear
<1>4. QED
  BY <1>1, <1>2, <1>3 DEF Insert

\* No caller comes in, and no function goes on, with a map that is not read.
LEMMA NoneBecomesAstray ==
  ASSUME MemInv, MemNext, todo = <<>>, user.fn # "astray"
  PROVE  todo' = <<>> /\ user'.fn # "astray"
<1>0. user \in [fn : Functions, ptr : Link, size : Nat] /\ NoUser.fn # "astray"
  BY DEF MemInv, UserInv, NoUser
<1>1. CASE AddRange \/ RangeAstray \/ SkipRange \/ MapFails \/ NoAddressLine \/ Misaligned \/ Stopped
  <2>1. CASE AddRange \/ RangeAstray \/ SkipRange \/ MapFails \/ Stopped
    BY <2>1 DEF AddRange, RangeAstray, SkipRange, MapFails, Stopped, memVars
  <2>2. CASE NoAddressLine
    BY <2>2 DEF NoAddressLine, Serving
  <2>3. CASE Misaligned
    BY <2>3 DEF Misaligned, Ready, Serving
  <2>4. QED
    BY <1>1, <2>1, <2>2, <2>3
<1>2. ASSUME NEW n \in Requests, Malloc(n) \/ ReallocNull(n) PROVE todo' = <<>> /\ user'.fn # "astray"
  BY <1>2 DEF Malloc, ReallocNull, Ready, Serving
<1>3. ASSUME NEW b \in Addr, Free(b) \/ FreeStale(b) PROVE todo' = <<>> /\ user'.fn # "astray"
  BY <1>3 DEF Free, FreeStale, Ready, Serving
<1>4. ASSUME NEW b \in Addr, NEW n \in Requests, Realloc(b, n) \/ ReallocStale(b, n)
      PROVE  todo' = <<>> /\ user'.fn # "astray"
  BY <1>4 DEF Realloc, ReallocStale, Ready, Serving
<1>5. CASE AllocateAgain \/ FreeOld
  BY <1>0, <1>5 DEF AllocateAgain, FreeOld
<1>6. CASE Take \/ Fail \/ GrowInPlace \/ Move
  <2>1. CASE Take
    BY <1>0, <2>1 DEF Take, Answer, Wait
  <2>2. CASE Fail
    BY <1>0, <2>2 DEF Fail
  <2>3. CASE GrowInPlace
    BY <1>0, <2>3 DEF GrowInPlace, Answer, Wait
  <2>4. CASE Move
    BY <1>0, <2>4 DEF Move
  <2>5. QED
    BY <1>6, <2>1, <2>2, <2>3, <2>4
<1>7. CASE Loop
  BY <1>0, <1>7, LoopEffects
<1>8. CASE AskForDigits \/ TakeDigits \/ NoDigits \/ PutDigits
  BY <1>8 DEF AskForDigits, TakeDigits, NoDigits, PutDigits
<1>9. QED
  BY <1>1, <1>2, <1>3, <1>4, <1>5, <1>6, <1>7, <1>8 DEF MemNext, Serve

LEMMA OnCourseStep ==
  ASSUME MemInv, PoolTiled, OnCourse, [MemNext]_memVars
  PROVE  OnCourse'
<1>1. CASE AddRange
  <2> DEFINE r == Extent(Head(todo))
  <2>1. /\ r \in Ranges /\ Insert(r) /\ todo' = Tail(todo) /\ user' = user /\ todo # <<>>
        /\ AlignRange(r).size >= Threshold => Donated(Head(todo))
    BY <1>1 DEF AddRange, Donated, Part
  <2>2. ASSUME NEW i \in DOMAIN todo', Donated(todo'[i]) PROVE Clear(Part(todo[i]))'
    <3>1. /\ Clear(Part(todo'[i]))
          /\ Donated(Head(todo)) =>
               /\ Part(todo'[i]).data \notin Bytes(AlignRange(r).data, AlignRange(r).size)
               /\ Part(todo'[i]).data # Null
      BY <2>1, <2>2, ApartOfRest DEF MemInv, Part
    <3>2. /\ AlignRange(r).size >= Threshold =>
               /\ Part(todo'[i]).data # Null
               /\ Part(todo'[i]).data \notin Bytes(AlignRange(r).data, AlignRange(r).size)
      BY <2>1, <3>1
    <3>3. r \in Ranges /\ Insert(r) /\ Clear(Part(todo'[i]))
      BY <2>1, <3>1
    <3> HIDE DEF r
    <3>4. \A q : /\ Clear(q)
                 /\ AlignRange(r).size >= Threshold =>
                      q.data # Null /\ q.data \notin Bytes(AlignRange(r).data, AlignRange(r).size)
                 => Clear(q)'
      BY <3>3, InsertStaysClear
    <3>5. QED
      BY <3>2, <3>3, <3>4 DEF Clear
  <2>3. Apart(todo') /\ user'.fn # "astray"
    BY <2>1, ApartOfRest DEF OnCourse, MemInv
  <2>4. QED
    BY <2>2, <2>3 DEF OnCourse
<1>2. CASE SkipRange
  <2>1. todo # <<>> /\ todo' = Tail(todo) /\ user' = user /\ UNCHANGED vars
    BY <1>2 DEF SkipRange
  <2>2. \A p : Clear(p) => Clear(p)'
    BY <2>1 DEF Clear, vars, headers, list, control
  <2>3. QED
    BY <2>1, <2>2, ApartOfRest DEF OnCourse, MemInv
<1>3. CASE RangeAstray
  BY <1>3, NoneAstray DEF RangeAstray
<1>4. CASE todo' = <<>> /\ user'.fn # "astray"
  BY <1>4 DEF OnCourse, Apart
<1>5. CASE todo # <<>> /\ Serve
  <2>1. Loop /\ user = NoUser
    BY <1>5, OnlyLoops DEF MemInv, MapInv
  <2>2. todo' = todo /\ user' = user
    BY <2>1 DEF Loop
  <2>3. QED
    BY <2>1, <2>2, LoopStaysClear DEF OnCourse
<1>6. CASE UNCHANGED memVars
  <2>1. todo' = todo /\ user' = user /\ UNCHANGED vars
    BY <1>6 DEF memVars
  <2>2. \A p : Clear(p) => Clear(p)'
    BY <2>1 DEF Clear, vars, headers, list, control
  <2>3. QED
    BY <2>1, <2>2 DEF OnCourse
<1>7. CASE MapFails \/ NoAddressLine
  <2>1. todo' = <<>> /\ user'.fn # "astray"
    <3>1. CASE MapFails
      BY <3>1 DEF MapFails, OnCourse
    <3>2. CASE NoAddressLine
      BY <3>2 DEF NoAddressLine, Serving
    <3>3. QED
      BY <1>7, <3>1, <3>2
  <2>2. QED
    BY <1>4, <2>1
<1>8. CASE todo = <<>> /\ MemNext
  <2>1. todo' = <<>> /\ user'.fn # "astray"
    BY <1>8, NoneBecomesAstray DEF OnCourse
  <2>2. QED
    BY <1>4, <2>1
<1>9. CASE todo # <<>> /\ MemNext
  <2>1. \/ AddRange \/ RangeAstray \/ SkipRange \/ MapFails \/ NoAddressLine \/ Serve
        \/ UNCHANGED memVars
    BY <1>9 DEF MemNext, Stopped, Misaligned, Malloc, ReallocNull, Free, FreeStale, Realloc, ReallocStale, Ready
  <2>2. QED
    BY <1>1, <1>2, <1>3, <1>5, <1>6, <1>7, <1>9, <2>1
<1>10. QED
  BY <1>6, <1>8, <1>9

\* A map whose usable entries are apart keeps both heaps within what the list is
\* made for: none of its ranges is one that the model does not follow.
THEOREM ApartMapsStayOnCourse == MemSpec /\ Apart(todo) => [](user.fn # "astray")
<1>1. MemInit /\ Apart(todo) => OnCourse
  BY DEF MemInit, Init, OnCourse, Clear, NoUser
<1>2. OnCourse => user.fn # "astray"
  BY DEF OnCourse
<1>3. MemSpec => []PoolTiled
  BY ListUsed, NoByteIsLost, PTL
<1>4. QED
  BY <1>1, <1>2, <1>3, MemSafety, OnCourseStep, PTL DEF MemSpec

-----------------------------------------------------------------------------
(* Why every function of the C interface returns: what CallReturns says of *)
(* one call of the list, for the several calls that realloc may make, and  *)
(* for the reading of the memory map.                                      *)

\* How many times the function will still turn to the list.
Turns ==
  IF Aborted THEN CASE said.at = "line"              -> 2
                    [] said.at \in {"digits", "put"} -> 1
                    [] OTHER                         -> 0
  ELSE CASE user.fn = "realloc"                   -> 4
         [] user.fn = "realloc_failed"            -> 3
         [] user.fn \in {"malloc", "realloc_again"} -> 2
         [] user.fn = "realloc_free"              -> 1
         [] OTHER                                 -> 0

MemEffort == (Len(todo) + Turns) * (9 * (Top + 2) + 1) + Effort

FunctionShortens == [][~Ready => MemEffort' < MemEffort]_memVars

LEMMA MemEffortIs ==
  ASSUME MapInv, EffortOK
  PROVE  Len(todo) \in Nat /\ Turns \in 0..4 /\ Effort \in 0..(9 * (Top + 2)) /\ MemEffort \in Nat
<1>1. Len(todo) \in Nat /\ Turns \in 0..4 /\ Effort \in 0..(9 * (Top + 2)) /\ Top \in Nat
  BY BlockListAssumption DEF MapInv, Turns, EffortOK
<1>2. \A n \in Nat, e \in 0..(9 * (Top + 2)) : n * (9 * (Top + 2) + 1) + e \in Nat
  BY <1>1
<1>3. Len(todo) + Turns \in Nat
  BY <1>1
<1> QED BY <1>1, <1>2, <1>3 DEF MemEffort

\* Fewer calls to come, or as many and less of the one in progress.
LEMMA LessMemEffort ==
  ASSUME NEW m \in Nat, NEW n \in Nat, NEW K \in Nat, NEW d \in 0..K, NEW e \in 0..K,
         n < m \/ (n = m /\ e < d)
  PROVE  n * (K + 1) + e < m * (K + 1) + d
<1>1. CASE n = m
  BY <1>1
<1>2. CASE n < m
  <2>1. n + 1 <= m
    BY <1>2
  <2>2. (n + 1) * (K + 1) <= m * (K + 1)
    BY <2>1
  <2>3. (n + 1) * (K + 1) = n * (K + 1) + K + 1
    OBVIOUS
  <2> QED BY <2>2, <2>3
<1> QED BY <1>1, <1>2

\* A step of a call of the list brings its effort down; the function goes on
\* with it, or has fewer calls left, whatever the list has answered.
LEMMA ListStepShortens ==
  ASSUME MemInv, Take \/ Fail \/ GrowInPlace \/ Move \/ Loop \/ TakeDigits \/ NoDigits
  PROVE  CallInProgress /\ pc # "idle" /\ todo' = todo /\ Turns' <= Turns
<1> USE DEF Turns, Aborted, Line
<1>1. CASE Take
  BY <1>1, NotDying DEF Take, AllocTake, CallInProgress, Answer, Wait, NoUser, MemInv, UserInv
<1>2. CASE Fail
  BY <1>2, WhyBegins DEF Fail, AllocFail, CallInProgress, NoUser, MemInv, UserInv, OtherHeap
<1>3. CASE GrowInPlace
  BY <1>3 DEF GrowInPlace, Recheck, CallInProgress, Answer, Wait, NoUser, MemInv, UserInv
<1>4. CASE Move
  BY <1>4 DEF Move, Copy, CallInProgress, NoUser
<1>5. CASE Loop
  <2>1. CallInProgress /\ todo' = todo
    BY <1>5 DEF Loop, CallInProgress
  <2>2. pc # "idle"
    BY <1>5, LoopEffects
  <2>3. CASE Aborted
    <3>1. said'.at \in {said.at, "halted"}
      BY <1>5, <2>3, LoopEffects DEF MemInv, AbortInv
    <3>2. Turns' <= Turns
      BY <2>3, <3>1
    <3> QED BY <2>1, <2>2, <3>2
  <2>4. CASE ~Aborted
    <3>1. user' \in {user, NoUser} /\ said'.at = said.at
      BY <1>5, <2>4, LoopEffects DEF MemInv, AbortInv
    <3>2. Turns' <= Turns
      BY <2>4, <3>1 DEF NoUser
    <3> QED BY <2>1, <2>2, <3>2
  <2> QED BY <2>3, <2>4
<1>6. CASE TakeDigits
  BY <1>6 DEF TakeDigits, AllocTake, CallInProgress, MemInv, AbortInv, Stages, TheEnd
<1>7. CASE NoDigits
  BY <1>7 DEF NoDigits, AllocFail, CallInProgress, At
<1> QED BY <1>1, <1>2, <1>3, <1>4, <1>5, <1>6, <1>7

LEMMA FunctionStepShortens ==
  ASSUME MemInv, MapInv', EffortOK, EffortOK', MemNext, ~Ready, ~UNCHANGED memVars
  PROVE  MemEffort' < MemEffort
<1>1. /\ Len(todo) \in Nat /\ Len(todo') \in Nat /\ Turns \in 0..4 /\ Turns' \in 0..4
      /\ Effort \in 0..(9 * (Top + 2)) /\ Effort' \in 0..(9 * (Top + 2)) /\ Top \in Nat
  BY BlockListAssumption DEF MemInv, MapInv, Turns, EffortOK
<1>2. SUFFICES \/ Len(todo') + Turns' < Len(todo) + Turns
               \/ Len(todo') + Turns' = Len(todo) + Turns /\ Effort' < Effort
  <2> DEFINE K == 9 * (Top + 2)  m == Len(todo) + Turns  n == Len(todo') + Turns'
  <2>1. K \in Nat /\ m \in Nat /\ n \in Nat /\ Effort \in 0..K /\ Effort' \in 0..K
    BY <1>1
  <2>2. n < m \/ (n = m /\ Effort' < Effort)
    BY <1>2
  <2>3. MemEffort = m * (K + 1) + Effort /\ MemEffort' = n * (K + 1) + Effort'
    BY DEF MemEffort
  <2> HIDE DEF K, m, n
  <2> QED BY <2>1, <2>2, <2>3, LessMemEffort
<1>3. CASE AddRange \/ SkipRange
  <2>1. todo # <<>> /\ todo' = Tail(todo) /\ user' = user
    BY <1>3 DEF AddRange, SkipRange
  <2>2. Len(todo') < Len(todo)
    BY <2>1 DEF MemInv, MapInv
  <2>3. Turns' = Turns
    BY <1>3, <2>1 DEF AddRange, SkipRange, Turns, Aborted
  <2> QED BY <1>1, <2>2, <2>3
<1>4. CASE MapFails \/ NoAddressLine \/ RangeAstray
  <2>1. todo' = <<>> /\ Turns' = 0
    <3>1. CASE MapFails
      BY <3>1, NotDying DEF MapFails, Turns, Aborted, MemInv, MapInv, NoUser
    <3>2. CASE NoAddressLine
      BY <3>2 DEF NoAddressLine, Serving, Fatal, Line, Turns, Aborted
    <3>3. CASE RangeAstray
      BY <3>3, NotDying DEF RangeAstray, Serving, Turns, Aborted, MemInv, MapInv, NoUser
    <3> QED BY <1>4, <3>1, <3>2, <3>3
  <2>2. CASE todo # <<>>
    <3>1. Len(todo) # 0 /\ Len(todo') = 0
      BY <2>1, <2>2 DEF MemInv, MapInv
    <3> QED BY <1>1, <2>1, <3>1
  <2>3. CASE todo = <<>>
    <3>1. pc = "idle" /\ user = NoUser /\ Aborted
      BY <1>4, <2>3 DEF MapFails, NoAddressLine, RangeAstray, Ready
    <3> QED BY <3>1, NotDying DEF NoUser
  <2> QED BY <2>2, <2>3
<1>5. CASE AllocateAgain \/ FreeOld \/ AskForDigits \/ PutDigits
  <2>1. todo' = todo /\ Turns' < Turns
    <3>1. CASE AllocateAgain \/ FreeOld
      BY <3>1, NotDying DEF AllocateAgain, FreeOld, NoUser, MemInv, UserInv, Turns, Aborted
    <3>2. CASE AskForDigits \/ PutDigits
      BY <3>2 DEF AskForDigits, PutDigits, At, Line, MemInv, AbortInv, Turns, Aborted
    <3> QED BY <1>5, <3>1, <3>2
  <2> QED BY <1>1, <2>1
<1>6. CASE Take \/ Fail \/ GrowInPlace \/ Move \/ Loop \/ TakeDigits \/ NoDigits
  <2>1. CallInProgress /\ pc # "idle" /\ todo' = todo /\ Turns' <= Turns
    BY <1>6, ListStepShortens
  <2>2. Effort' < Effort
    BY <2>1, StepShortens DEF MemInv, Next
  <2> QED BY <1>1, <2>1, <2>2
<1>7. CASE Stopped
  BY <1>7 DEF Stopped
<1>8. ~Misaligned /\ (\A n \in Requests : ~Malloc(n) /\ ~ReallocNull(n))
  BY DEF Misaligned, Malloc, ReallocNull
<1>9. \A b \in Addr : ~Free(b) /\ ~FreeStale(b) /\ \A n \in Requests : ~Realloc(b, n) /\ ~ReallocStale(b, n)
  BY DEF Free, FreeStale, Realloc, ReallocStale
<1> QED BY <1>3, <1>4, <1>5, <1>6, <1>7, <1>8, <1>9 DEF MemNext, Serve

\* Once it is called every function runs down, the realloc too that turns to the
\* list again and again because the block cannot grow or the memory is used up;
\* so does the reading of the memory map.  Only a caller starts anything.
THEOREM FunctionsRunDown == MemSpec => FunctionShortens /\ [](MemEffort \in Nat)
<1>1. MemInv => IInv /\ MapInv
  BY DEF MemInv
<1>2. MapInv /\ EffortOK => MemEffort \in Nat
  BY MemEffortIs
<1>3. MemInv /\ MapInv' /\ EffortOK /\ EffortOK' /\ [MemNext]_memVars
        => [~Ready => MemEffort' < MemEffort]_memVars
  BY FunctionStepShortens
<1> QED BY <1>1, <1>2, <1>3, EffortIs, MemSafety, PTL DEF MemSpec, FunctionShortens
=============================================================================
