------------------------------ MODULE HeapSpec ------------------------------
(***************************************************************************)
(* What a heap promises its clients, without blocks, headers or lists:     *)
(* bytes are donated to a pool, an extent handed to a client is made of    *)
(* donated bytes nobody else holds, and it keeps its bytes until the       *)
(* client itself gives it back or asks for another size.                   *)
(*                                                                         *)
(* BlockList implements this specification (its refinement mapping is in   *)
(* BlockListRefinement).                                                   *)
(***************************************************************************)
EXTENDS Integers

VARIABLES
  pool,    (* every byte ever donated                                      *)
  owned    (* the extents clients hold: a function from handles to bytes   *)

heapVars == <<pool, owned>>

Held == UNION {owned[h] : h \in DOMAIN owned}

HeapInit == pool = {} /\ owned = [h \in {} |-> {}]

Donate(bytes) ==
  /\ bytes \cap pool = {}
  /\ pool' = pool \cup bytes
  /\ UNCHANGED owned

Grant(h, bytes) ==
  /\ h \notin DOMAIN owned
  /\ bytes \subseteq pool \ Held
  /\ owned' = [x \in DOMAIN owned \cup {h} |-> IF x = h THEN bytes ELSE owned[x]]
  /\ UNCHANGED pool

GiveBack(h) ==
  /\ h \in DOMAIN owned
  /\ owned' = [x \in DOMAIN owned \ {h} |-> owned[x]]
  /\ UNCHANGED pool

\* The client keeps its handle; the extent may grow into free bytes or shrink.
Resize(h, bytes) ==
  /\ h \in DOMAIN owned
  /\ bytes \subseteq (pool \ Held) \cup owned[h]
  /\ owned' = [owned EXCEPT ![h] = bytes]
  /\ UNCHANGED pool

\* The client gets another handle; old and new extent do not overlap.
Move(old, new, bytes) ==
  /\ old \in DOMAIN owned
  /\ new \notin DOMAIN owned
  /\ bytes \subseteq pool \ Held
  /\ owned' = [x \in (DOMAIN owned \ {old}) \cup {new} |->
                 IF x = new THEN bytes ELSE owned[x]]
  /\ UNCHANGED pool

\* A step of the heap, written so that TLC reads the extents off the step.
HeapNext ==
  \/ Donate(pool' \ pool)
  \/ \E h \in DOMAIN owned' : Grant(h, owned'[h])
  \/ \E h \in DOMAIN owned  : GiveBack(h)
  \/ \E h \in DOMAIN owned \cap DOMAIN owned' : Resize(h, owned'[h])
  \/ \E old \in DOMAIN owned, new \in DOMAIN owned' : Move(old, new, owned'[new])

HeapBehaviour == HeapInit /\ [][HeapNext]_heapVars

\* Two clients never hold the same byte, and hold only donated ones.
Disjoint ==
  /\ \A h, k \in DOMAIN owned : h # k => owned[h] \cap owned[k] = {}
  /\ Held \subseteq pool
=============================================================================
