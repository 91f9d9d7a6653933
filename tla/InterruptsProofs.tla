-------------------------- MODULE InterruptsProofs --------------------------
(***************************************************************************)
(* Proofs about Interrupts: the type invariant, and that vectors, mask and *)
(* service stay in step with the main program's place.                     *)
(***************************************************************************)
EXTENDS Interrupts, SequenceTheorems, TLAPS

\* What the main program's place says of the flag, the table and the offsets.
Where ==
  /\ at = "boot" => ~flag /\ vector = <<>> /\ table = "bios" /\ offset = "bios"
  /\ at \in {"thunk", "back"} => ~flag /\ vector = <<>> /\ table = "program" /\ offset = "bios"
  /\ at = "rom" => vector = <<>> /\ table = "bios" /\ offset = "bios"
  /\ at \notin {"boot", "thunk", "back", "rom"} => table = "program" /\ offset = "program"
  /\ vector # <<>> => ~flag /\ (vector[1] - 32 \in Lines \/ (vector[1] = 13 /\ at = "running"))

\* A mask that has every half that was not zero at the start.
Kept(mask) ==
  \A half \in {Master, Slave} : G_save_mask \cap half # {} => mask \cap half = G_save_mask \cap half

\* The mask is in the controllers, or where it is put back from.
MaskSomewhere ==
  /\ at \in {"a20", "a20 mask", "running", "halted"} => Kept(imr)
  /\ at \in {"a20 disable", "a20 read", "a20 write", "a20 restore", "thunk", "rom", "back"}
       => Kept(save_mask)

\* A byte that was read for the output port waits to be written to it.
StatusRead == at = "a20 write" => status # <<>>

IntInv == TypeOK /\ Where /\ ServiceEnds /\ MaskSomewhere /\ StatusRead

-----------------------------------------------------------------------------
(* The operators.                                                          *)

LEMMA Halves ==
  /\ Master \cap Slave = {} /\ Master \cup Slave = Lines
  /\ \A n \in Lines : n \in Nat /\ (n < 8 => n \in Master /\ n \notin Slave)
                                /\ (n >= 8 => n \in Slave /\ n \notin Master)
  /\ Cascade \in Master /\ KeyboardLine \in Master
<1>1. Lines \subseteq 0..15 /\ KeyboardLine \in Lines /\ Cascade \in Lines
  BY InterruptsAssumption
<1>2. \A n \in Lines : n \in Nat /\ (n < 8 <=> n \in Master) /\ (n >= 8 <=> n \in Slave)
  BY <1>1 DEF Master, Slave
<1>3. Master \subseteq Lines /\ Slave \subseteq Lines
  BY DEF Master, Slave
<1>4. \A n \in Lines : ~(n < 8 /\ n >= 8) /\ (n < 8 \/ n >= 8)
  BY <1>1
<1>5. Cascade < 8 /\ KeyboardLine < 8
  BY DEF Cascade, KeyboardLine
<1>. QED  BY <1>1, <1>2, <1>3, <1>4, <1>5

\* write_mask: each half is as asked for, or as it was if that is zero.
LEMMA WriteMaskHalves ==
  ASSUME NEW mask, NEW m, mask \subseteq Lines, m \subseteq Lines
  PROVE  /\ WriteMask(mask, m) \subseteq Lines
         /\ \A half \in {Master, Slave} :
              /\ m \cap half # {} => WriteMask(mask, m) \cap half = m \cap half
              /\ m \cap half = {} => WriteMask(mask, m) \cap half = mask \cap half
<1>1. WriteHalf(mask, m, Master) \subseteq Master /\ WriteHalf(mask, m, Slave) \subseteq Slave
  BY DEF WriteHalf
<1>2. /\ WriteMask(mask, m) \subseteq Lines
      /\ WriteMask(mask, m) \cap Master = WriteHalf(mask, m, Master)
      /\ WriteMask(mask, m) \cap Slave = WriteHalf(mask, m, Slave)
  BY <1>1, Halves DEF WriteMask
<1>. QED  BY <1>2 DEF WriteHalf

\* A controller that is initialised and gets its mask back has the mask it had.
LEMMA WriteBack ==
  ASSUME NEW m, m \subseteq Lines
  PROVE  WriteMask({}, m) = m
<1>1. WriteHalf({}, m, Master) = m \cap Master /\ WriteHalf({}, m, Slave) = m \cap Slave
  BY DEF WriteHalf
<1>. QED  BY <1>1, Halves DEF WriteMask

\* A mask that has been kept is kept by writing it.
LEMMA WriteKept ==
  ASSUME NEW mask, NEW m, mask \subseteq Lines, m \subseteq Lines, Kept(m)
  PROVE  Kept(WriteMask(mask, m))
BY WriteMaskHalves DEF Kept

\* end_of_interrupt takes out of service what accepting the interrupt put in.
LEMMA ServiceEnded ==
  ASSUME NEW n \in Lines, isr = InService(n)
  PROVE  EndOfInterrupt(n) = {}
<1>1. CASE n < 8
  <2>1. InService(n) = {n}
    BY <1>1, Halves DEF InService, Level
  <2>2. isr \cap Master = {n}
    BY <2>1, <1>1, Halves
  <2>3. Highest({n}) = {n}
    BY Halves DEF Highest
  <2>. QED  BY <2>1, <2>2, <2>3, <1>1, Halves DEF EndOfInterrupt
<1>2. CASE n >= 8
  <2>1. InService(n) = {n, Cascade}
    BY <1>2, Halves DEF InService, Level
  <2>2. isr \cap Master = {Cascade} /\ isr \cap Slave = {n}
    BY <2>1, <1>2, Halves
  <2>3. Highest({n}) = {n} /\ Highest({Cascade}) = {Cascade}
    BY Halves DEF Highest, Cascade
  <2>. QED  BY <2>1, <2>2, <2>3, <1>2 DEF EndOfInterrupt
<1>. QED  BY <1>1, <1>2, Halves

LEMMA RequestLines ==
  ASSUME TypeOK, NEW n \in Requests
  PROVE  n \in Lines /\ n \in irr
BY DEF Requests, TypeOK

LEMMA InServiceLines ==
  ASSUME NEW n \in Lines
  PROVE  InService(n) \subseteq Lines
BY Halves DEF InService, Level

\* A sequence of at most one element.
LEMMA OneOfS ==
  ASSUME NEW S
  PROVE  /\ <<>> \in OneOf(S)
         /\ \A x \in S : <<x>> \in OneOf(S)
         /\ \A q \in OneOf(S) : q # <<>> => q[1] \in S /\ q = <<q[1]>>
BY DEF OneOf

LEMMA VectorIn ==
  ASSUME vector \in OneOf(0..127), vector # <<>>
  PROVE  vector[1] \in 0..127
<1>1. PICK v \in 0..127 : vector = <<v>>
  BY DEF OneOf
<1>2. vector[1] = v
  BY <1>1
<1>. QED  BY <1>2

LEMMA ByteIn ==
  ASSUME out \in OneOf(1..255), out # <<>>
  PROVE  out[1] \in 1..255 /\ out[1] % 128 \in 0..127
<1>1. PICK b \in 1..255 : out = <<b>>
  BY DEF OneOf
<1>2. out[1] = b
  BY <1>1
<1>. QED  BY <1>2

\* The bytes a key sends, and what a scancode makes of the keys.
LEMMA CodeBytes ==
  ASSUME NEW key \in Keys, NEW up \in BOOLEAN
  PROVE  Code(key, up) \in Seq(1..255)
<1>1. key.base \in 1..95 /\ key.grey \in BOOLEAN
  BY InterruptsAssumption
<1>2. <<IF up THEN key.base + 128 ELSE key.base>> \in Seq(1..255)
  BY <1>1
<1>3. <<Prefix>> \in Seq(1..255) /\ <<>> \in Seq(1..255)
  BY DEF Prefix
<1>4. (IF key.grey THEN <<Prefix>> ELSE <<>>) \in Seq(1..255)
  BY <1>3
<1>5. \A s, t \in Seq(1..255) : s \o t \in Seq(1..255)
  BY ConcatProperties
<1>. QED  BY <1>2, <1>4, <1>5 DEF Code

LEMMA Marked ==
  ASSUME NEW down \in SUBSET (0..127), NEW code \in 1..255
  PROVE  Mark(down, code) \subseteq 0..127
BY DEF Mark

-----------------------------------------------------------------------------
(* The invariant.                                                          *)

LEMMA IntInit == Init => IntInv
<1>. SUFFICES ASSUME Init PROVE IntInv
  OBVIOUS
<1>1. imr \in SUBSET Lines /\ 0 \in 0..MaxKeys /\ 0 \in 0..MaxCalls
  BY InterruptsAssumption DEF Init
<1>2. vector \in OneOf(0..127) /\ out \in OneOf(1..255) /\ status \in OneOf(1..255)
  BY OneOfS DEF Init
<1>3. typed \in Seq(1..255)
  BY DEF Init
<1>4. TypeOK
  BY <1>1, <1>2, <1>3 DEF Init, TypeOK, Places
<1>. QED  BY <1>4 DEF Init, IntInv, Where, ServiceEnds, MaskSomewhere, StatusRead

LEMMA InitializeStep == ASSUME IntInv, Initialize PROVE IntInv'
<1>. USE DEF IntInv, Initialize, MainAt, place, pic, kbdctrl, user
<1>1. imr' = imr /\ imr \in SUBSET Lines /\ irr' = {} /\ isr' = {} /\ offset' = "program"
  BY WriteBack DEF TypeOK, Configure
<1>2. TypeOK'
  BY <1>1 DEF TypeOK, Places
<1>3. Where'
  BY <1>1 DEF Where
<1>4. ServiceEnds'
  BY <1>1 DEF ServiceEnds, Where, Irq
<1>5. MaskSomewhere'
  BY <1>1 DEF MaskSomewhere, Kept
<1>6. StatusRead'
  BY DEF StatusRead
<1>. QED  BY <1>2, <1>3, <1>4, <1>5, <1>6

LEMMA TryEnableStep == ASSUME IntInv, TryEnable PROVE IntInv'
<1>. USE DEF IntInv, TryEnable, MainAt, place, pic, kbdctrl, user
<1>1. TypeOK'
  BY DEF TypeOK, Places
<1>2. Where'
  BY DEF Where
<1>3. ServiceEnds'
  BY DEF ServiceEnds, Where, Irq
<1>4. MaskSomewhere'
  BY DEF MaskSomewhere, Kept
<1>5. StatusRead'
  BY DEF StatusRead
<1>. QED  BY <1>1, <1>2, <1>3, <1>4, <1>5

LEMMA MaskMasterStep == ASSUME IntInv, MaskMaster PROVE IntInv'
<1>. USE DEF IntInv, MaskMaster, MainAt, place, pic, kbdctrl, user
<1>1. imr \in SUBSET Lines /\ Master \in SUBSET Lines
  BY Halves DEF TypeOK
<1>2. imr' \in SUBSET Lines
  BY <1>1, WriteMaskHalves
<1>3. TypeOK'
  BY <1>1, <1>2 DEF TypeOK, Places
<1>4. Where'
  BY DEF Where
<1>5. ServiceEnds'
  BY DEF ServiceEnds, Where, Irq
<1>6. MaskSomewhere'
  BY DEF MaskSomewhere, Kept
<1>7. StatusRead'
  BY DEF StatusRead
<1>. QED  BY <1>3, <1>4, <1>5, <1>6, <1>7

LEMMA DisableKeyboardStep == ASSUME IntInv, DisableKeyboard PROVE IntInv'
<1>. USE DEF IntInv, DisableKeyboard, MainAt, place, pic, kbdctrl, user
<1>1. TypeOK'
  BY DEF TypeOK, Places
<1>2. Where'
  BY DEF Where
<1>3. ServiceEnds'
  BY DEF ServiceEnds, Where, Irq
<1>4. MaskSomewhere'
  BY DEF MaskSomewhere, Kept
<1>5. StatusRead'
  BY DEF StatusRead
<1>. QED  BY <1>1, <1>2, <1>3, <1>4, <1>5

LEMMA ReadOutputPortStep == ASSUME IntInv, ReadOutputPort PROVE IntInv'
<1>. USE DEF IntInv, ReadOutputPort, MainAt, place, pic, kbdctrl, user
<1>1. out \in OneOf(1..255) /\ out # <<>> /\ missed \in SUBSET (0..127)
  BY DEF TypeOK
<1>2. missed' \in SUBSET (0..127)
  <2>1. out[1] % 128 \in 0..127
    BY <1>1, ByteIn
  <2>. QED  BY <1>1, <2>1 DEF Miss
<1>3. status' \in OneOf(1..255) /\ out' \in OneOf(1..255)
  BY <1>1, OneOfS DEF ReadData
<1>4. irr' \in SUBSET Lines
  BY DEF TypeOK, ReadData
<1>5. TypeOK'
  BY <1>2, <1>3, <1>4 DEF TypeOK, Places
<1>6. Where'
  BY DEF Where
<1>7. ServiceEnds'
  BY DEF ServiceEnds, Where, Irq
<1>8. MaskSomewhere'
  BY DEF MaskSomewhere, Kept
<1>9. StatusRead'
  BY DEF StatusRead
<1>. QED  BY <1>5, <1>6, <1>7, <1>8, <1>9

LEMMA SendOutputPortStep == ASSUME IntInv, SendOutputPort PROVE IntInv'
<1>. USE DEF IntInv, SendOutputPort, MainAt, place, pic, kbdctrl, user
<1>1. status' \in OneOf(1..255)
  BY OneOfS
<1>2. TypeOK'
  BY <1>1 DEF TypeOK, Places
<1>3. Where'
  BY DEF Where
<1>4. ServiceEnds'
  BY DEF ServiceEnds, Where, Irq
<1>5. MaskSomewhere'
  BY DEF MaskSomewhere, Kept
<1>6. StatusRead'
  BY DEF StatusRead
<1>. QED  BY <1>2, <1>3, <1>4, <1>5, <1>6

LEMMA RestoreMaskStep == ASSUME IntInv, RestoreMask PROVE IntInv'
<1>. USE DEF IntInv, RestoreMask, MainAt, place, pic, kbdctrl, user
<1>1. save_mask \in SUBSET Lines /\ imr \in SUBSET Lines
  BY DEF TypeOK
<1>2. imr' \in SUBSET Lines /\ save_mask' \in SUBSET Lines
  BY <1>1, WriteMaskHalves
<1>3. Kept(save_mask)
  BY DEF MaskSomewhere
<1>4. Kept(WriteMask(imr, save_mask))
  BY <1>1, <1>3, WriteKept
<1>5. TypeOK'
  BY <1>2 DEF TypeOK, Places
<1>6. Where'
  BY DEF Where
<1>7. ServiceEnds'
  BY DEF ServiceEnds, Where, Irq
<1>8. MaskSomewhere'
  BY <1>4 DEF MaskSomewhere, Kept
<1>9. StatusRead'
  BY DEF StatusRead
<1>. QED  BY <1>5, <1>6, <1>7, <1>8, <1>9

LEMMA CallBeginStep == ASSUME IntInv, CallBegin PROVE IntInv'
<1>. USE DEF IntInv, CallBegin, MainAt, place, pic, kbdctrl, user
<1>1. imr \in SUBSET Lines
  BY DEF TypeOK
<1>2. imr' \in SUBSET Lines
  <2>1. PICK irq_mask \in SUBSET Lines : imr' = WriteMask({}, WriteMask(imr, irq_mask))
    OBVIOUS
  <2>2. WriteMask(imr, irq_mask) \in SUBSET Lines
    BY <1>1, WriteMaskHalves
  <2>. QED  BY <2>1, <2>2, WriteBack
<1>3. calls' \in 0..MaxCalls
  BY InterruptsAssumption DEF TypeOK
<1>4. TypeOK'
  BY <1>1, <1>2, <1>3 DEF TypeOK, Places
<1>5. Where'
  BY DEF Where
<1>6. ServiceEnds'
  BY DEF ServiceEnds, Where, Irq
<1>7. MaskSomewhere'
  BY DEF MaskSomewhere, Kept
<1>8. StatusRead'
  BY DEF StatusRead
<1>. QED  BY <1>4, <1>5, <1>6, <1>7, <1>8

LEMMA ThunkEnterStep == ASSUME IntInv, ThunkEnter PROVE IntInv'
<1>. USE DEF IntInv, ThunkEnter, MainAt, place, pic, kbdctrl, user
<1>1. TypeOK'
  BY DEF TypeOK, Places
<1>2. Where'
  BY DEF Where
<1>3. ServiceEnds'
  BY DEF ServiceEnds, Where, Irq
<1>4. MaskSomewhere'
  BY DEF MaskSomewhere, Kept
<1>5. StatusRead'
  BY DEF StatusRead
<1>. QED  BY <1>1, <1>2, <1>3, <1>4, <1>5

LEMMA ThunkReturnStep == ASSUME IntInv, ThunkReturn PROVE IntInv'
<1>. USE DEF IntInv, ThunkReturn, MainAt, place, pic, kbdctrl, user
<1>1. TypeOK'
  BY DEF TypeOK, Places
<1>2. Where'
  BY DEF Where
<1>3. ServiceEnds'
  BY DEF ServiceEnds, Where, Irq
<1>4. MaskSomewhere'
  BY DEF MaskSomewhere, Kept
<1>5. StatusRead'
  BY DEF StatusRead
<1>. QED  BY <1>1, <1>2, <1>3, <1>4, <1>5

LEMMA CallEndStep == ASSUME IntInv, CallEnd PROVE IntInv'
<1>. USE DEF IntInv, CallEnd, MainAt, place, pic, kbdctrl, user
<1>1. save_mask \in SUBSET Lines /\ imr \in SUBSET Lines
  BY DEF TypeOK
<1>2. WriteMask({}, imr) = imr
  BY <1>1, WriteBack
<1>3. imr' = WriteMask(imr, save_mask)
  BY <1>2
<1>4. imr' \in SUBSET Lines
  BY <1>1, <1>3, WriteMaskHalves
<1>5. Kept(save_mask)
  BY DEF MaskSomewhere
<1>6. Kept(WriteMask(imr, save_mask))
  BY <1>1, <1>5, WriteKept
<1>7. TypeOK'
  BY <1>4 DEF TypeOK, Places
<1>8. Where'
  BY DEF Where
<1>9. ServiceEnds'
  BY DEF ServiceEnds, Where, Irq
<1>10. MaskSomewhere'
  BY <1>3, <1>6 DEF MaskSomewhere, Kept
<1>11. StatusRead'
  BY DEF StatusRead
<1>. QED  BY <1>7, <1>8, <1>9, <1>10, <1>11

LEMMA AbortStep == ASSUME IntInv, Abort PROVE IntInv'
<1>. USE DEF IntInv, Abort, MainAt, place, pic, kbdctrl, user
<1>1. TypeOK'
  BY DEF TypeOK, Places
<1>2. Where'
  BY DEF Where
<1>3. ServiceEnds'
  BY DEF ServiceEnds, Where, Irq
<1>4. MaskSomewhere'
  BY DEF MaskSomewhere, Kept
<1>5. StatusRead'
  BY DEF StatusRead
<1>. QED  BY <1>1, <1>2, <1>3, <1>4, <1>5

LEMMA RomStepStep == ASSUME IntInv, RomStep PROVE IntInv'
<1>. USE DEF IntInv, RomStep, MainAt, place, pic, kbdctrl, user
<1>1. imr' \in SUBSET Lines
  BY InterruptsAssumption DEF TypeOK
<1>2. TypeOK'
  BY <1>1 DEF TypeOK, Places
<1>3. Where'
  BY DEF Where
<1>4. ServiceEnds'
  BY DEF ServiceEnds, Where, Irq
<1>5. MaskSomewhere'
  BY DEF MaskSomewhere, Kept
<1>6. StatusRead'
  BY DEF StatusRead
<1>. QED  BY <1>2, <1>3, <1>4, <1>5, <1>6

LEMMA BiosHandlerStep == ASSUME IntInv, BiosHandler PROVE IntInv'
<1>. USE DEF IntInv, BiosHandler, MainAt, place, pic, kbdctrl, user
<1>1. out \in OneOf(1..255) /\ missed \in SUBSET (0..127) /\ irr \in SUBSET Lines
  BY DEF TypeOK
<1>2. missed' \in SUBSET (0..127) /\ out' \in OneOf(1..255) /\ irr' \in SUBSET Lines
  <2>1. PICK n \in Requests :
          IF n = KeyboardLine
          THEN out # <<>> /\ ReadData /\ Miss(out[1])
          ELSE irr' = irr \ {n} /\ UNCHANGED <<out, missed>>
    OBVIOUS
  <2>2. CASE n = KeyboardLine
    <3>1. out[1] % 128 \in 0..127
      BY <2>1, <2>2, <1>1, ByteIn
    <3>2. ReadData /\ Miss(out[1])
      BY <2>1, <2>2
    <3>. QED  BY <1>1, <3>1, <3>2, OneOfS DEF ReadData, Miss
  <2>3. CASE n # KeyboardLine
    BY <2>1, <2>3, <1>1
  <2>. QED  BY <2>2, <2>3
<1>3. TypeOK'
  BY <1>2 DEF TypeOK, Places
<1>4. Where'
  BY DEF Where
<1>5. ServiceEnds'
  BY DEF ServiceEnds, Where, Irq
<1>6. MaskSomewhere'
  BY DEF MaskSomewhere, Kept
<1>7. StatusRead'
  BY DEF StatusRead
<1>. QED  BY <1>3, <1>4, <1>5, <1>6, <1>7

LEMMA AcceptStep == ASSUME IntInv, Accept PROVE IntInv'
<1>. USE DEF IntInv, Accept, MainAt, place, pic, kbdctrl, user
<1>1. PICK n \in Requests :
        /\ vector' = <<VectorOf(n)>> /\ irr' = irr \ {n} /\ isr' = isr \cup InService(n)
  OBVIOUS
<1>2. n \in Lines /\ n \in 0..15
  BY RequestLines, InterruptsAssumption
<1>3. at \notin {"boot", "thunk", "back", "rom"} /\ offset = "program" /\ isr = {}
  BY DEF Where, ServiceEnds
<1>4. VectorOf(n) = 32 + n
  BY <1>3 DEF VectorOf
<1>5. vector' = <<32 + n>> /\ vector'[1] = 32 + n /\ vector' # <<>>
  BY <1>1, <1>4
<1>6. vector' \in OneOf(0..127)
  BY <1>2, <1>5 DEF OneOf
<1>7. isr' = InService(n) /\ isr' \in SUBSET Lines
  BY <1>1, <1>2, <1>3, InServiceLines
<1>8. vector'[1] - 32 = n /\ ~(vector'[1] < 32)
  BY <1>2, <1>5
<1>9. irr' \in SUBSET Lines
  BY <1>1 DEF TypeOK
<1>10. TypeOK'
  BY <1>6, <1>7, <1>9 DEF TypeOK, Places
<1>11. Where'
  BY <1>2, <1>3, <1>5, <1>8 DEF Where
<1>12. ServiceEnds'
  BY <1>5, <1>7, <1>8 DEF ServiceEnds, Where, Irq
<1>13. MaskSomewhere'
  BY DEF MaskSomewhere, Kept
<1>14. StatusRead'
  BY DEF StatusRead
<1>. QED  BY <1>10, <1>11, <1>12, <1>13, <1>14

LEMMA FaultStep == ASSUME IntInv, Fault PROVE IntInv'
<1>. USE DEF IntInv, Fault, MainAt, place, pic, kbdctrl, user
<1>1. vector' \in OneOf(0..127) /\ vector'[1] = 13 /\ vector' # <<>>
  BY OneOfS
<1>2. TypeOK'
  BY <1>1 DEF TypeOK, Places
<1>3. Where'
  BY <1>1 DEF Where
<1>4. ServiceEnds'
  BY <1>1 DEF ServiceEnds, Where, Irq
<1>5. MaskSomewhere'
  BY DEF MaskSomewhere, Kept
<1>6. StatusRead'
  BY DEF StatusRead
<1>. QED  BY <1>2, <1>3, <1>4, <1>5, <1>6

LEMMA CrashStep == ASSUME IntInv, Crash PROVE IntInv'
<1>. USE DEF IntInv, Crash, MainAt, place, pic, kbdctrl, user
<1>1. at = "running"
  <2>1. vector[1] - 32 \in Lines \/ (vector[1] = 13 /\ at = "running")
    BY DEF Where
  <2>2. vector[1] \in 0..127 /\ vector[1] < 32
    BY VectorIn DEF TypeOK
  <2>3. ~(vector[1] - 32 \in Nat)
    <3>1. \A v \in 0..127 : v < 32 => ~(v - 32 \in Nat)
      OBVIOUS
    <3>. QED  BY <3>1, <2>2, Zenon
  <2>4. \A n \in Lines : n \in Nat
    BY Halves
  <2>. QED  BY <2>1, <2>3, <2>4
<1>2. vector' \in OneOf(0..127)
  BY OneOfS
<1>3. TypeOK'
  BY <1>2 DEF TypeOK, Places
<1>4. Where'
  BY <1>1 DEF Where
<1>5. ServiceEnds'
  BY <1>1 DEF ServiceEnds, Where, Irq
<1>6. MaskSomewhere'
  BY <1>1 DEF MaskSomewhere, Kept
<1>7. StatusRead'
  BY <1>1 DEF StatusRead
<1>. QED  BY <1>3, <1>4, <1>5, <1>6, <1>7

LEMMA KeyboardIrqStep == ASSUME IntInv, KeyboardIrq PROVE IntInv'
<1>. USE DEF IntInv, KeyboardIrq, MainAt, place, pic, kbdctrl, user
<1>1. Irq \in Lines /\ vector # <<>> /\ ~(vector[1] < 32)
  <2>1. vector # <<>> /\ vector[1] >= 32
    BY DEF Dispatch
  <2>2. vector[1] \in 0..127 /\ vector[1] # 13
    BY <2>1, VectorIn DEF TypeOK
  <2>3. vector[1] - 32 \in Lines
    <3>1. vector[1] - 32 \in Lines \/ vector[1] = 13
      BY <2>1, Zenon DEF Where
    <3>. QED  BY <3>1, <2>2, Zenon
  <2>4. \A v \in 0..127 : v >= 32 => ~(v < 32)
    OBVIOUS
  <2>5. ~(vector[1] < 32)
    BY <2>1, <2>2, <2>4
  <2>. QED  BY <2>1, <2>3, <2>5 DEF Irq
<1>2. at \notin {"boot", "thunk", "back", "rom"} /\ table = "program" /\ offset = "program"
  BY <1>1 DEF Where
<1>3. isr = InService(Irq)
  BY <1>1 DEF ServiceEnds
<1>4. isr' = {}
  BY <1>1, <1>3, ServiceEnded
<1>5. vector' \in OneOf(0..127)
  BY OneOfS
<1>6. out[1] \in 1..255
  BY ByteIn DEF TypeOK
<1>7. keyboard_state' \in SUBSET (0..127)
  BY <1>6, Marked DEF TypeOK
<1>8. out' \in OneOf(1..255) /\ irr' \in SUBSET Lines
  BY OneOfS DEF TypeOK, ReadData
<1>9. at' \in {at, "reset"} /\ UNCHANGED <<table, offset>> /\ vector' = <<>>
  OBVIOUS
<1>10. TypeOK'
  BY <1>4, <1>5, <1>7, <1>8 DEF TypeOK, Places
<1>11. Where'
  BY <1>2, <1>9 DEF Where
<1>12. ServiceEnds'
  BY <1>4 DEF ServiceEnds, Where, Irq
<1>13. MaskSomewhere'
  BY DEF MaskSomewhere, Kept
<1>14. StatusRead'
  BY DEF StatusRead
<1>. QED  BY <1>10, <1>11, <1>12, <1>13, <1>14

LEMMA OtherIrqStep == ASSUME IntInv, OtherIrq PROVE IntInv'
<1>. USE DEF IntInv, OtherIrq, MainAt, place, pic, kbdctrl, user
<1>1. Irq \in Lines /\ vector # <<>> /\ ~(vector[1] < 32)
  <2>1. vector # <<>> /\ vector[1] >= 32
    BY DEF Dispatch
  <2>2. vector[1] \in 0..127 /\ vector[1] # 13
    BY <2>1, VectorIn DEF TypeOK
  <2>3. vector[1] - 32 \in Lines
    <3>1. vector[1] - 32 \in Lines \/ vector[1] = 13
      BY <2>1, Zenon DEF Where
    <3>. QED  BY <3>1, <2>2, Zenon
  <2>4. \A v \in 0..127 : v >= 32 => ~(v < 32)
    OBVIOUS
  <2>5. ~(vector[1] < 32)
    BY <2>1, <2>2, <2>4
  <2>. QED  BY <2>1, <2>3, <2>5 DEF Irq
<1>2. at \notin {"boot", "thunk", "back", "rom"} /\ table = "program" /\ offset = "program"
  BY <1>1 DEF Where
<1>3. isr = InService(Irq)
  BY <1>1 DEF ServiceEnds
<1>4. isr' = {}
  BY <1>1, <1>3, ServiceEnded
<1>5. vector' \in OneOf(0..127)
  BY OneOfS
<1>6. TypeOK'
  BY <1>4, <1>5 DEF TypeOK, Places
<1>7. Where'
  BY <1>2 DEF Where
<1>8. ServiceEnds'
  BY <1>4 DEF ServiceEnds, Where, Irq
<1>9. MaskSomewhere'
  BY DEF MaskSomewhere, Kept
<1>10. StatusRead'
  BY DEF StatusRead
<1>. QED  BY <1>6, <1>7, <1>8, <1>9, <1>10

LEMMA PressStep == ASSUME IntInv, Press PROVE IntInv'
<1>. USE DEF IntInv, Press, MainAt, place, pic, kbdctrl, user
<1>1. typed' \in Seq(1..255)
  <2>1. PICK key \in Keys : typed' = typed \o Code(key, FALSE)
    BY DEF TypeOK
  <2>2. Code(key, FALSE) \in Seq(1..255) /\ typed \in Seq(1..255)
    BY CodeBytes DEF TypeOK
  <2>. QED  BY <2>1, <2>2, ConcatProperties
<1>2. events' \in 0..MaxKeys /\ held' \in SUBSET Keys
  BY InterruptsAssumption DEF TypeOK
<1>3. TypeOK'
  BY <1>1, <1>2 DEF TypeOK, Places
<1>4. Where'
  BY DEF Where
<1>5. ServiceEnds'
  BY DEF ServiceEnds, Where, Irq
<1>6. MaskSomewhere'
  BY DEF MaskSomewhere, Kept
<1>7. StatusRead'
  BY DEF StatusRead
<1>. QED  BY <1>3, <1>4, <1>5, <1>6, <1>7

LEMMA ReleaseStep == ASSUME IntInv, Release PROVE IntInv'
<1>. USE DEF IntInv, Release, MainAt, place, pic, kbdctrl, user
<1>1. typed' \in Seq(1..255)
  <2>1. PICK key \in Keys : typed' = typed \o Code(key, TRUE)
    BY DEF TypeOK
  <2>2. Code(key, TRUE) \in Seq(1..255) /\ typed \in Seq(1..255)
    BY CodeBytes DEF TypeOK
  <2>. QED  BY <2>1, <2>2, ConcatProperties
<1>2. events' \in 0..MaxKeys /\ held' \in SUBSET Keys
  BY InterruptsAssumption DEF TypeOK
<1>3. TypeOK'
  BY <1>1, <1>2 DEF TypeOK, Places
<1>4. Where'
  BY DEF Where
<1>5. ServiceEnds'
  BY DEF ServiceEnds, Where, Irq
<1>6. MaskSomewhere'
  BY DEF MaskSomewhere, Kept
<1>7. StatusRead'
  BY DEF StatusRead
<1>. QED  BY <1>3, <1>4, <1>5, <1>6, <1>7

LEMMA HandOverStep == ASSUME IntInv, HandOver PROVE IntInv'
<1>. USE DEF IntInv, HandOver, MainAt, place, pic, kbdctrl, user
<1>1. typed' \in Seq(1..255) /\ out' \in OneOf(1..255)
  <2>1. CASE reply
    <3>1. typed' = typed /\ out' = <<OutputPort>>
      BY <2>1
    <3>2. OutputPort \in 1..255
      BY InterruptsAssumption
    <3>. QED  BY <3>1, <3>2, OneOfS DEF TypeOK
  <2>2. CASE ~reply
    <3>1. typed # <<>> /\ typed \in Seq(1..255)
      BY <2>2 DEF TypeOK
    <3>2. Head(typed) \in 1..255 /\ Tail(typed) \in Seq(1..255)
      BY <3>1, HeadTailProperties
    <3>3. out' = <<Head(typed)>> /\ typed' = Tail(typed)
      BY <2>2
    <3>. QED  BY <3>2, <3>3, OneOfS
  <2>. QED  BY <2>1, <2>2
<1>2. irr' \in SUBSET Lines /\ reply' \in BOOLEAN
  BY InterruptsAssumption DEF TypeOK
<1>3. TypeOK'
  BY <1>1, <1>2 DEF TypeOK, Places
<1>4. Where'
  BY DEF Where
<1>5. ServiceEnds'
  BY DEF ServiceEnds, Where, Irq
<1>6. MaskSomewhere'
  BY DEF MaskSomewhere, Kept
<1>7. StatusRead'
  BY DEF StatusRead
<1>. QED  BY <1>3, <1>4, <1>5, <1>6, <1>7

LEMMA RaiseStep == ASSUME IntInv, Raise PROVE IntInv'
<1>. USE DEF IntInv, Raise, MainAt, place, pic, kbdctrl, user
<1>1. irr' \in SUBSET Lines
  BY DEF TypeOK
<1>2. TypeOK'
  BY <1>1 DEF TypeOK, Places
<1>3. Where'
  BY DEF Where
<1>4. ServiceEnds'
  BY DEF ServiceEnds, Where, Irq
<1>5. MaskSomewhere'
  BY DEF MaskSomewhere, Kept
<1>6. StatusRead'
  BY DEF StatusRead
<1>. QED  BY <1>2, <1>3, <1>4, <1>5, <1>6

LEMMA IntStutter == ASSUME IntInv, UNCHANGED vars PROVE IntInv'
<1>. USE DEF vars, place, pic, kbdctrl, user
<1>1. TypeOK'
  BY DEF IntInv, TypeOK
<1>2. Where' /\ ServiceEnds' /\ MaskSomewhere' /\ StatusRead'
  BY DEF IntInv, Where, ServiceEnds, Irq, MaskSomewhere, Kept, StatusRead
<1>. QED  BY <1>1, <1>2 DEF IntInv

LEMMA IntNext == IntInv /\ [Next]_vars => IntInv'
<1>. SUFFICES ASSUME IntInv, [Next]_vars PROVE IntInv'
  OBVIOUS
<1>1. CASE Main
  BY <1>1, InitializeStep, TryEnableStep, MaskMasterStep, DisableKeyboardStep,
     ReadOutputPortStep, SendOutputPortStep, RestoreMaskStep, CallBeginStep, ThunkEnterStep,
     ThunkReturnStep, CallEndStep, AbortStep DEF Main
<1>2. CASE Rom
  BY <1>2, RomStepStep, BiosHandlerStep DEF Rom
<1>3. CASE Isr
  BY <1>3, CrashStep, KeyboardIrqStep, OtherIrqStep DEF Isr
<1>4. CASE World
  BY <1>4, PressStep, ReleaseStep, HandOverStep, RaiseStep DEF World
<1>. QED  BY <1>1, <1>2, <1>3, <1>4, AcceptStep, FaultStep, IntStutter DEF Next

\* What IntInv says of place, flag, table, mask and service holds throughout,
\* for every set of lines, keys, masks and ROM lines.
THEOREM IntSafety == Spec => []IntInv
<1>. QED  BY IntInit, IntNext, PTL DEF Spec

-----------------------------------------------------------------------------
(* What follows.                                                           *)

\* Places, masks, vectors and bytes stay in range, for every set of lines and
\* keys and every mask found at the start.
THEOREM IntTypeCorrect == Spec => []TypeOK
<1>1. IntInv => TypeOK
  BY DEF IntInv
<1>. QED  BY <1>1, IntSafety, PTL

\* No request of a device is taken while the controllers send the vectors of
\* the other table: the flag is clear from switch_to_real_mode to the table of
\* the BIOS, and from the thunk's cli to switch_to_prot_mode.
THEOREM VectorsAlwaysAgree == Spec => []VectorsAgree
<1>1. IntInv => VectorsAgree
  BY DEF IntInv, TypeOK, Where, VectorsAgree
<1>. QED  BY <1>1, IntSafety, PTL

\* Real-mode calls and the opening of line 20 give back every half of the mask
\* that was not zero, whatever mask they were asked for and whatever the ROM
\* left behind.
THEOREM MaskIsKept == Spec => []MaskKept
<1>1. IntInv => MaskKept
  BY DEF IntInv, MaskSomewhere, Kept, MaskKept
<1>. QED  BY <1>1, IntSafety, PTL

\* end_of_interrupt leaves nothing in service, on either controller.
THEOREM EveryServiceEnds == Spec => []ServiceEnds
<1>1. IntInv => ServiceEnds
  BY DEF IntInv
<1>. QED  BY <1>1, IntSafety, PTL


-----------------------------------------------------------------------------
(* The keys that are down by the end of some bytes.                        *)

Lifts(byte, code) == byte = code + 128 /\ byte # Prefix
Lifted(bytes, code, n) == \E i \in n..Len(bytes) : Lifts(bytes[i], code)

LEMMA DownMeans ==
  ASSUME NEW down, NEW bytes, NEW code \in 0..127
  PROVE  code \in DownBy(down, bytes) <=>
           \/ code \in down /\ ~Lifted(bytes, code, 1)
           \/ \E n \in 1..Len(bytes) : bytes[n] = code /\ ~Lifted(bytes, code, n + 1)
BY DEF DownBy, Lifted, Lifts

\* What a byte does to the mark of one key.
LEMMA MarkMeans ==
  ASSUME NEW down, NEW byte \in 1..255, NEW code \in 0..127
  PROVE  code \in Mark(down, byte) <=> byte = code \/ (code \in down /\ ~Lifts(byte, code))
BY DEF Mark, Lifts, Prefix

\* The first byte is handled before the others.
LEMMA DownFirst ==
  ASSUME NEW down, NEW byte \in 1..255, NEW bytes \in Seq(1..255), NEW code \in 0..127
  PROVE  code \in DownBy(down, <<byte>> \o bytes) <=> code \in DownBy(Mark(down, byte), bytes)
<1> DEFINE all == <<byte>> \o bytes
<1>1. /\ Len(bytes) \in Nat /\ Len(all) = Len(bytes) + 1 /\ all[1] = byte
      /\ \A i \in 1..Len(bytes) : all[i + 1] = bytes[i]
  OBVIOUS
<1>. HIDE DEF all
<1>2. \A n \in 1..Len(bytes) + 1 : Lifted(all, code, n + 1) <=> Lifted(bytes, code, n)
  <2>1. ASSUME NEW n \in 1..Len(bytes) + 1, NEW i \in (n + 1)..Len(all)
        PROVE  i - 1 \in n..Len(bytes) /\ all[i] = bytes[i - 1]
    <3>1. i - 1 \in n..Len(bytes) /\ i - 1 \in 1..Len(bytes) /\ (i - 1) + 1 = i
      BY <1>1
    <3>. QED  BY <1>1, <3>1
  <2>2. ASSUME NEW n \in 1..Len(bytes) + 1, NEW i \in n..Len(bytes)
        PROVE  i + 1 \in (n + 1)..Len(all) /\ all[i + 1] = bytes[i]
    BY <1>1
  <2>. QED  BY <2>1, <2>2 DEF Lifted
<1>3. Lifted(all, code, 1) <=> Lifts(byte, code) \/ Lifted(bytes, code, 1)
  <2>1. 1 \in 1..Len(all) /\ (1 + 1)..Len(all) = 1..Len(all) \ {1}
    BY <1>1
  <2>2. Lifted(all, code, 1) <=> Lifts(all[1], code) \/ Lifted(all, code, 1 + 1)
    BY <2>1 DEF Lifted
  <2>3. 1 \in 1..Len(bytes) + 1
    BY <1>1
  <2>. QED  BY <1>1, <1>2, <2>2, <2>3
<1>4. (\E n \in 1..Len(all) : all[n] = code /\ ~Lifted(all, code, n + 1))
      <=> \/ byte = code /\ ~Lifted(bytes, code, 1)
          \/ \E n \in 1..Len(bytes) : bytes[n] = code /\ ~Lifted(bytes, code, n + 1)
  <2>1. ASSUME NEW n \in 1..Len(all), all[n] = code, ~Lifted(all, code, n + 1)
        PROVE  \/ byte = code /\ ~Lifted(bytes, code, 1)
               \/ \E m \in 1..Len(bytes) : bytes[m] = code /\ ~Lifted(bytes, code, m + 1)
    <3>1. n \in 1..Len(bytes) + 1 /\ ~Lifted(bytes, code, n)
      BY <1>1, <1>2, <2>1
    <3>2. CASE n = 1
      BY <1>1, <2>1, <3>1, <3>2
    <3>3. CASE n # 1
      <4>1. n - 1 \in 1..Len(bytes) /\ (n - 1) + 1 = n
        BY <3>1, <3>3
      <4>2. bytes[n - 1] = code /\ ~Lifted(bytes, code, (n - 1) + 1)
        BY <1>1, <2>1, <3>1, <4>1
      <4>. QED  BY <4>1, <4>2
    <3>. QED  BY <3>2, <3>3
  <2>2. ASSUME byte = code, ~Lifted(bytes, code, 1)
        PROVE  \E n \in 1..Len(all) : all[n] = code /\ ~Lifted(all, code, n + 1)
    <3>1. 1 \in 1..Len(all) /\ 1 \in 1..Len(bytes) + 1
      BY <1>1
    <3>2. ~Lifted(all, code, 1 + 1)
      BY <1>2, <2>2, <3>1
    <3>. QED  BY <1>1, <2>2, <3>1, <3>2
  <2>3. ASSUME NEW n \in 1..Len(bytes), bytes[n] = code, ~Lifted(bytes, code, n + 1)
        PROVE  \E m \in 1..Len(all) : all[m] = code /\ ~Lifted(all, code, m + 1)
    <3>1. n + 1 \in 1..Len(all) /\ n + 1 \in 1..Len(bytes) + 1 /\ all[n + 1] = code
      BY <1>1, <2>3
    <3>2. ~Lifted(all, code, (n + 1) + 1)
      BY <1>2, <2>3, <3>1
    <3>. QED  BY <3>1, <3>2
  <2>. QED  BY <2>1, <2>2, <2>3
<1>5. code \in DownBy(down, all) <=>
        \/ code \in down /\ ~Lifted(all, code, 1)
        \/ \E n \in 1..Len(all) : all[n] = code /\ ~Lifted(all, code, n + 1)
  BY DownMeans
<1>6. code \in DownBy(Mark(down, byte), bytes) <=>
        \/ code \in Mark(down, byte) /\ ~Lifted(bytes, code, 1)
        \/ \E n \in 1..Len(bytes) : bytes[n] = code /\ ~Lifted(bytes, code, n + 1)
  BY DownMeans
<1>7. code \in Mark(down, byte) <=> byte = code \/ (code \in down /\ ~Lifts(byte, code))
  BY MarkMeans
<1>8. code \in DownBy(down, all) <=> code \in DownBy(Mark(down, byte), bytes)
  BY <1>3, <1>4, <1>5, <1>6, <1>7
<1>. QED  BY <1>8 DEF all

\* The last byte is handled after the others.
LEMMA DownLast ==
  ASSUME NEW down, NEW bytes \in Seq(1..255), NEW byte \in 1..255, NEW code \in 0..127
  PROVE  code \in DownBy(down, bytes \o <<byte>>) <=> code \in Mark(DownBy(down, bytes), byte)
<1> DEFINE all == bytes \o <<byte>>
<1>1. /\ Len(bytes) \in Nat /\ Len(all) = Len(bytes) + 1 /\ all[Len(bytes) + 1] = byte
      /\ \A i \in 1..Len(bytes) : all[i] = bytes[i]
  OBVIOUS
<1>. HIDE DEF all
<1>2. ASSUME NEW n \in 1..Len(bytes) + 1
      PROVE  Lifted(all, code, n) <=> Lifts(byte, code) \/ Lifted(bytes, code, n)
  <2>1. n..Len(all) = n..Len(bytes) \cup {Len(bytes) + 1} /\ n..Len(bytes) \subseteq 1..Len(bytes)
    BY <1>1
  <2>. QED  BY <1>1, <2>1 DEF Lifted
<1>3. ~Lifted(all, code, (Len(bytes) + 1) + 1)
  BY <1>1 DEF Lifted
<1>4. 1..Len(all) = 1..Len(bytes) \cup {Len(bytes) + 1} /\ 1 \in 1..Len(bytes) + 1
      /\ \A n \in 1..Len(bytes) : n + 1 \in 1..Len(bytes) + 1
  BY <1>1
<1>5. (\E n \in 1..Len(all) : all[n] = code /\ ~Lifted(all, code, n + 1))
      <=> \/ byte = code
          \/ ~Lifts(byte, code) /\ \E n \in 1..Len(bytes) : bytes[n] = code /\ ~Lifted(bytes, code, n + 1)
  BY <1>1, <1>2, <1>3, <1>4
<1>6. code \in DownBy(down, all) <=>
        \/ code \in down /\ ~Lifted(all, code, 1)
        \/ \E n \in 1..Len(all) : all[n] = code /\ ~Lifted(all, code, n + 1)
  BY DownMeans
<1>7. code \in DownBy(down, bytes) <=>
        \/ code \in down /\ ~Lifted(bytes, code, 1)
        \/ \E n \in 1..Len(bytes) : bytes[n] = code /\ ~Lifted(bytes, code, n + 1)
  BY DownMeans
<1>8. code \in Mark(DownBy(down, bytes), byte)
      <=> byte = code \/ (code \in DownBy(down, bytes) /\ ~Lifts(byte, code))
  BY MarkMeans
<1>9. Lifted(all, code, 1) <=> Lifts(byte, code) \/ Lifted(bytes, code, 1)
  BY <1>2, <1>4
<1>10. code \in DownBy(down, all) <=> code \in Mark(DownBy(down, bytes), byte)
  BY <1>5, <1>6, <1>7, <1>8, <1>9
<1>. QED  BY <1>10 DEF all

\* A byte that is not of a key leaves it as it was, now and later.
LEMMA DownOther ==
  ASSUME NEW down, NEW byte \in 1..255, NEW bytes \in Seq(1..255), NEW code \in 0..127,
         byte = Prefix \/ code # byte % 128
  PROVE  /\ code \in Mark(down, byte) <=> code \in down
         /\ code \in DownBy(Mark(down, byte), bytes) <=> code \in DownBy(down, bytes)
<1>1. byte # code /\ ~Lifts(byte, code)
  BY DEF Lifts, Prefix
<1>2. code \in Mark(down, byte) <=> code \in down
  BY <1>1, MarkMeans
<1>. QED  BY <1>2, DownMeans

LEMMA DownNothing ==
  ASSUME NEW down, NEW code \in 0..127
  PROVE  code \in DownBy(down, <<>>) <=> code \in down
<1>1. 1..Len(<<>>) = {}
  OBVIOUS
<1>2. ~Lifted(<<>>, code, 1)
  BY <1>1 DEF Lifted
<1>. QED  BY <1>1, <1>2, DownMeans

\* What the bytes of a key do once they are handled.
LEMMA DownCode ==
  ASSUME NEW down, NEW bytes \in Seq(1..255), NEW key \in Keys, NEW up \in BOOLEAN, NEW code \in 0..127
  PROVE  code \in DownBy(down, bytes \o Code(key, up))
         <=> IF code = key.base THEN ~up ELSE code \in DownBy(down, bytes)
<1>1. PICK base \in 1..95 : key.base = base
  BY InterruptsAssumption
<1> DEFINE byte == IF up THEN base + 128 ELSE base
<1>2. byte \in 1..255 /\ byte # Prefix
      /\ (byte = code <=> code = key.base /\ ~up) /\ (Lifts(byte, code) <=> code = key.base /\ up)
  <2>1. /\ base \in 1..255 /\ base # Prefix /\ (base = code <=> code = base) /\ ~Lifts(base, code)
        /\ base + 128 \in 1..255 /\ base + 128 # Prefix /\ base + 128 # code
        /\ (Lifts(base + 128, code) <=> code = base)
    BY DEF Prefix, Lifts
  <2>2. CASE up
    BY <1>1, <2>1, <2>2
  <2>3. CASE ~up
    BY <1>1, <2>1, <2>3
  <2>. QED  BY <2>2, <2>3
<1>3. Code(key, up) = (IF key.grey THEN <<Prefix>> ELSE <<>>) \o <<byte>>
  BY <1>1 DEF Code
<1>. HIDE DEF byte
<1>4. ASSUME NEW some \in Seq(1..255)
      PROVE  code \in DownBy(down, some \o <<byte>>)
             <=> IF code = key.base THEN ~up ELSE code \in DownBy(down, some)
  <2>1. code \in DownBy(down, some \o <<byte>>) <=> code \in Mark(DownBy(down, some), byte)
    BY <1>2, DownLast
  <2>2. code \in Mark(DownBy(down, some), byte)
        <=> byte = code \/ (code \in DownBy(down, some) /\ ~Lifts(byte, code))
    BY <1>2, MarkMeans
  <2>. QED  BY <1>2, <2>1, <2>2
<1>5. CASE key.grey
  <2>1. Prefix \in 1..255
    BY DEF Prefix
  <2>2. bytes \o <<Prefix>> \in Seq(1..255) /\ <<byte>> \in Seq(1..255) /\ <<Prefix>> \in Seq(1..255)
    BY <1>2, <2>1, ConcatProperties
  <2>3. bytes \o Code(key, up) = (bytes \o <<Prefix>>) \o <<byte>>
    BY <1>3, <1>5, <2>2, ConcatAssociative
  <2>4. code \in DownBy(down, bytes \o <<Prefix>>) <=> code \in Mark(DownBy(down, bytes), Prefix)
    BY <2>1, DownLast
  <2>5. code \in Mark(DownBy(down, bytes), Prefix) <=> code \in DownBy(down, bytes)
    BY DEF Mark
  <2>. QED  BY <1>4, <2>2, <2>3, <2>4, <2>5
<1>6. CASE ~key.grey
  <2>1. <<>> \o <<byte>> = <<byte>>
    BY <1>2
  <2>2. bytes \o Code(key, up) = bytes \o <<byte>>
    BY <1>3, <1>6, <2>1
  <2>. QED  BY <1>4, <2>2
<1>. QED  BY <1>1, <1>5, <1>6

-----------------------------------------------------------------------------
(* The keys marked as down are the keys held.                              *)

\* Nothing ever presses the key as whose release the output port reads.
NoPort ==
  /\ OutputPort - 128 \notin keyboard_state
  /\ \A i \in 1..Len(Pending) : Pending[i] # OutputPort - 128

KeyInv == IntInv /\ NoPort /\ KeysAsHeld

\* What the keys are and what KeysAsHeld says, key by key.
Down == DownBy(keyboard_state, Pending)

LEMMA PendingBytes ==
  ASSUME TypeOK
  PROVE  /\ Pending \in Seq(1..255) /\ out \in Seq(1..255) /\ typed \in Seq(1..255)
         /\ out = <<>> => Pending = typed
         /\ out # <<>> => out[1] \in 1..255 /\ Pending = <<out[1]>> \o typed
<1>1. out \in OneOf(1..255) /\ typed \in Seq(1..255)
  BY DEF TypeOK
<1>2. out = <<>> => <<>> \o typed = typed
  BY <1>1
<1>3. out # <<>> => out[1] \in 1..255 /\ out = <<out[1]>>
  BY <1>1, OneOfS
<1>4. out \in Seq(1..255)
  <2>1. CASE out = <<>>
    BY <2>1
  <2>2. CASE out # <<>>
    <3>1. PICK b \in 1..255 : out = <<b>>
      BY <1>1, <2>2 DEF OneOf
    <3>2. <<b>> \in Seq(1..255)
      OBVIOUS
    <3>. QED  BY <3>1, <3>2
  <2>. QED  BY <2>1, <2>2
<1>. QED  BY <1>1, <1>2, <1>3, <1>4, ConcatProperties DEF Pending

LEMMA DownNever ==
  ASSUME NEW down, NEW bytes, NEW code \in 0..127, code \notin down,
         \A i \in 1..Len(bytes) : bytes[i] # code
  PROVE  code \notin DownBy(down, bytes)
<1>1. code \in DownBy(down, bytes) <=>
        \/ code \in down /\ ~Lifted(bytes, code, 1)
        \/ \E n \in 1..Len(bytes) : bytes[n] = code /\ ~Lifted(bytes, code, n + 1)
  BY DownMeans
<1>. QED  BY <1>1, Zenon

LEMMA KeyBases ==
  ASSUME NEW key \in Keys
  PROVE  key.base \in 0..127 /\ key.base # Prefix /\ key.base # OutputPort - 128
BY InterruptsAssumption DEF Prefix

\* A step that leaves every key as it was, or counts it as missed.
LEMMA AsHeldKept ==
  ASSUME IntInv, KeysAsHeld, UNCHANGED held, missed \subseteq missed',
         \A code \in (0..127) \ missed' : code \in Down' => code \in Down,
         \A key \in Keys : key.base \in Down /\ key.base \notin missed' => key.base \in Down'
  PROVE  KeysAsHeld'
<1>1. Down \subseteq 0..127 /\ Down' \subseteq 0..127 /\ held \subseteq Keys
  BY DEF Down, DownBy, IntInv, TypeOK
<1>2. \A code \in Down \ missed : \E key \in held : key.base = code
  BY DEF KeysAsHeld, Down
<1>3. \A key \in held : key.base \in Down \cup missed \/ \E other \in Keys \ {key} : other.base = key.base
  BY DEF KeysAsHeld, Down
<1>4. \A code \in Down' \ missed' : \E key \in held' : key.base = code
  BY <1>1, <1>2
<1>5. \A key \in held' :
        key.base \in Down' \cup missed' \/ \E other \in Keys \ {key} : other.base = key.base
  BY <1>1, <1>3
<1>. QED  BY <1>4, <1>5 DEF KeysAsHeld, Down

\* A step that does nothing to the keyboard.
LEMMA SameKeys ==
  ASSUME KeyInv, UNCHANGED <<out, typed, keyboard_state, held, missed>>
  PROVE  NoPort' /\ KeysAsHeld'
<1>1. Pending' = Pending
  BY DEF Pending
<1>. QED  BY <1>1 DEF KeyInv, NoPort, KeysAsHeld

\* A byte that the BIOS or the A20 code takes.
LEMMA TakenKeys ==
  ASSUME KeyInv, IntInv', out # <<>>, out' = <<>>, UNCHANGED <<typed, keyboard_state, held>>,
         Miss(out[1]) \/ (out = <<OutputPort>> /\ UNCHANGED missed)
  PROVE  NoPort' /\ KeysAsHeld'
<1> DEFINE byte == out[1]
<1>1. /\ Pending = <<byte>> \o typed /\ Pending' = typed /\ byte \in 1..255
      /\ typed \in Seq(1..255)
  <2>1. TypeOK /\ TypeOK' /\ typed' = typed
    BY DEF KeyInv, IntInv
  <2>2. Pending' = typed'
    <3>1. out' = <<>> /\ typed' \in Seq(1..255)
      BY <2>1 DEF TypeOK
    <3>. QED  BY <3>1 DEF Pending
  <2>. QED  BY <2>1, <2>2, PendingBytes
<1>. HIDE DEF byte
<1>2. /\ Len(typed) \in Nat /\ Len(Pending) = Len(typed) + 1 /\ Pending[1] = byte
      /\ \A i \in 1..Len(typed) : Pending[i + 1] = typed[i] /\ i + 1 \in 1..Len(Pending)
  BY <1>1
<1>3. NoPort'
  BY <1>1, <1>2 DEF KeyInv, NoPort
<1>4. missed \subseteq missed' /\ (byte = OutputPort \/ byte = Prefix \/ byte % 128 \in missed')
  <2>1. CASE Miss(byte)
    BY <2>1 DEF Miss
  <2>2. CASE out = <<OutputPort>> /\ UNCHANGED missed
    BY <2>2 DEF byte
  <2>. QED  BY <2>1, <2>2 DEF byte
<1>5. ASSUME NEW code \in (0..127) \ missed', ~(byte = OutputPort /\ code = OutputPort - 128)
      PROVE  code \in Down' <=> code \in Down
  <2>1. byte = Prefix \/ code # byte % 128
    <3>1. byte = OutputPort => byte % 128 = OutputPort - 128
      BY InterruptsAssumption
    <3>. QED  BY <1>4, <1>5, <3>1
  <2>2. code \in DownBy(Mark(keyboard_state, byte), typed) <=> code \in DownBy(keyboard_state, typed)
    BY <1>1, <2>1, DownOther
  <2>3. code \in DownBy(keyboard_state, Pending)
        <=> code \in DownBy(Mark(keyboard_state, byte), typed)
    BY <1>1, DownFirst
  <2>. QED  BY <1>1, <2>2, <2>3 DEF Down
<1>6. OutputPort - 128 \notin Down'
  <2>1. OutputPort - 128 \in 0..127
    BY InterruptsAssumption
  <2>2. Down' = DownBy(keyboard_state, typed)
    BY <1>1 DEF Down
  <2>3. OutputPort - 128 \notin keyboard_state /\ \A i \in 1..Len(typed) : typed[i] # OutputPort - 128
    BY <1>1, <1>3 DEF NoPort
  <2>. QED  BY <2>1, <2>2, <2>3, DownNever
<1>7. \A code \in (0..127) \ missed' : code \in Down' => code \in Down
  BY <1>5, <1>6
<1>8. \A key \in Keys : key.base \in Down /\ key.base \notin missed' => key.base \in Down'
  BY <1>5, KeyBases
<1>9. KeysAsHeld'
  BY <1>4, <1>7, <1>8, AsHeldKept DEF KeyInv
<1>. QED  BY <1>3, <1>9

LEMMA ReadOutputPortKeys == ASSUME KeyInv, IntInv', ReadOutputPort PROVE NoPort' /\ KeysAsHeld'
<1>1. out # <<>> /\ out' = <<>> /\ UNCHANGED <<typed, keyboard_state, held>>
  BY DEF ReadOutputPort, ReadData, user
<1>2. Miss(out[1]) \/ (out = <<OutputPort>> /\ UNCHANGED missed)
  BY DEF ReadOutputPort
<1>. QED  BY <1>1, <1>2, TakenKeys

LEMMA BiosHandlerKeys == ASSUME KeyInv, IntInv', BiosHandler PROVE NoPort' /\ KeysAsHeld'
<1>1. UNCHANGED <<typed, keyboard_state, held>>
  BY DEF BiosHandler, user
<1>2. CASE out # <<>> /\ ReadData /\ Miss(out[1])
  BY <1>1, <1>2, TakenKeys DEF ReadData
<1>3. CASE UNCHANGED <<out, missed>>
  BY <1>1, <1>3, SameKeys
<1>. QED  BY <1>2, <1>3 DEF BiosHandler

\* keyboard::irq takes the first byte over into the state: what comes of the
\* rest is the same.
LEMMA KeyboardIrqKeys == ASSUME KeyInv, IntInv', KeyboardIrq PROVE NoPort' /\ KeysAsHeld'
<1> DEFINE byte == out[1]
<1>1. /\ out # <<>> /\ out' = <<>> /\ UNCHANGED <<typed, held, missed>>
      /\ keyboard_state' = Mark(keyboard_state, byte)
  BY DEF KeyboardIrq, ReadData, user
<1>2. /\ Pending = <<byte>> \o typed /\ Pending' = typed /\ byte \in 1..255
      /\ typed \in Seq(1..255)
  <2>1. TypeOK /\ TypeOK' /\ typed' = typed
    BY <1>1 DEF KeyInv, IntInv
  <2>2. Pending' = typed'
    <3>1. out' = <<>> /\ typed' \in Seq(1..255)
      BY <1>1, <2>1 DEF TypeOK
    <3>. QED  BY <3>1 DEF Pending
  <2>. QED  BY <1>1, <2>1, <2>2, PendingBytes
<1>. HIDE DEF byte
<1>3. /\ Len(typed) \in Nat /\ Len(Pending) = Len(typed) + 1 /\ Pending[1] = byte
      /\ 1 \in 1..Len(Pending)
      /\ \A i \in 1..Len(typed) : Pending[i + 1] = typed[i] /\ i + 1 \in 1..Len(Pending)
  BY <1>2
<1>4. NoPort'
  <2>1. OutputPort - 128 \in 0..127
    BY InterruptsAssumption
  <2>2. OutputPort - 128 \notin keyboard_state /\ byte # OutputPort - 128
    BY <1>3 DEF KeyInv, NoPort
  <2>3. OutputPort - 128 \notin keyboard_state'
    BY <1>1, <1>2, <2>1, <2>2, MarkMeans
  <2>. QED  BY <1>2, <1>3, <2>3 DEF KeyInv, NoPort
<1>5. ASSUME NEW code \in 0..127
      PROVE  code \in Down' <=> code \in Down
  <2>1. code \in DownBy(keyboard_state, Pending)
        <=> code \in DownBy(Mark(keyboard_state, byte), typed)
    BY <1>2, DownFirst
  <2>2. Down' = DownBy(Mark(keyboard_state, byte), typed)
    BY <1>1, <1>2 DEF Down
  <2>. QED  BY <2>1, <2>2 DEF Down
<1>6. \A code \in (0..127) \ missed' : code \in Down' => code \in Down
  BY <1>5
<1>7. \A key \in Keys : key.base \in Down /\ key.base \notin missed' => key.base \in Down'
  BY <1>5, KeyBases
<1>8. KeysAsHeld'
  BY <1>1, <1>6, <1>7, AsHeldKept DEF KeyInv
<1>. QED  BY <1>4, <1>8

\* A byte handed over stays on its way; the value of the output port, put
\* before the others, releases no key there is.
LEMMA HandOverKeys == ASSUME KeyInv, IntInv', HandOver PROVE NoPort' /\ KeysAsHeld'
<1>1. out = <<>> /\ UNCHANGED <<keyboard_state, held, missed>> /\ TypeOK /\ TypeOK'
  BY DEF HandOver, user, KeyInv, IntInv
<1>2. Pending = typed /\ typed \in Seq(1..255)
  BY <1>1, PendingBytes
<1>3. CASE ~reply
  <2>1. typed # <<>> /\ out' = <<Head(typed)>> /\ typed' = Tail(typed)
    BY <1>3 DEF HandOver
  <2>2. <<Head(typed)>> \o Tail(typed) = typed
    BY <1>2, <2>1
  <2>3. Pending' = Pending
    BY <1>2, <2>1, <2>2 DEF Pending
  <2>. QED  BY <1>1, <2>3 DEF KeyInv, NoPort, KeysAsHeld
<1>4. CASE reply
  <2>1. out' = <<OutputPort>> /\ typed' = typed
    BY <1>4 DEF HandOver
  <2>2. Pending' = <<OutputPort>> \o typed
    BY <2>1 DEF Pending
  <2>3. OutputPort \in 128..255 /\ OutputPort \in 1..255 /\ OutputPort % 128 = OutputPort - 128
        /\ OutputPort - 128 \in 0..127 /\ OutputPort # OutputPort - 128
    BY InterruptsAssumption
  <2>4. /\ Len(typed) \in Nat /\ Len(Pending') = Len(typed) + 1
        /\ \A i \in 1..Len(Pending') :
             Pending'[i] = OutputPort \/ (i - 1 \in 1..Len(typed) /\ Pending'[i] = typed[i - 1])
    BY <1>2, <2>2
  <2>5. NoPort'
    BY <1>1, <1>2, <2>3, <2>4 DEF KeyInv, NoPort
  <2>6. ASSUME NEW code \in 0..127
        PROVE  /\ code # OutputPort - 128 => (code \in Down' <=> code \in Down)
               /\ code = OutputPort - 128 => code \notin Down'
    <3>1. Down' = DownBy(keyboard_state, <<OutputPort>> \o typed)
      BY <1>1, <2>2 DEF Down
    <3>2. code \in Down' <=> code \in DownBy(Mark(keyboard_state, OutputPort), typed)
      BY <1>2, <2>3, <3>1, DownFirst
    <3>3. code # OutputPort - 128 =>
            (code \in DownBy(Mark(keyboard_state, OutputPort), typed)
             <=> code \in DownBy(keyboard_state, typed))
      BY <1>2, <2>3, DownOther
    <3>4. code = OutputPort - 128 => code \notin Down'
      <4>1. OutputPort - 128 \notin keyboard_state'
            /\ \A i \in 1..Len(Pending') : Pending'[i] # OutputPort - 128
        BY <2>5 DEF NoPort
      <4>2. Down' = DownBy(keyboard_state', Pending')
        BY DEF Down
      <4>3. OutputPort - 128 \notin DownBy(keyboard_state', Pending')
        BY <2>3, <4>1, DownNever
      <4>. QED  BY <4>2, <4>3
    <3>. QED  BY <1>2, <3>2, <3>3, <3>4 DEF Down
  <2>7. \A code \in (0..127) \ missed' : code \in Down' => code \in Down
    BY <2>6
  <2>8. \A key \in Keys : key.base \in Down /\ key.base \notin missed' => key.base \in Down'
    BY <2>6, KeyBases
  <2>9. KeysAsHeld'
    BY <1>1, <2>7, <2>8, AsHeldKept DEF KeyInv
  <2>. QED  BY <2>5, <2>9
<1>. QED  BY <1>3, <1>4

\* The bytes of one more key pressed or released.
LEMMA TypedKeys ==
  ASSUME KeyInv, NEW key \in Keys, NEW up \in BOOLEAN, typed' = typed \o Code(key, up),
         UNCHANGED <<out, keyboard_state>>
  PROVE  /\ NoPort'
         /\ \A code \in 0..127 : code \in Down' <=> IF code = key.base THEN ~up ELSE code \in Down
<1>1. TypeOK /\ Pending \in Seq(1..255) /\ out \in Seq(1..255) /\ typed \in Seq(1..255)
  BY PendingBytes DEF KeyInv, IntInv
<1>2. Code(key, up) \in Seq(1..255)
  BY CodeBytes
<1>3. Pending' = Pending \o Code(key, up)
  BY <1>1, <1>2, ConcatAssociative DEF Pending
<1>4. Down' = DownBy(keyboard_state, Pending \o Code(key, up))
  BY <1>3 DEF Down
<1>5. \A code \in 0..127 : code \in Down' <=> IF code = key.base THEN ~up ELSE code \in Down
  <2>1. ASSUME NEW code \in 0..127
        PROVE  code \in DownBy(keyboard_state, Pending \o Code(key, up))
               <=> IF code = key.base THEN ~up ELSE code \in DownBy(keyboard_state, Pending)
    BY <1>1, DownCode
  <2>. QED  BY <1>4, <2>1, Zenon DEF Down
<1>6. \A i \in 1..Len(Code(key, up)) : Code(key, up)[i] # OutputPort - 128
  <2> DEFINE byte == IF up THEN key.base + 128 ELSE key.base
  <2>1. \A b \in 1..95, port \in 128..255 : b + 128 # port - 128
    OBVIOUS
  <2>2. byte # OutputPort - 128
    <3>1. key.base \in 1..95 /\ key.base # OutputPort - 128 /\ OutputPort \in 128..255
      BY InterruptsAssumption
    <3>2. key.base + 128 # OutputPort - 128
      BY <2>1, <3>1
    <3>. QED  BY <3>1, <3>2
  <2>3. Prefix # OutputPort - 128
    BY InterruptsAssumption DEF Prefix
  <2>4. Code(key, up) = (IF key.grey THEN <<Prefix>> ELSE <<>>) \o <<byte>>
    BY DEF Code
  <2>. HIDE DEF byte
  <2>5. CASE key.grey
    <3>1. Code(key, up) = <<Prefix>> \o <<byte>>
      BY <2>4, <2>5
    <3>2. Len(Code(key, up)) = 2 /\ Code(key, up)[1] = Prefix /\ Code(key, up)[2] = byte
      BY <3>1
    <3>. QED  BY <2>2, <2>3, <3>2
  <2>6. CASE ~key.grey
    <3>1. Code(key, up) = <<>> \o <<byte>>
      BY <2>4, <2>6
    <3>2. Code(key, up) = <<byte>>
      BY <3>1
    <3>. QED  BY <2>2, <3>2
  <2>. QED  BY <2>5, <2>6
<1>7. NoPort'
  <2> DEFINE code == Code(key, up)
  <2>1. /\ Len(Pending) \in Nat /\ Len(code) \in Nat /\ Len(Pending \o code) = Len(Pending) + Len(code)
        /\ \A i \in 1..Len(Pending \o code) :
             (Pending \o code)[i] = IF i <= Len(Pending) THEN Pending[i] ELSE code[i - Len(Pending)]
    BY <1>1, <1>2
  <2>. HIDE DEF code
  <2>2. \A i \in 1..Len(Pending \o code) : (Pending \o code)[i] # OutputPort - 128
    <3>1. ASSUME NEW i \in 1..Len(Pending \o code)
          PROVE  \/ i \in 1..Len(Pending) /\ (Pending \o code)[i] = Pending[i]
                 \/ i - Len(Pending) \in 1..Len(code) /\ (Pending \o code)[i] = code[i - Len(Pending)]
      BY <2>1
    <3>2. \A i \in 1..Len(code) : code[i] # OutputPort - 128
      BY <1>6 DEF code
    <3>. QED  BY <3>1, <3>2 DEF KeyInv, NoPort
  <2>. QED  BY <1>3, <2>2 DEF KeyInv, NoPort, code
<1>. QED  BY <1>5, <1>7

LEMMA PressKeys == ASSUME KeyInv, IntInv', Press PROVE NoPort' /\ KeysAsHeld'
<1>1. PICK key \in Keys \ held : held' = held \cup {key} /\ typed' = typed \o Code(key, FALSE)
  BY DEF Press
<1>2. UNCHANGED <<out, keyboard_state, missed>> /\ held \subseteq Keys
  BY DEF Press, KeyInv, IntInv, TypeOK
<1>3. NoPort' /\ \A code \in 0..127 : code \in Down' <=> (code = key.base \/ code \in Down)
  BY <1>1, <1>2, TypedKeys
<1>4. Down' \subseteq 0..127 /\ key.base \in 0..127
  BY KeyBases DEF Down, DownBy
<1>5. \A code \in Down \ missed : \E k \in held : k.base = code
  BY DEF KeyInv, KeysAsHeld, Down
<1>6. \A k \in held : k.base \in Down \cup missed \/ \E other \in Keys \ {k} : other.base = k.base
  BY DEF KeyInv, KeysAsHeld, Down
<1>7. \A code \in Down' \ missed' : \E k \in held' : k.base = code
  BY <1>1, <1>2, <1>3, <1>4, <1>5
<1>8. \A k \in held' : k.base \in Down' \cup missed' \/ \E other \in Keys \ {k} : other.base = k.base
  BY <1>1, <1>2, <1>3, <1>4, <1>6, KeyBases
<1>. QED  BY <1>3, <1>7, <1>8 DEF KeysAsHeld, Down

LEMMA ReleaseKeys == ASSUME KeyInv, IntInv', Release PROVE NoPort' /\ KeysAsHeld'
<1>1. PICK key \in held : held' = held \ {key} /\ typed' = typed \o Code(key, TRUE)
  BY DEF Release
<1>2. UNCHANGED <<out, keyboard_state, missed>> /\ held \subseteq Keys
  BY DEF Release, KeyInv, IntInv, TypeOK
<1>3. NoPort' /\ \A code \in 0..127 : code \in Down' <=> (code # key.base /\ code \in Down)
  BY <1>1, <1>2, TypedKeys
<1>4. Down' \subseteq 0..127 /\ key.base \in 0..127
  BY <1>2, KeyBases DEF Down, DownBy
<1>5. \A code \in Down \ missed : \E k \in held : k.base = code
  BY DEF KeyInv, KeysAsHeld, Down
<1>6. \A k \in held : k.base \in Down \cup missed \/ \E other \in Keys \ {k} : other.base = k.base
  BY DEF KeyInv, KeysAsHeld, Down
<1>7. \A code \in Down' \ missed' : \E k \in held' : k.base = code
  <2> SUFFICES ASSUME NEW code \in Down' \ missed'
               PROVE  \E k \in held' : k.base = code
    OBVIOUS
  <2>1. code # key.base /\ code \in Down \ missed
    BY <1>2, <1>3, <1>4
  <2>2. PICK k \in held : k.base = code
    BY <1>5, <2>1
  <2>. QED  BY <1>1, <2>1, <2>2
<1>8. ASSUME NEW k \in held'
      PROVE  k.base \in Down' \cup missed' \/ \E other \in Keys \ {k} : other.base = k.base
  <2>1. k \in held /\ k # key /\ k \in Keys /\ key \in Keys
    BY <1>1, <1>2
  <2>2. CASE k.base = key.base
    BY <2>1, <2>2
  <2>3. CASE k.base # key.base
    BY <1>2, <1>3, <1>6, <2>1, <2>3, KeyBases
  <2>. QED  BY <2>2, <2>3
<1>. QED  BY <1>3, <1>7, <1>8 DEF KeysAsHeld, Down

LEMMA KeyInit == Init => KeyInv
<1>. SUFFICES ASSUME Init PROVE KeyInv
  OBVIOUS
<1>1. out = <<>> /\ typed = <<>> /\ keyboard_state = {} /\ held = {}
  BY DEF Init
<1>2. Pending = <<>> /\ 1..Len(<<>>) = {}
  BY <1>1 DEF Pending
<1>3. NoPort
  BY <1>1, <1>2 DEF NoPort
<1>4. ASSUME NEW code \in 0..127 PROVE code \notin DownBy(keyboard_state, <<>>)
  <2>1. code \in DownBy(keyboard_state, <<>>) <=> code \in keyboard_state
    BY DownNothing
  <2>. QED  BY <1>1, <2>1
<1>5. DownBy(keyboard_state, Pending) = {}
  BY <1>2, <1>4 DEF DownBy
<1>6. KeysAsHeld
  BY <1>1, <1>5 DEF KeysAsHeld
<1>. QED  BY <1>3, <1>6, IntInit DEF KeyInv

LEMMA KeyNext == KeyInv /\ [Next]_vars => KeyInv'
<1>. SUFFICES ASSUME KeyInv, [Next]_vars PROVE KeyInv'
  OBVIOUS
<1>1. IntInv'
  BY IntNext DEF KeyInv
<1>2. CASE ReadOutputPort \/ BiosHandler \/ KeyboardIrq \/ Press \/ Release \/ HandOver
  BY <1>1, <1>2, ReadOutputPortKeys, BiosHandlerKeys, KeyboardIrqKeys, PressKeys, ReleaseKeys,
     HandOverKeys DEF KeyInv
<1>3. CASE UNCHANGED <<kbdctrl, keyboard_state, user, missed>>
  BY <1>1, <1>3, SameKeys DEF KeyInv, kbdctrl, user
<1>4. CASE DisableKeyboard
  BY <1>1, <1>4, SameKeys DEF DisableKeyboard, KeyInv, user
<1>5. CASE RestoreMask
  BY <1>1, <1>5, SameKeys DEF RestoreMask, KeyInv, user
<1>6. CASE Initialize \/ TryEnable \/ MaskMaster \/ SendOutputPort \/ CallBegin \/ ThunkEnter
           \/ ThunkReturn \/ CallEnd \/ Abort
  BY <1>3, <1>6 DEF Initialize, TryEnable, MaskMaster, SendOutputPort, CallBegin, ThunkEnter,
     ThunkReturn, CallEnd, Abort
<1>7. CASE RomStep \/ Accept \/ Fault \/ Crash \/ OtherIrq \/ Raise
  BY <1>3, <1>7 DEF RomStep, Accept, Fault, Crash, OtherIrq, Raise
<1>8. CASE UNCHANGED vars
  BY <1>3, <1>8 DEF vars
<1>. QED  BY <1>2, <1>4, <1>5, <1>6, <1>7, <1>8 DEF Next, Main, Rom, Isr, World

\* Once the bytes on their way are handled, the keys marked as down are those
\* the user holds, for every set of keys and whatever the BIOS, the ROM and the
\* A20 code do meanwhile: but for keys of which one of them took a byte, and
\* keys that share their scancode with another.
THEOREM KeysMarkedAsHeld == Spec => []KeysAsHeld
<1>1. Init => KeyInv
  BY KeyInit
<1>2. KeyInv /\ [Next]_vars => KeyInv'
  BY KeyNext
<1>3. KeyInv => KeysAsHeld
  BY DEF KeyInv
<1>. QED  BY <1>1, <1>2, <1>3, PTL DEF Spec
=============================================================================
