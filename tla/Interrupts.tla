----------------------------- MODULE Interrupts -----------------------------
(***************************************************************************)
(* Interrupts in netboot32: the two interrupt controllers and their mask,  *)
(* the vector table, the keyboard handler, and what is done to them to     *)
(* open address line 20 and around every call of real-mode code (the BIOS  *)
(* and the PXE ROM).                                                       *)
(*                                                                         *)
(* The main program is a sequence of places (`at`).  Between any two of    *)
(* its steps keys are pressed and released, the keyboard controller hands  *)
(* bytes over, devices raise their lines, and interrupts are taken when    *)
(* the processor's flag allows.  Steps taken with the flag clear are one   *)
(* action as long as they do not change which code would be interrupted.   *)
(*                                                                         *)
(* A mask and a state of the keys are sets: of the bits that are one.      *)
(* G_last_scancode, which nothing reads, is left out.                      *)
(*                                                                         *)
(* Definitions ending in _Slip are used by no specification (README, "What *)
(* each property is sensitive to").                                        *)
(***************************************************************************)
EXTENDS Integers, Sequences

CONSTANTS
  Lines,       (* the request lines in use, from 0 to 15                   *)
  Keys,        (* the keys: [base |-> scancode, grey |-> sent with prefix] *)
  Masks,       (* the masks the BIOS may leave at the start                *)
  RomLines,    (* the lines whose mask bits the PXE ROM changes            *)
  OutputPort,  (* what the keyboard controller's output port reads as      *)
  MaxKeys,     (* bound: how often keys are pressed or released            *)
  MaxCalls     (* bound: how many real-mode calls are made                 *)

KeyboardLine == 1
Cascade == 2

\* The output port has the reset line (bit 0) and the keyboard's data line
\* (bit 7) high, and does not read as the release of a key in use.
ASSUME InterruptsAssumption ==
  /\ Lines \subseteq 0..15 /\ {KeyboardLine, Cascade} \subseteq Lines
  /\ RomLines \subseteq Lines /\ Masks \subseteq SUBSET Lines
  /\ Keys \subseteq [base : 1..95, grey : BOOLEAN]
  /\ OutputPort \in 128..255 /\ OutputPort % 2 = 1
  /\ \A key \in Keys : key.base # OutputPort - 128
  /\ MaxKeys \in Nat /\ MaxCalls \in Nat

VARIABLES
  at,          (* the main program's place                                 *)
  flag,        (* the processor's interrupt flag                           *)
  vector,      (* the interrupt being handled: <<>> or <<number>>          *)
  table,       (* the vector table loaded: the BIOS's or this program's    *)
  offset,      (* the controllers' vector offsets: for which table         *)
  imr, irr, isr,      (* the controllers' mask, requests, in service       *)
  G_save_mask,        (* interrupts.cpp: the mask found at the start       *)
  save_mask,          (* call16_invoke, atwenty: the mask to put back      *)
  out,         (* the keyboard controller's output buffer: <<>> or <<byte>> *)
  typed,       (* bytes the keyboard has still to hand over                *)
  reply,       (* the controller owes the value of its output port         *)
  enabled,     (* the keyboard is enabled                                  *)
  status,      (* atwenty: what was read for the output port               *)
  keyboard_state,     (* G_keyboard_state                                  *)
  held,        (* the keys the user holds down                             *)
  missed,      (* auxiliary: keys of which another reader took a byte      *)
  events, calls       (* counters for the bounds                           *)

place == <<at, save_mask, status, calls, G_save_mask>>
pic == <<imr, irr, isr>>
kbdctrl == <<out, typed, reply, enabled>>
user == <<held, events>>
vars == <<place, flag, vector, table, offset, pic, kbdctrl, keyboard_state, user, missed>>

Master == Lines \cap 0..7
Slave == Lines \cap 8..15

-----------------------------------------------------------------------------
(* The interrupt controllers.                                              *)

\* A half of the mask that is zero is not written.
WriteHalf(mask, m, half) == IF m \cap half = {} THEN mask \cap half ELSE m \cap half
WriteMask(mask, m) == WriteHalf(mask, m, Master) \cup WriteHalf(mask, m, Slave)

\* Initialising a controller clears its mask, its requests and what it has in
\* service; a line that is up already does not request again.
Configure(for) ==
  /\ offset' = for
  /\ imr' = WriteMask({}, imr)
  /\ irr' = {} /\ isr' = {}

Highest(lines) == {n \in lines : \A m \in lines : n <= m}
EndOfInterrupt_Slip(irq) ==
  isr \ Highest(isr \cap (IF irq >= 8 THEN Slave ELSE Master))

EndOfInterrupt(irq) ==
  isr \ (Highest(isr \cap Master) \cup (IF irq >= 8 THEN Highest(isr \cap Slave) ELSE {}))

\* A line of the second controller comes through the cascade of the first.
Level(n) == IF n \in Slave THEN Cascade ELSE n
InService(n) == {n, Level(n)}
Unmasked(n) == n \notin imr /\ Level(n) \notin imr
Before(m, n) == Level(m) < Level(n) \/ (Level(m) = Level(n) /\ m < n)

\* The request that is passed on: the first that is not masked, if it comes
\* before everything in service.
Requests == {n \in irr : /\ Unmasked(n)
                         /\ \A m \in irr \ {n} : Unmasked(m) => Before(n, m)
                         /\ \A m \in isr : Level(n) < Level(m)}

VectorOf(n) == CASE offset = "program" -> 32 + n
                 [] offset = "bios" -> IF n < 8 THEN 8 + n ELSE 112 + n - 8

-----------------------------------------------------------------------------
(* The keyboard: scancodes, and the state of the keys.                     *)

Prefix == 224
Code(key, up) == (IF key.grey THEN <<Prefix>> ELSE <<>>)
                 \o <<IF up THEN key.base + 128 ELSE key.base>>

left_ctrl == 29
right_ctrl == 128 + 29
left_alt == 56
right_alt == 128 + 56
delete_key == 83

Mark_Slip(down, code) ==
  IF code = Prefix THEN down
  ELSE IF code < 128 THEN down \cup {code} ELSE down \ {code}

\* The keys marked as down after a scancode.
Mark(down, code) ==
  IF code = Prefix THEN down
  ELSE IF code < 128 THEN down \cup {code} ELSE down \ {code - 128}

AllPressed(down) == /\ {left_ctrl, right_ctrl} \cap down # {}
                    /\ {left_alt, right_alt} \cap down # {}
                    /\ delete_key \in down

\* Reading the data port empties the buffer and lets the line go down.
ReadData == out' = <<>> /\ irr' = irr \ {KeyboardLine}
Miss(code) == missed' = missed \cup (IF code = Prefix THEN {} ELSE {code % 128})

MainAt(p) == at = p /\ vector = <<>>

-----------------------------------------------------------------------------
(* The main program: the start, and address line 20.                       *)

\* interrupts::initialize.  Writing a mask of zero writes nothing.
Initialize ==
  /\ MainAt("boot")
  /\ at' = "a20" /\ table' = "program" /\ flag' = TRUE
  /\ Configure("program")
  /\ G_save_mask' = imr'
  /\ UNCHANGED <<vector, save_mask, status, calls, kbdctrl, keyboard_state, user, missed>>

\* The line is open already, or one of the first two ways opens it.
TryEnable ==
  /\ MainAt("a20")
  /\ at' \in {"a20 mask", "running"}
  /\ UNCHANGED <<save_mask, status, calls, G_save_mask, flag, vector, table, offset, pic,
                 kbdctrl, keyboard_state, user, missed>>

MaskMaster ==
  /\ MainAt("a20 mask")
  /\ at' = "a20 disable"
  /\ save_mask' = imr /\ imr' = WriteMask(imr, Master)
  /\ UNCHANGED <<status, calls, G_save_mask, flag, vector, table, offset, irr, isr,
                 kbdctrl, keyboard_state, user, missed>>

DisableKeyboard ==
  /\ MainAt("a20 disable")
  /\ at' = "a20 read" /\ enabled' = FALSE /\ reply' = TRUE
  /\ UNCHANGED <<save_mask, status, calls, G_save_mask, flag, vector, table, offset, pic,
                 out, typed, keyboard_state, user, missed>>

\* What is in the buffer is taken for the output port.
ReadOutputPort ==
  /\ MainAt("a20 read") /\ out # <<>>
  /\ at' = "a20 write" /\ status' = out /\ ReadData
  /\ IF out = <<OutputPort>> THEN UNCHANGED missed ELSE Miss(out[1])
  /\ UNCHANGED <<save_mask, calls, G_save_mask, flag, vector, table, offset, imr, isr,
                 typed, reply, enabled, keyboard_state, user>>

\* A value with bit 0 clear pulls the reset line.
SendOutputPort ==
  /\ MainAt("a20 write")
  /\ at' = IF status[1] % 2 = 0 THEN "reset" ELSE "a20 restore"
  /\ status' = <<>>
  /\ UNCHANGED <<save_mask, calls, G_save_mask, flag, vector, table, offset, pic,
                 kbdctrl, keyboard_state, user, missed>>

\* If the line is closed still, the program aborts.
RestoreMask ==
  /\ MainAt("a20 restore")
  /\ at' \in {"running", "halted"} /\ enabled' = TRUE
  /\ imr' = WriteMask(imr, save_mask) /\ save_mask' = {}
  /\ UNCHANGED <<status, calls, G_save_mask, flag, vector, table, offset, irr, isr,
                 out, typed, reply, keyboard_state, user, missed>>

-----------------------------------------------------------------------------
(* Real-mode calls.                                                        *)

CallBegin_Slip ==
  /\ MainAt("running") /\ calls < MaxCalls
  /\ calls' = calls + 1
  /\ at' = "thunk" /\ flag' = FALSE
  /\ \E irq_mask \in SUBSET Lines :
       /\ imr' = WriteMask({}, WriteMask(imr, irq_mask))
       /\ save_mask' = imr'
       /\ offset' = "bios" /\ irr' = {} /\ isr' = {}
  /\ UNCHANGED <<status, G_save_mask, vector, table, kbdctrl, keyboard_state, user, missed>>

\* call16_invoke up to the thunk.  The mask asked for is zero in pxenv::call
\* and never set in bios.cpp.
CallBegin ==
  /\ MainAt("running") /\ calls < MaxCalls
  /\ calls' = calls + 1
  /\ at' = "thunk" /\ flag' = FALSE
  /\ save_mask' = imr
  /\ \E irq_mask \in SUBSET Lines :
       /\ imr' = WriteMask({}, WriteMask(imr, irq_mask))
       /\ offset' = "bios" /\ irr' = {} /\ isr' = {}
  /\ UNCHANGED <<status, G_save_mask, vector, table, kbdctrl, keyboard_state, user, missed>>

\* The thunk loads the table of the BIOS and then the flags of the context:
\* the interrupt flag is set in pxenv::call and is whatever it is in bios.cpp.
\* The stack is loaded after the flags; what an interrupt in between does to the
\* context is left out.
ThunkEnter ==
  /\ MainAt("thunk")
  /\ at' = "rom" /\ table' = "bios" /\ flag' \in BOOLEAN
  /\ UNCHANGED <<save_mask, status, calls, G_save_mask, vector, offset, pic,
                 kbdctrl, keyboard_state, user, missed>>

\* The ROM's code masks and unmasks lines and sets and clears the flag.
RomStep ==
  /\ MainAt("rom")
  /\ \E m \in SUBSET RomLines : imr' = (imr \ RomLines) \cup m
  /\ flag' \in BOOLEAN
  /\ UNCHANGED <<place, vector, table, offset, irr, isr, kbdctrl, keyboard_state, user, missed>>

\* The BIOS handles an interrupt; of the keyboard's it takes the byte.
BiosHandler ==
  /\ MainAt("rom") /\ flag
  /\ \E n \in Requests :
       IF n = KeyboardLine
       THEN out # <<>> /\ ReadData /\ Miss(out[1])
       ELSE irr' = irr \ {n} /\ UNCHANGED <<out, missed>>
  /\ UNCHANGED <<place, flag, vector, table, offset, imr, isr, typed, reply, enabled,
                 keyboard_state, user>>

ThunkReturn_Slip ==
  /\ MainAt("rom")
  /\ at' = "back" /\ table' = "program"
  /\ UNCHANGED <<save_mask, status, calls, G_save_mask, flag, vector, offset, pic,
                 kbdctrl, keyboard_state, user, missed>>

\* The rest of the thunk: cli, and the table as it was.
ThunkReturn ==
  /\ MainAt("rom")
  /\ at' = "back" /\ flag' = FALSE /\ table' = "program"
  /\ UNCHANGED <<save_mask, status, calls, G_save_mask, vector, offset, pic,
                 kbdctrl, keyboard_state, user, missed>>

\* The rest of call16_invoke.
CallEnd ==
  /\ MainAt("back")
  /\ at' = "running" /\ flag' = TRUE
  /\ imr' = WriteMask(WriteMask({}, imr), save_mask) /\ save_mask' = {}
  /\ offset' = "program" /\ irr' = {} /\ isr' = {}
  /\ UNCHANGED <<status, calls, G_save_mask, vector, table, kbdctrl, keyboard_state, user, missed>>

\* abort: the end of main, and of every error.
Abort ==
  /\ MainAt("running")
  /\ at' = "halted"
  /\ UNCHANGED <<save_mask, status, calls, G_save_mask, flag, vector, table, offset, pic,
                 kbdctrl, keyboard_state, user, missed>>

-----------------------------------------------------------------------------
(* Interrupts and exceptions in protected mode.                            *)

\* The processor takes an interrupt through a gate that clears the flag.
Accept ==
  /\ flag /\ vector = <<>> /\ table = "program" /\ at # "reset"
  /\ \E n \in Requests :
       /\ vector' = <<VectorOf(n)>>
       /\ irr' = irr \ {n} /\ isr' = isr \cup InService(n)
  /\ flag' = FALSE
  /\ UNCHANGED <<place, table, offset, imr, kbdctrl, keyboard_state, user, missed>>

\* An instruction of the main program faults.
Fault ==
  /\ MainAt("running")
  /\ vector' = <<13>> /\ flag' = FALSE
  /\ UNCHANGED <<place, table, offset, pic, kbdctrl, keyboard_state, user, missed>>

Crash_Slip ==
  /\ vector # <<>> /\ vector[1] < 32
  /\ vector' = <<>> /\ at' = "halted"
  /\ UNCHANGED <<save_mask, status, calls, G_save_mask, flag, table, offset, pic,
                 kbdctrl, keyboard_state, user, missed>>

\* ISR_handler of an exception: interrupts on again, and abort.
Crash ==
  /\ vector # <<>> /\ vector[1] < 32
  /\ vector' = <<>> /\ flag' = TRUE /\ at' = "halted"
  /\ UNCHANGED <<save_mask, status, calls, G_save_mask, table, offset, pic,
                 kbdctrl, keyboard_state, user, missed>>

Irq == vector[1] - 32
Dispatch == vector # <<>> /\ vector[1] >= 32

\* keyboard::irq, the end of interrupt, and the return to what was interrupted.
KeyboardIrq ==
  /\ Dispatch /\ Irq = KeyboardLine /\ out # <<>>
  /\ LET down == Mark(keyboard_state, out[1])
     IN  /\ keyboard_state' = down
         /\ at' = IF AllPressed(down) THEN "reset" ELSE at
  /\ ReadData
  /\ isr' = EndOfInterrupt(Irq)
  /\ vector' = <<>> /\ flag' = TRUE
  /\ UNCHANGED <<save_mask, status, calls, G_save_mask, table, offset, imr,
                 typed, reply, enabled, user, missed>>

\* The other lines: nothing but the end of interrupt.
OtherIrq ==
  /\ Dispatch /\ Irq # KeyboardLine
  /\ isr' = EndOfInterrupt(Irq)
  /\ vector' = <<>> /\ flag' = TRUE
  /\ UNCHANGED <<place, table, offset, imr, irr, kbdctrl, keyboard_state, user, missed>>

-----------------------------------------------------------------------------
(* The user and the devices.                                               *)

Press ==
  /\ at # "reset" /\ events < MaxKeys
  /\ \E key \in Keys \ held : held' = held \cup {key} /\ typed' = typed \o Code(key, FALSE)
  /\ events' = events + 1
  /\ UNCHANGED <<place, flag, vector, table, offset, pic, out, reply, enabled,
                 keyboard_state, missed>>

Release ==
  /\ at # "reset" /\ events < MaxKeys
  /\ \E key \in held : held' = held \ {key} /\ typed' = typed \o Code(key, TRUE)
  /\ events' = events + 1
  /\ UNCHANGED <<place, flag, vector, table, offset, pic, out, reply, enabled,
                 keyboard_state, missed>>

\* The next byte goes into the output buffer, and the line goes up.
HandOver ==
  /\ at # "reset" /\ out = <<>>
  /\ \/ reply /\ out' = <<OutputPort>> /\ reply' = FALSE /\ UNCHANGED typed
     \/ /\ ~reply /\ enabled /\ typed # <<>>
        /\ out' = <<Head(typed)>> /\ typed' = Tail(typed) /\ UNCHANGED reply
  /\ irr' = irr \cup {KeyboardLine}
  /\ UNCHANGED <<place, flag, vector, table, offset, imr, isr, enabled, keyboard_state, user, missed>>

Raise ==
  /\ at # "reset"
  /\ \E n \in Lines \ (irr \cup {KeyboardLine, Cascade}) : irr' = irr \cup {n}
  /\ UNCHANGED <<place, flag, vector, table, offset, imr, isr, kbdctrl, keyboard_state, user, missed>>

Init ==
  /\ at = "boot" /\ flag = FALSE /\ vector = <<>> /\ table = "bios" /\ offset = "bios"
  /\ imr \in Masks /\ irr = {} /\ isr = {}
  /\ G_save_mask = {} /\ save_mask = {} /\ status = <<>> /\ calls = 0
  /\ out = <<>> /\ typed = <<>> /\ reply = FALSE /\ enabled = TRUE
  /\ keyboard_state = {} /\ held = {} /\ missed = {} /\ events = 0

Main == \/ Initialize \/ TryEnable \/ MaskMaster \/ DisableKeyboard \/ ReadOutputPort
        \/ SendOutputPort \/ RestoreMask \/ CallBegin \/ ThunkEnter \/ ThunkReturn
        \/ CallEnd \/ Abort
Rom == RomStep \/ BiosHandler
Isr == Crash \/ KeyboardIrq \/ OtherIrq
World == Press \/ Release \/ HandOver \/ Raise

Next == Main \/ Rom \/ Accept \/ Fault \/ Isr \/ World

\* The keyboard controller hands bytes over, the processor takes interrupts
\* while its flag is set, and handlers return.
Spec == Init /\ [][Next]_vars /\ WF_vars(HandOver) /\ WF_vars(Accept) /\ WF_vars(Isr)

-----------------------------------------------------------------------------
(* Properties.                                                             *)

Places == {"boot", "a20", "a20 mask", "a20 disable", "a20 read", "a20 write", "a20 restore",
           "running", "thunk", "rom", "back", "halted", "reset"}

OneOf(S) == {<<>>} \cup {<<x>> : x \in S}

\* The main program is at one of its places, and masks, requests and bytes
\* are what the hardware has.
TypeOK ==
  /\ at \in Places /\ flag \in BOOLEAN /\ vector \in OneOf(0..127)
  /\ table \in {"bios", "program"} /\ offset \in {"bios", "program"}
  /\ imr \in SUBSET Lines /\ irr \in SUBSET Lines /\ isr \in SUBSET Lines
  /\ G_save_mask \in SUBSET Lines /\ save_mask \in SUBSET Lines
  /\ out \in OneOf(1..255) /\ status \in OneOf(1..255) /\ typed \in Seq(1..255)
  /\ reply \in BOOLEAN /\ enabled \in BOOLEAN
  /\ keyboard_state \in SUBSET (0..127) /\ missed \in SUBSET (0..127)
  /\ held \in SUBSET Keys /\ events \in 0..MaxKeys /\ calls \in 0..MaxCalls

\* Whenever an interrupt can be taken, the controllers send the vectors of the
\* table that is loaded: no request of a device ever arrives as an exception
\* in ISR_handler, or at a protected-mode handler while the BIOS runs.
VectorsAgree ==
  /\ flag => table = offset
  /\ vector # <<>> => vector[1] = 13 \/ vector[1] - 32 \in Lines

\* Each half of the mask that was not zero at the start is as it was then
\* whenever the main program runs or has halted, whatever the BIOS and the ROM
\* did to it and whatever mask the calls asked for.
MaskKept ==
  at \in {"running", "halted"} =>
    \A half \in {Master, Slave} :
      G_save_mask \cap half # {} => imr \cap half = G_save_mask \cap half

\* What the controllers have in service is the interrupt being handled: every
\* handler ends it on each controller it came through, so that none stays
\* blocked.
ServiceEnds ==
  isr = IF vector = <<>> \/ vector[1] < 32 THEN {} ELSE InService(Irq)

\* What has been sent and not been read.
Pending == out \o typed

\* The keys that are down by the end of these bytes: of each, its last byte
\* counts.
DownBy(down, bytes) ==
  LET lifted(code, n) == \E i \in n..Len(bytes) : bytes[i] = code + 128 /\ bytes[i] # Prefix
  IN  {code \in 0..127 : \/ code \in down /\ ~lifted(code, 1)
                         \/ \E n \in 1..Len(bytes) : bytes[n] = code /\ ~lifted(code, n + 1)}
DownAfter(n) == DownBy(keyboard_state, SubSeq(Pending, 1, n))

\* Once the bytes on their way are handled, a key is marked as down only if
\* the user holds it, and one held is marked unless another key shares its
\* scancode, except where the BIOS or the A20 code has taken a byte of it.
KeysAsHeld ==
  LET down == DownBy(keyboard_state, Pending)
  IN  /\ \A code \in down \ missed : \E key \in held : key.base = code
      /\ \A key \in held :
           key.base \in down \cup missed \/ \E other \in Keys \ {key} : other.base = key.base

\* A byte is in the buffer and its request is gone: a controller was
\* initialised in between, and no further byte will request.
Stuck == out # <<>> /\ KeyboardLine \notin irr /\ vector # <<32 + KeyboardLine>>

\* "System halted, press Ctrl+Alt+Del to reboot": once the program has halted
\* and the three keys are down after some byte on its way, the machine resets,
\* provided that the keyboard's line is not masked and the keyboard not stuck.
CtrlAltDelReboots ==
  ( /\ at = "halted" /\ ~Stuck /\ Unmasked(KeyboardLine)
    /\ \E n \in 1..Len(Pending) : AllPressed(DownAfter(n)) ) ~> at = "reset"
=============================================================================
