----------------------------- MODULE SerialPort -----------------------------
(***************************************************************************)
(* netboot16/serial.c, built with USE_SERIAL_IRQS: the ports are brought   *)
(* up, their interrupt handler moves bytes from the UARTs to a buffer for  *)
(* each port, and the program reads the buffers, waiting with a halted     *)
(* processor if it is told to.  UARTs and interrupt controller go on       *)
(* beside the program: a byte may arrive between any two steps.            *)
(*                                                                         *)
(* A byte is the number it arrives with, so that no two are alike.         *)
(* Definitions ending in _Slip are used by no specification.               *)
(***************************************************************************)
EXTENDS Integers, Sequences

CONSTANTS
  Ports,       (* the ports that have a base address in the BIOS data area *)
  Configs,     (* what the program asks for: [baud, data_bits, parity, stop_bits] *)
  BufferSize,  (* SERIAL_PORT_BUFFER_SIZE                                  *)
  FifoSize,    (* bytes a UART holds                                       *)
  Trigger,     (* bytes at which it asks for service (14 of 16)            *)
  ReadSizes,   (* sizes the program reads with                             *)
  MaxSignals   (* bound: bytes and modem signals that reach each port      *)

COM1 == 0
COM2 == 1
COM3 == 2
COM4 == 3

\* SER_get_port_irq
Irq(p) == IF p \in {COM1, COM3} THEN 4 ELSE 3
Irqs == {3, 4}

\* SER_get_port_base: where a BIOS puts the four ports.
Base(p) == <<1016, 760, 1000, 744>>[p + 1]

ASSUME SerialAssumption ==
  /\ Ports \subseteq {COM1, COM2, COM3, COM4}
  /\ Configs \subseteq [baud : Nat \ {0}, data_bits : Nat, parity : Nat, stop_bits : Nat]
  /\ BufferSize \in Nat \ {0} /\ FifoSize \in Nat \ {0} /\ Trigger \in 1..FifoSize
  /\ ReadSizes \subseteq Nat
  /\ MaxSignals \in [Ports -> Nat]

VARIABLES
  fifo,      (* the bytes each UART holds                                  *)
  timedOut,  (* whether its character timeout has run out                  *)
  events,    (* what it has to report besides bytes                        *)
  enabled,   (* what its interrupts are enabled for                        *)
  line,      (* its line control register                                  *)
  looped,    (* whether it is in loop-back mode                            *)
  signals,   (* how many bytes and modem signals have reached it           *)
  holding,   (* the UARTs that hold a byte to send                         *)
  latched,   (* lines whose request the interrupt controller has noticed   *)
  handler,   (* the interrupt being handled: [ports left, reading]         *)
  buffer,    (* G_port_buffer, as long as G_port_buffer_index says         *)
  taken,     (* auxiliary: bytes the handler took from each UART           *)
  refused,   (* auxiliary: ports whose buffer it has found full            *)
  pc,        (* where the program is                                       *)
  port,      (* the port it is working on                                  *)
  up,        (* the ports that SER_init_port has returned success for      *)
  intr,      (* whether the processor takes interrupts                     *)
  got        (* auxiliary: the bytes the program has read from each port   *)

uart == <<fifo, timedOut, events, enabled, line, looped, signals, holding>>
isr  == <<handler, buffer, taken, refused>>
main == <<pc, port, up, intr, got>>
vars == <<uart, latched, isr, main>>

NoHandler == [ports |-> <<>>, reading |-> FALSE]
Handling == handler # NoHandler

-----------------------------------------------------------------------------
(* UARTs and interrupt controller.                                         *)

\* What a UART has to be served for, the most urgent first.
HasBytes(p) == Len(fifo[p]) >= Trigger \/ timedOut[p]
Pending(p, s) == s \in enabled[p] /\ (s \in events[p] \/ (s = "bytes" /\ HasBytes(p)))
Asks(p) == \E s \in enabled[p] : Pending(p, s)

\* A line is up as long as a UART on it asks for service; loop-back mode cuts a
\* UART off its line.
Up(i) == \E p \in Ports : Irq(p) = i /\ ~looped[p] /\ Asks(p)

\* The controller notices a line going up, and forgets it when it goes down.
Noticed(i) == latched' = {j \in Irqs : Up(j)' /\ (~Up(j) \/ j \in latched) /\ j # i}
Watched == Noticed(0)

\* In loop-back mode what arrives is what was sent.
Arrive(p) ==
  /\ signals[p] < MaxSignals[p] /\ (looped[p] => p \in holding)
  /\ signals' = [signals EXCEPT ![p] = @ + 1]
  /\ IF Len(fifo[p]) < FifoSize
     THEN fifo' = [fifo EXCEPT ![p] = Append(@, signals'[p])] /\ UNCHANGED events
     ELSE events' = [events EXCEPT ![p] = @ \cup {"line"}] /\ UNCHANGED fifo
  /\ holding' = IF looped[p] THEN holding \ {p} ELSE holding
  /\ UNCHANGED <<timedOut, enabled, line, looped, isr, main>>
  /\ Watched

ModemSignal(p) ==
  /\ signals[p] < MaxSignals[p] /\ ~looped[p]
  /\ signals' = [signals EXCEPT ![p] = @ + 1]
  /\ events' = [events EXCEPT ![p] = @ \cup {"modem"}]
  /\ UNCHANGED <<fifo, timedOut, enabled, line, looped, holding, isr, main>>
  /\ Watched

CharacterTimeout(p) ==
  /\ fifo[p] # <<>> /\ ~timedOut[p]
  /\ timedOut' = [timedOut EXCEPT ![p] = TRUE]
  /\ UNCHANGED <<fifo, events, enabled, line, looped, signals, holding, isr, main>>
  /\ Watched

\* The byte to send has gone out.
Shift(p) ==
  /\ p \in holding
  /\ holding' = holding \ {p}
  /\ events' = [events EXCEPT ![p] = @ \cup ({"sent"} \cap enabled[p])]
  /\ UNCHANGED <<fifo, timedOut, enabled, line, looped, signals, isr, main>>
  /\ Watched

\* Registers as the driver reads them: reading the line status forgets the
\* errors, reading a byte stops the timeout.
ReadLineStatus(p) == events' = [events EXCEPT ![p] = @ \ {"line"}]
ReadByte(p) ==
  /\ fifo' = [fifo EXCEPT ![p] = IF @ = <<>> THEN @ ELSE Tail(@)]
  /\ timedOut' = [timedOut EXCEPT ![p] = FALSE]

HasBase(p) == p \in Ports
CanReceive(p) == fifo[p] # <<>>
CanTransmit(p) == p \notin holding

-----------------------------------------------------------------------------
(* The interrupt handler.                                                  *)

\* SER_irq: both interrupts poll the same two ports.
Polled(i) == <<COM1, COM3>>

\* A halted processor goes on behind its halt after an interrupt.
Resumed == IF pc = "halted" THEN "check" ELSE pc

Accept(i) ==
  /\ ~Handling /\ intr /\ i \in latched
  /\ handler' = [ports |-> Polled(i), reading |-> FALSE]
  /\ pc' = Resumed
  /\ UNCHANGED <<uart, buffer, taken, refused, port, up, intr, got>>
  /\ Noticed(i)

\* PIT_irq: the timer, which needs nothing but wakes the processor.
Tick ==
  /\ ~Handling /\ intr /\ pc = "halted"
  /\ pc' = Resumed
  /\ UNCHANGED <<uart, latched, isr, port, up, intr, got>>

\* A port without a base address is passed over.
Reports(p) == HasBase(p) /\ Asks(p)

\* SER_process_port_irq returns.
NextPort == handler' = [ports |-> Tail(handler.ports), reading |-> FALSE]

\* Serves what is most urgent, and returns.
Poll_Slip ==
  /\ Handling /\ ~handler.reading
  /\ LET p == Head(handler.ports) IN
     /\ IF ~Reports(p) THEN NextPort /\ UNCHANGED events
        ELSE IF Pending(p, "line") THEN NextPort /\ ReadLineStatus(p)
        ELSE IF Pending(p, "bytes") THEN handler' = [handler EXCEPT !.reading = TRUE] /\ UNCHANGED events
        ELSE NextPort /\ events' = [events EXCEPT ![p] = {}]
  /\ UNCHANGED <<fifo, timedOut, enabled, line, looped, signals, holding, buffer, taken, refused, main>>
  /\ Watched

\* One pass of the loop: what the UART reports as most urgent, until it has
\* nothing to report or has a byte sent.
Poll ==
  /\ Handling /\ ~handler.reading
  /\ LET p == Head(handler.ports) IN
     \/ /\ ~Reports(p)
        /\ NextPort
        /\ UNCHANGED events
     \/ /\ Reports(p) /\ Pending(p, "line")
        /\ ReadLineStatus(p)
        /\ UNCHANGED handler
     \/ /\ Reports(p) /\ ~Pending(p, "line") /\ Pending(p, "bytes")
        /\ handler' = [handler EXCEPT !.reading = TRUE]
        /\ UNCHANGED events
     \/ /\ Reports(p) /\ ~Pending(p, "line") /\ ~Pending(p, "bytes") /\ Pending(p, "sent")
        /\ NextPort
        /\ events' = [events EXCEPT ![p] = @ \ {"sent"}]
     \/ /\ Reports(p) /\ \A s \in {"line", "bytes", "sent"} : ~Pending(p, s)
        /\ events' = [events EXCEPT ![p] = @ \ {"modem"}]
        /\ UNCHANGED handler
  /\ UNCHANGED <<fifo, timedOut, enabled, line, looped, signals, holding, buffer, taken, refused, main>>
  /\ Watched

Full(p) == Len(buffer[p]) >= BufferSize

\* SER_receive_byte and SER_push_byte.
TakeByte(p) ==
  /\ buffer' = [buffer EXCEPT ![p] = Append(@, Head(fifo[p]))]
  /\ taken' = [taken EXCEPT ![p] = @ \cup {Head(fifo[p])}]
  /\ ReadByte(p)

\* Reads the byte before it asks whether there is room for it.
ReadBytes_Slip ==
  /\ Handling /\ handler.reading
  /\ LET p == Head(handler.ports) IN
     /\ ReadLineStatus(p)
     /\ IF ~CanReceive(p)
        THEN handler' = [handler EXCEPT !.reading = FALSE]
             /\ UNCHANGED <<fifo, timedOut, buffer, taken, refused>>
        ELSE IF Full(p)
        THEN NextPort /\ ReadByte(p) /\ refused' = refused \cup {p}
             /\ taken' = [taken EXCEPT ![p] = @ \cup {Head(fifo[p])}] /\ UNCHANGED buffer
        ELSE TakeByte(p) /\ UNCHANGED <<handler, refused>>
  /\ UNCHANGED <<enabled, line, looped, signals, holding, main>>
  /\ Watched

\* One pass of the loop that reads bytes; a full buffer ends the service of
\* the port and leaves the UART as it is.
ReadBytes ==
  /\ Handling /\ handler.reading
  /\ LET p == Head(handler.ports) IN
     /\ ReadLineStatus(p)
     /\ \/ /\ ~CanReceive(p)
           /\ handler' = [handler EXCEPT !.reading = FALSE]
           /\ UNCHANGED <<fifo, timedOut, buffer, taken, refused>>
        \/ /\ CanReceive(p) /\ Full(p)
           /\ NextPort
           /\ refused' = refused \cup {p}
           /\ UNCHANGED <<fifo, timedOut, buffer, taken>>
        \/ /\ CanReceive(p) /\ ~Full(p)
           /\ TakeByte(p)
           /\ UNCHANGED <<handler, refused>>
  /\ UNCHANGED <<enabled, line, looped, signals, holding, main>>
  /\ Watched

-----------------------------------------------------------------------------
(* Bringing the ports up, one after the other.                             *)

\* SER_update_baud_divisor: the divisor is rounded up and kept in 16 bits, and
\* the rate asked for becomes the rate it gives.
Divisor(baud) == ((115200 + baud - 1) \div baud) % 65536
Adjusted(baud) == 115200 \div Divisor(baud)

\* SER_check_params
ParamsOK(p, c) ==
  /\ HasBase(p)
  /\ Adjusted(c.baud) >= 2 /\ Adjusted(c.baud) <= 115200
  /\ c.data_bits \in 5..8 /\ c.parity <= 3 /\ c.stop_bits \in 1..2

\* SER_get_line_control_bits: length and end of a character, and its parity
\* none, odd, even, mark or space.
LineControl(c) ==
  (c.data_bits - 5) + (IF c.stop_bits = 2 THEN 4 ELSE 0) + <<0, 8, 24, 40, 56>>[c.parity + 1]

\* The interrupt enable register's bits.
Enables(value) ==
  {s \in {"bytes", "sent", "line", "modem"} :
     (value \div [bytes |-> 1, sent |-> 2, line |-> 4, modem |-> 8][s]) % 2 = 1}

\* The port that has its data and interrupt enable registers where the divisor
\* is written to, 256 above the registers of port p.
Struck(p) == {q \in Ports : Base(q) = Base(p) + 256}

\* SER_set_params: the divisor's lower half is a byte to send at a port it
\* strikes, the upper half what its interrupts are enabled for; the port's own
\* rate stays what it was.
SetParams(p, c) ==
  /\ line' = [line EXCEPT ![p] = LineControl(c)]
  /\ holding' = holding \cup Struck(p)
  /\ enabled' = [q \in Ports |-> IF q = p THEN {}
                                ELSE IF q \in Struck(p) THEN Enables(Divisor(c.baud) \div 256)
                                ELSE enabled[q]]

NextInit ==
  /\ port' = port + 1
  /\ pc' = IF port = COM4 THEN "idle" ELSE "init"

InitRefused ==
  /\ pc = "init"
  /\ \E c \in Configs : ~ParamsOK(port, c)
  /\ NextInit
  /\ UNCHANGED <<uart, latched, isr, up, intr, got>>

\* Interrupts off, parameters, FIFOs on and cleared.
InitPort ==
  /\ pc = "init"
  /\ \E c \in Configs : ParamsOK(port, c) /\ SetParams(port, c)
  /\ fifo' = [fifo EXCEPT ![port] = <<>>]
  /\ timedOut' = [timedOut EXCEPT ![port] = FALSE]
  /\ pc' = "self_test"
  /\ UNCHANGED <<events, looped, signals, isr, port, up, intr, got>>
  /\ Watched

TestValues == {255, 240, 15, 204, 51, 170, 85}

\* A UART that sends to itself keeps as much of a byte as its characters hold.
BackFrom(p, value) == value % (2 ^ (5 + (line[p] % 4)))

\* SER_perform_port_self_test: what is sent must come back as it was, and does
\* not from characters shorter than a byte, or if another byte has come in since
\* the FIFO was cleared; then the port stays in loop-back mode.
SelfTest ==
  /\ pc = "self_test"
  /\ ReadLineStatus(port)
  /\ IF ~CanReceive(port) /\ \A v \in TestValues : BackFrom(port, v) = v
     THEN pc' = "drain" /\ UNCHANGED <<fifo, timedOut, looped, port>>
     ELSE NextInit /\ ReadByte(port) /\ looped' = [looped EXCEPT ![port] = TRUE]
  /\ UNCHANGED <<enabled, line, signals, holding, isr, up, intr, got>>
  /\ Watched

\* Bytes are thrown away, and when there are none interrupts are enabled.
Drain ==
  /\ pc = "drain"
  /\ ReadLineStatus(port)
  /\ IF CanReceive(port)
     THEN ReadByte(port) /\ UNCHANGED <<enabled, pc>>
     ELSE /\ enabled' = [enabled EXCEPT ![port] = {"bytes", "line", "modem"}]
          /\ pc' = "drain_again"
          /\ UNCHANGED <<fifo, timedOut>>
  /\ UNCHANGED <<line, looped, signals, holding, isr, port, up, intr, got>>
  /\ Watched

\* And once more, now beside the handler, which may take the byte first.
DrainAgain ==
  /\ pc = "drain_again"
  /\ ReadLineStatus(port)
  /\ IF CanReceive(port)
     THEN pc' = "drain_byte" /\ UNCHANGED <<port, up>>
     ELSE NextInit /\ up' = up \cup {port}
  /\ UNCHANGED <<fifo, timedOut, enabled, line, looped, signals, holding, isr, intr, got>>
  /\ Watched

DrainByte ==
  /\ pc = "drain_byte"
  /\ ReadByte(port)
  /\ pc' = "drain_again"
  /\ UNCHANGED <<events, enabled, line, looped, signals, holding, isr, port, up, intr, got>>
  /\ Watched

-----------------------------------------------------------------------------
(* Reading: the program reads a port again and again, waiting or not.      *)

AsyncReceive ==
  /\ pc = "idle"
  /\ port' \in up
  /\ pc' \in {"check", "receive"}
  /\ UNCHANGED <<uart, latched, isr, up, intr, got>>

\* SER_wait_data_available: looks with interrupts off, and leaves them off if
\* there is nothing.
Check ==
  /\ pc = "check"
  /\ IF buffer[port] = <<>>
     THEN pc' = "sti" /\ intr' = FALSE
     ELSE pc' = "receive" /\ UNCHANGED intr
  /\ UNCHANGED <<uart, latched, isr, port, up, got>>

\* Halts with interrupts off.
Sti_Slip ==
  /\ pc = "sti"
  /\ pc' = "hlt" /\ UNCHANGED intr
  /\ UNCHANGED <<uart, latched, isr, port, up, got>>

Sti ==
  /\ pc = "sti"
  /\ pc' = "hlt" /\ intr' = TRUE
  /\ UNCHANGED <<uart, latched, isr, port, up, got>>

Hlt ==
  /\ pc = "hlt"
  /\ pc' = "halted"
  /\ UNCHANGED <<uart, latched, isr, port, up, intr, got>>

Smaller(m, n) == IF m < n THEN m ELSE n

\* The rest of SER_async_receive, with interrupts off from its look at the
\* index to its end.  A read of everything leaves the index as it is.
Receive ==
  /\ pc = "receive"
  /\ \E size \in ReadSizes :
       LET index == Len(buffer[port])
           i == Smaller(size, index)
       IN /\ got' = [got EXCEPT ![port] = @ \cup {buffer[port][k] : k \in 1..i}]
          /\ buffer' = IF i < index
                       THEN [buffer EXCEPT ![port] = SubSeq(@, i + 1, index)]
                       ELSE buffer
  /\ pc' = "idle"
  /\ UNCHANGED <<uart, latched, handler, taken, refused, port, up, intr>>

-----------------------------------------------------------------------------
(* Sending: the program looks at the UART itself, beside the handler.      *)

\* SER_wait_transmit_byte and SER_try_transmit_byte: the one looks until there
\* is room, the other once.  The look takes line errors from the handler.
StartTransmit ==
  /\ pc = "idle"
  /\ port' \in up
  /\ pc' \in {"transmit", "try_transmit"}
  /\ UNCHANGED <<uart, latched, isr, up, intr, got>>

Transmit(place, refusal) ==
  /\ pc = place
  /\ ReadLineStatus(port)
  /\ IF CanTransmit(port)
     THEN pc' = "idle" /\ holding' = holding \cup {port}
     ELSE pc' = refusal /\ UNCHANGED holding
  /\ UNCHANGED <<fifo, timedOut, enabled, line, looped, signals, isr, port, up, intr, got>>
  /\ Watched

WaitTransmit == Transmit("transmit", "transmit")
TryTransmit == Transmit("try_transmit", "idle")

-----------------------------------------------------------------------------

\* After SER_init.
Init ==
  /\ fifo = [p \in Ports |-> <<>>] /\ timedOut = [p \in Ports |-> FALSE]
  /\ events = [p \in Ports |-> {}] /\ enabled = [p \in Ports |-> {}]
  /\ line = [p \in Ports |-> 0] /\ looped = [p \in Ports |-> FALSE] /\ signals = [p \in Ports |-> 0] /\ holding = {}
  /\ latched = {} /\ handler = NoHandler
  /\ buffer = [p \in Ports |-> <<>>] /\ taken = [p \in Ports |-> {}] /\ refused = {}
  /\ pc = "init" /\ port = COM1 /\ up = {} /\ intr = TRUE /\ got = [p \in Ports |-> {}]

Outside == \E p \in Ports : Arrive(p) \/ ModemSignal(p) \/ CharacterTimeout(p) \/ Shift(p)

Handler == Poll \/ ReadBytes

\* The program runs when no interrupt is being handled.
Main ==
  /\ ~Handling
  /\ \/ InitRefused \/ InitPort \/ SelfTest \/ Drain \/ DrainAgain \/ DrainByte
     \/ AsyncReceive \/ Check \/ Sti \/ Hlt \/ Receive
     \/ StartTransmit \/ WaitTransmit \/ TryTransmit

Next == Outside \/ (\E i \in Irqs : Accept(i)) \/ Tick \/ Handler \/ Main

\* A UART's timeout runs out and its byte goes out; the processor takes a request
\* at the first instruction that finds interrupts on, and goes on with handler
\* and program; the timer runs.
Fairness ==
  /\ \A p \in Ports : WF_vars(CharacterTimeout(p)) /\ WF_vars(Shift(p))
  /\ \A i \in Irqs : SF_vars(Accept(i))
  /\ WF_vars(Handler) /\ WF_vars(Main) /\ WF_vars(Tick)

Spec == Init /\ [][Next]_vars /\ Fairness

-----------------------------------------------------------------------------

Bytes(p) == 1..MaxSignals[p]

\* FIFOs and buffers hold no more than there is room for, in the order in which
\* the bytes arrived; the handler runs with a port to serve.
TypeOK ==
  /\ \A p \in Ports :
       /\ fifo[p] \in Seq(Bytes(p)) /\ Len(fifo[p]) <= FifoSize
       /\ buffer[p] \in Seq(Bytes(p)) /\ Len(buffer[p]) <= BufferSize
       /\ events[p] \subseteq {"sent", "line", "modem"} /\ signals[p] \in 0..MaxSignals[p]
       /\ taken[p] \subseteq Bytes(p) /\ got[p] \subseteq Bytes(p)
  /\ timedOut \in [Ports -> BOOLEAN] /\ enabled \in [Ports -> SUBSET {"bytes", "sent", "line", "modem"}]
  /\ line \in [Ports -> 0..63] /\ looped \in [Ports -> BOOLEAN]
  /\ holding \subseteq Ports /\ latched \subseteq Irqs /\ refused \subseteq Ports /\ up \subseteq Ports
  /\ handler.reading => handler.ports # <<>> /\ Head(handler.ports) \in Ports
  /\ pc \in {"init", "self_test", "drain", "drain_again", "drain_byte",
             "idle", "check", "sti", "hlt", "halted", "receive",
             "transmit", "try_transmit"}
  /\ port \in COM1..(COM4 + 1) /\ intr \in BOOLEAN

Kept(p) == {buffer[p][k] : k \in 1..Len(buffer[p])}

\* What the handler has taken from a UART is never lost: it has been read or is
\* in the buffer, what was dropped from the buffer is older than all that is in
\* it, and the buffer is in the order of arrival.  (A byte may be read twice.)
NothingTakenIsLost ==
  \A p \in Ports :
    /\ taken[p] = got[p] \cup Kept(p)
    /\ \A b \in got[p] \ Kept(p), c \in Kept(p) : b < c
    /\ \A k \in 2..Len(buffer[p]) : buffer[p][k - 1] < buffer[p][k]

\* Polled by its own interrupt, and sharing the line with no other port.
Served(p) ==
  /\ \A q \in Ports \ {p} : Irq(q) # Irq(p)
  /\ \E k \in 1..2 : Polled(Irq(p))[k] = p

\* Bytes do not stay in the UART of a port that is up and served, unless its
\* buffer has been full or another port's divisor has disabled its interrupt.
BytesAreTaken ==
  \A p \in Ports :
    Served(p) =>
      (p \in up /\ fifo[p] # <<>>
         ~> fifo[p] = <<>> \/ p \in refused \/ "bytes" \notin enabled[p])

\* A program that waits for a served port gets to read when a byte has come,
\* into the buffer or a UART whose interrupt is enabled for it, even if the interrupt came between its sti and
\* its hlt; and a wait to send a byte ends, whatever comes in meanwhile.
WaitEnds ==
  /\ (/\ pc \in {"sti", "hlt", "halted"}
      /\ buffer[port] # <<>>
           \/ (Served(port) /\ fifo[port] # <<>> /\ "bytes" \in enabled[port]))
       ~> pc = "receive"
  /\ pc = "transmit" ~> pc = "idle"
=============================================================================
