--------------------------- MODULE MC_SerialPort ----------------------------
EXTENDS SerialPort

\* What a program may ask for: a port that comes up so, whose divisor enables
\* COM1's interrupt for bytes; what a port cannot be tested with,
\* whose divisor enables COM1's for the sending of bytes only; and what a port
\* cannot be set to.
MCConfigs ==
  {[baud |-> 300, data_bits |-> 8, parity |-> 0, stop_bits |-> 1],
   [baud |-> 225, data_bits |-> 7, parity |-> 2, stop_bits |-> 2],
   [baud |-> 9600, data_bits |-> 9, parity |-> 0, stop_bits |-> 1]}

\* Whatever passes the check of the parameters, the bits written for it say it:
\* two for the length, one for the end, three for the parity.
ASSUME LineControlReads ==
  \A bits \in 5..8, parity \in 0..3, stop \in 1..2 :
    LET control == LineControl([data_bits |-> bits, parity |-> parity, stop_bits |-> stop])
    IN  /\ control % 4 = bits - 5 /\ (control \div 4) % 2 = stop - 1
        /\ control \div 8 = <<0, 1, 3, 5>>[parity + 1]

\* Enough for COM1's buffer to be full and a byte left in its UART.
MCSignals == [p \in Ports |-> IF p = COM1 THEN 3 ELSE 1]
=============================================================================
