-------------------------------- MODULE Cobs --------------------------------
(***************************************************************************)
(* serbootd/cobs_encoder.hpp and cobs_decoder.hpp: bytes are written in    *)
(* groups of a code and the bytes that are not zero, the code being one    *)
(* more than their number; the end of a group stands for a zero, except at *)
(* the end of the packet and after a group of the greatest code.           *)
(***************************************************************************)
EXTENDS Integers, Sequences

CONSTANT MaxCode    (* the greatest code (255) *)

ASSUME CobsAssumption == MaxCode \in Nat \ {0, 1}

COBS_MARK == 0

\* A group with the bytes ahead, appended to what has been written.
Flushed(s, code) == [buffer |-> s.buffer \o <<code>> \o s.ahead, ahead |-> <<>>]

\* Writes a full group with the code of a shorter one.
Write_Slip(s, value) ==
  LET t == [s EXCEPT !.ahead = Append(@, value)]
  IN  IF value = COBS_MARK THEN Flushed(s, Len(s.ahead) + 1)
      ELSE IF Len(t.ahead) = MaxCode - 1 THEN Flushed(t, Len(t.ahead)) ELSE t

Write(s, value) ==
  LET t == [s EXCEPT !.ahead = Append(@, value)]
  IN  IF value = COBS_MARK THEN Flushed(s, Len(s.ahead) + 1)
      ELSE IF Len(t.ahead) = MaxCode - 1 THEN Flushed(t, MaxCode) ELSE t

Done(s) == Append(Flushed(s, Len(s.ahead) + 1).buffer, COBS_MARK)

Encoded(bytes) ==
  LET after[i \in 0..Len(bytes)] ==
        IF i = 0 THEN [buffer |-> <<>>, ahead |-> <<>>] ELSE Write(after[i - 1], bytes[i])
  IN Done(after[Len(bytes)])

Undecodable == [ok |-> FALSE, bytes |-> <<>>]

\* decode_packet: the packet in the bytes before a mark.
Decoded(bytes) ==
  LET from[i \in 1..(Len(bytes) + 1)] ==
        IF i > Len(bytes) THEN [ok |-> TRUE, bytes |-> <<>>]
        ELSE LET next == i + bytes[i]
                 zero == IF bytes[i] < MaxCode /\ next <= Len(bytes) THEN <<COBS_MARK>> ELSE <<>>
                 rest == from[next]
             IN  IF next > Len(bytes) + 1 THEN Undecodable
                 ELSE IF ~rest.ok THEN Undecodable
                 ELSE [ok |-> TRUE, bytes |-> SubSeq(bytes, i + 1, next - 1) \o zero \o rest.bytes]
  IN from[1]
=============================================================================
