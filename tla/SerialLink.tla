----------------------------- MODULE SerialLink -----------------------------
(***************************************************************************)
(* serbootd/packet_io_win32.cpp: one end sends packets, the other receives *)
(* them in a loop that goes on after every error (server_main.cpp).  Each  *)
(* is framed: a signature, its size in 16 bits, its checksum and its bytes *)
(* are encoded and ended with a zero.  The line may lose a byte, a write   *)
(* may time out having written a part, a receive may time out half way.    *)
(* The other direction of a link is another one of the same kind.          *)
(*                                                                         *)
(* Signature, size and checksum are one byte each, and a byte is any       *)
(* number: a packet's bytes may be what a frame begins with, checksum      *)
(* included.  Definitions ending in _Slip are used by no specification.    *)
(***************************************************************************)
EXTENDS Cobs

CONSTANTS
  Data,         (* the packets to choose from: sequences of bytes          *)
  SizeLimit,    (* sizes are sent modulo it, larger packets split (2^16)   *)
  LineSize,     (* bytes on the line at a time                             *)
  MaxPackets,   (* bound: packets sent                                     *)
  MaxFaults     (* bound: bytes lost, writes and receives timed out        *)

Signature == 2

ASSUME LinkAssumption ==
  /\ \A d \in Data : d \in Seq(Nat) /\ d # <<>>
  /\ SizeLimit \in Nat \ {0} /\ LineSize \in Nat \ {0}
  /\ MaxPackets \in Nat /\ MaxFaults \in Nat

VARIABLES
  packets,    (* the packets given to send, in order                       *)
  sending,    (* whether the last of them is being sent                    *)
  timed,      (* whether with a timeout                                    *)
  pieces,     (* what is left to send of a packet that has been split      *)
  ended,      (* whether the program of the sender has come to an end      *)
  written,    (* bytes of its frame written by this call of send_bytes     *)
  line,       (* bytes on the line, each with the packet it belongs to     *)
  temp,       (* the bytes recv has got                                    *)
  got,        (* the packets recv has returned, each with the one its end  *)
              (* belongs to                                                *)
  faults,     (* how many faults there have been                           *)
  hurt        (* auxiliary: packets that a fault has done something to     *)

sender == <<packets, sending, timed, pieces, ended, written>>
vars == <<sender, line, temp, got, faults, hurt>>

\* A number that is never zero and tells the contents in use from each other.
Checksum(d) ==
  LET sum[i \in 0..Len(d)] == IF i = 0 THEN 16 ELSE 3 * sum[i - 1] + d[i] + 1
  IN sum[Len(d)]

\* packet_buffer::split into pieces of the limit.
Split(d) ==
  [i \in 1..(Len(d) \div SizeLimit) |-> SubSeq(d, (i - 1) * SizeLimit + 1, i * SizeLimit)]

\* What is sent in one frame: small packets, and the pieces of large ones.
Small == {d \in Data : Len(d) <= SizeLimit}
Sendable == Small \cup UNION {{Split(d)[i] : i \in DOMAIN Split(d)} : d \in Data \ Small}

Frame == [d \in Sendable |-> Encoded(<<Signature, Len(d) % SizeLimit, Checksum(d)>> \o d)]

Current == Len(packets)

Init ==
  /\ packets = <<>> /\ sending = FALSE /\ timed = FALSE /\ pieces = <<>> /\ ended = FALSE /\ written = 0
  /\ line = <<>> /\ temp = <<>> /\ got = <<>>
  /\ faults = 0 /\ hurt = {}

Fault(whom) ==
  /\ faults < MaxFaults
  /\ faults' = faults + 1
  /\ hurt' = hurt \cup whom

-----------------------------------------------------------------------------
(* send.                                                                   *)

CanSend == ~sending /\ ~ended /\ Len(packets) < MaxPackets

Send ==
  /\ CanSend /\ pieces = <<>>
  /\ \E d \in Small : packets' = Append(packets, d)
  /\ sending' = TRUE /\ timed' = TRUE /\ written' = 0
  /\ UNCHANGED <<pieces, ended, line, temp, got, faults, hurt>>

\* A packet above the limit.  If pieces do not fill it the last one is cut from
\* beyond its end, and the sender goes no further.
SendLarge ==
  /\ CanSend /\ pieces = <<>>
  /\ \E d \in Data \ Small :
       \/ Len(d) % SizeLimit = 0 /\ pieces' = Split(d) /\ UNCHANGED ended
       \/ Len(d) % SizeLimit # 0 /\ ended' = TRUE /\ UNCHANGED pieces
  /\ UNCHANGED <<packets, sending, timed, written, line, temp, got, faults, hurt>>

\* Pieces are sent without a timeout.
SendPiece ==
  /\ CanSend /\ pieces # <<>>
  /\ packets' = Append(packets, Head(pieces))
  /\ pieces' = Tail(pieces)
  /\ sending' = TRUE /\ timed' = FALSE /\ written' = 0
  /\ UNCHANGED <<ended, line, temp, got, faults, hurt>>

\* send_bytes goes on for as long as there is room.
WriteByte ==
  /\ sending /\ written < Len(Frame[packets[Current]]) /\ Len(line) < LineSize
  /\ written' = written + 1
  /\ line' = Append(line, [byte |-> Frame[packets[Current]][written'], of |-> Current])
  /\ UNCHANGED <<packets, sending, timed, pieces, ended, temp, got, faults, hurt>>

\* One call of send_bytes has written everything.
Sent ==
  /\ sending /\ written = Len(Frame[packets[Current]])
  /\ sending' = FALSE
  /\ UNCHANGED <<packets, timed, pieces, ended, written, line, temp, got, faults, hurt>>

\* send_bytes times out: the frame is begun again, behind what is written.
WriteAgain ==
  /\ sending /\ timed /\ written \in 1..(Len(Frame[packets[Current]]) - 1)
  /\ written' = 0
  /\ Fault({Current})
  /\ UNCHANGED <<packets, sending, timed, pieces, ended, line, temp, got>>

\* And so does send, with a part of the frame written or nothing.
SendTimeout ==
  /\ sending /\ timed /\ written < Len(Frame[packets[Current]])
  /\ sending' = FALSE
  /\ Fault({Current} \cup (IF written > 0 \/ Current \in hurt THEN {Current + 1} ELSE {}))
  /\ UNCHANGED <<packets, timed, pieces, ended, written, line, temp, got>>

-----------------------------------------------------------------------------
(* The line.                                                               *)

\* The packet whose bytes come behind the byte at the head, the last of n.
Behind(n) ==
  IF Len(line) > 1 THEN line[2].of
  ELSE IF sending /\ Current > n THEN Current ELSE Current + 1

LoseByte ==
  /\ line # <<>>
  /\ line' = Tail(line)
  /\ LET n == Head(line).of
     IN Fault({n} \cup (IF Head(line).byte = COBS_MARK THEN {Behind(n)} ELSE {}))
  /\ UNCHANGED <<sender, temp, got>>

-----------------------------------------------------------------------------
(* recv.                                                                   *)

\* Looks at signature and size alone.
Accepted_Slip(p) ==
  /\ p.ok /\ Len(p.bytes) >= 3
  /\ p.bytes[1] = Signature
  /\ p.bytes[2] = Len(p.bytes) - 3

Accepted(p) ==
  /\ p.ok /\ Len(p.bytes) >= 3
  /\ p.bytes[1] = Signature
  /\ p.bytes[2] = Len(p.bytes) - 3
  /\ p.bytes[3] = Checksum(SubSeq(p.bytes, 4, Len(p.bytes)))

\* recv_bytes
TakeByte == line # <<>> /\ line' = Tail(line)

\* A byte is read; a zero ends the packet, which is returned or makes recv
\* fail, and the next recv starts with nothing.
ReceiveByte ==
  /\ TakeByte
  /\ IF Head(line).byte # COBS_MARK
     THEN temp' = Append(temp, Head(line)) /\ UNCHANGED got
     ELSE LET p == Decoded([i \in DOMAIN temp |-> temp[i].byte])
          IN /\ temp' = <<>>
             /\ got' = IF Accepted(p)
                       THEN Append(got, [of |-> Head(line).of, data |-> SubSeq(p.bytes, 4, Len(p.bytes))])
                       ELSE got
  /\ UNCHANGED <<sender, faults, hurt>>

\* recv times out and throws away what it has.
RecvTimeout ==
  /\ temp # <<>>
  /\ temp' = <<>>
  /\ Fault({temp[i].of : i \in DOMAIN temp})
  /\ UNCHANGED <<sender, line, got>>

-----------------------------------------------------------------------------

Next ==
  \/ Send \/ SendLarge \/ SendPiece \/ WriteByte \/ Sent \/ WriteAgain \/ SendTimeout
  \/ LoseByte \/ ReceiveByte \/ RecvTimeout

Spec == Init /\ [][Next]_vars

-----------------------------------------------------------------------------

\* A packet nobody sent: of one that a fault was done to recv has got the end,
\* after it has thrown the first part away or the line has lost it, and what is
\* left is a frame of its own, its checksum among the bytes of what was sent.
\* Nothing but the marks tells recv where frames begin.
Forged(p) ==
  /\ p.of \in hurt
  /\ \E n \in 1..p.of : \E i \in DOMAIN packets[n] : packets[n][i] = Checksum(p.data)

\* What recv returns are packets that were sent, unchanged, in the order in which
\* they were sent and none of them twice, whatever is lost, cut short or repeated
\* on the way; but for what a fault makes of a packet that has a frame in it.
InOrderOnce ==
  LET sound == {i \in DOMAIN got : ~Forged(got[i])}
  IN  \E sent \in [sound -> DOMAIN packets] :
        /\ \A i \in sound : got[i].data = packets[sent[i]]
        /\ \A i, j \in sound : i < j => sent[i] < sent[j]

\* Every packet has arrived, once it is sent and read, that no fault was done
\* to, unchanged and in its place: a fault takes the packet it hits and, if that is
\* left without its end, the one behind it, but no more.  A packet of 2^16 bytes
\* never arrives, as its size is sent as zero, and so no piece of a larger one does.
UnhurtArrive ==
  /\ \A n \in 1..Current \ hurt :
       /\ n < Current \/ ~sending
       /\ \A i \in DOMAIN line : line[i].of # n
       /\ Len(packets[n]) # SizeLimit
       => \E i \in DOMAIN got : got[i] = [of |-> n, data |-> packets[n]]
  /\ \A i \in 2..Len(got) : got[i - 1].of < got[i].of
=============================================================================
