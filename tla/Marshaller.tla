------------------------------ MODULE Marshaller ------------------------------
(***************************************************************************)
(* CPPNinjaMonkey's NetworkPacketMarshaller: packets written to a byte      *)
(* stream by one end's Send and cut out of it by the other end's Receive.   *)
(*                                                                         *)
(* Each end writes a byte order mark once and then, for each packet, its     *)
(* length, type and data.  TCP, which is external, keeps the bytes in order  *)
(* and may hand over any part of what has arrived; the connection may be     *)
(* closed or reset anywhere.  A byte is a record of the packet it belongs    *)
(* to (0 for the mark) and its place there; a header's value is the length   *)
(* that was sent.  Both ends have the same byte order, and                  *)
(* NetworkEndian::Swap is the identity, as it is unless BOOST_LITTLE_ENDIAN  *)
(* is defined.                                                             *)
(***************************************************************************)
EXTENDS Naturals, Sequences

CONSTANTS
    Lengths,     \* the data lengths of the packets that are sent
    MaxPackets,  \* bound: packets sent
    MarkSize,    \* 4 bytes in the code
    HeaderSize,  \* PACKET_HEADER_SIZE: 8 bytes in the code
    BufferSize   \* MAX_PACKET_LENGTH: 32768 bytes in the code

ASSUME SizesAssumption ==
    {MarkSize, HeaderSize, BufferSize} \subseteq Nat \ {0}
ASSUME LengthsAssumption ==
    Lengths \subseteq Nat /\ \A n \in Lengths : HeaderSize + n <= BufferSize
ASSUME MaxPacketsAssumption == MaxPackets \in Nat

VARIABLES
    loginSent, \* m_bLoginSent of the sender
    sent,      \* the lengths of the packets given to Send while connected
    wire,      \* the bytes on their way
    link,      \* up; closed by the sender, orderly; reset
    reader,    \* where Receive is: before the read of the mark or of its
               \* loop, cutting packets; ended, or stopped by its assertion
    buffer,    \* what is left in aBuf from pPacketStart on
    received,  \* receivedPackets, as the bytes of the packets
    delivered  \* the packets passed to m_packetsReceived so far

vars == <<loginSent, sent, wire, link, reader, buffer, received, delivered>>

Byte == [packet : 0 .. MaxPackets, at : Nat]

Mark == [k \in 1 .. MarkSize |-> [packet |-> 0, at |-> k]]

(* What Send writes for packet number i of data length n.                   *)
PacketBytes(i, n) ==
    [k \in 1 .. HeaderSize + n |-> [packet |-> i, at |-> k]]

TypeOK ==
    /\ loginSent \in BOOLEAN
    /\ sent \in Seq(Lengths)
    /\ wire \in Seq(Byte)
    /\ link \in {"up", "closed", "reset"}
    /\ reader \in {"mark", "loop", "cut", "ended", "asserted"}
    /\ buffer \in Seq(Byte)
    /\ received \in Seq(Seq(Byte))
    /\ delivered \in Seq(Seq(Byte))

Init ==
    /\ loginSent = FALSE
    /\ sent = << >>
    /\ wire = << >>
    /\ link = "up"
    /\ reader = "mark"
    /\ buffer = << >>
    /\ received = << >>
    /\ delivered = << >>

Prefix(bytes, n) == SubSeq(bytes, 1, n)
After(bytes, n) == SubSeq(bytes, n + 1, Len(bytes))
Least(m, n) == IF m <= n THEN m ELSE n

-----------------------------------------------------------------------------
(* Send of a packet: the mark before the first, then the packet.  A Write    *)
(* that fails in the middle disconnects the socket: only a part is written.  *)
Send(n, written) ==
    LET bytes == (IF loginSent THEN << >> ELSE Mark)
                     \o PacketBytes(Len(sent) + 1, n)
    IN  /\ link = "up"
        /\ Len(sent) < MaxPackets
        /\ written \in 0 .. Len(bytes)
        /\ sent' = Append(sent, n)
        /\ wire' = wire \o Prefix(bytes, written)
        /\ link' = IF written = Len(bytes) THEN "up" ELSE "closed"
        /\ loginSent' = TRUE
        /\ UNCHANGED <<reader, buffer, received, delivered>>

(* External: the sender's end is closed, or the connection is reset and what *)
(* has not been read is lost.                                              *)
Close ==
    /\ link = "up"
    /\ link' = "closed"
    /\ UNCHANGED <<loginSent, sent, wire, reader, buffer, received, delivered>>

Reset ==
    /\ link # "reset"
    /\ link' = "reset"
    /\ wire' = << >>
    /\ UNCHANGED <<loginSent, sent, reader, buffer, received, delivered>>

-----------------------------------------------------------------------------
(* How many bytes recv may return for a buffer with this much room: 0 means  *)
(* that the connection was closed in an orderly way.                        *)
Readable(room) ==
    IF wire = << >>
    THEN IF link = "closed" THEN {0} ELSE {}
    ELSE 1 .. Least(room, Len(wire))

(* Receive reads the mark with one Read and asserts on it.                   *)
ReadMark(n) ==
    /\ reader = "mark"
    /\ n \in Readable(MarkSize)
    /\ wire' = After(wire, n)
    /\ reader' = IF Prefix(wire, n) = Mark THEN "loop" ELSE "asserted"
    /\ UNCHANGED <<loginSent, sent, link, buffer, received, delivered>>

(* One Read into the rest of the buffer, behind what is left there.          *)
Read(n) ==
    /\ reader = "loop"
    /\ n \in Readable(BufferSize - Len(buffer))
    /\ wire' = After(wire, n)
    /\ buffer' = buffer \o Prefix(wire, n)
    /\ reader' = "cut"
    /\ UNCHANGED <<loginSent, sent, link, received, delivered>>

(* nPacketLength: a header that is there tells the length of its packet.     *)
PacketLength(bytes) == HeaderSize + sent[bytes[1].packet]

(* Faulty: a packet is complete only when more bytes follow it.             *)
CompleteLate(bytes) ==
    Len(bytes) >= HeaderSize /\ Len(bytes) > PacketLength(bytes)

(* The packet at pPacketStart is there with its header and all its data.     *)
Complete(bytes) ==
    Len(bytes) >= HeaderSize /\ Len(bytes) >= PacketLength(bytes)

(* It is copied to receivedPackets, and pPacketStart moves behind it.        *)
CutPacket ==
    /\ reader = "cut"
    /\ Complete(buffer)
    /\ received' = Append(received, Prefix(buffer, PacketLength(buffer)))
    /\ buffer' = After(buffer, PacketLength(buffer))
    /\ UNCHANGED <<loginSent, sent, wire, link, reader, delivered>>

(* Faulty: what remains of an incomplete packet is not kept.                 *)
DeliverForgets ==
    /\ reader = "cut"
    /\ ~Complete(buffer)
    /\ delivered' = delivered \o received
    /\ received' = << >>
    /\ buffer' = << >>
    /\ reader' = "loop"
    /\ UNCHANGED <<loginSent, sent, wire, link>>

(* What remains is moved to the start of aBuf, the packets are delivered.    *)
Deliver ==
    /\ reader = "cut"
    /\ ~Complete(buffer)
    /\ delivered' = delivered \o received
    /\ received' = << >>
    /\ reader' = "loop"
    /\ UNCHANGED <<loginSent, sent, wire, link, buffer>>

(* Faulty: an error takes Receive into a state nobody expects.               *)
ReadErrorLost ==
    /\ reader \in {"mark", "loop"}
    /\ link = "reset"
    /\ reader' = "error"
    /\ UNCHANGED <<loginSent, sent, wire, link, buffer, received, delivered>>

(* READ_ERROR: a DISCONNECT packet is delivered and Receive returns.         *)
ReadError ==
    /\ reader \in {"mark", "loop"}
    /\ link = "reset"
    /\ reader' = "ended"
    /\ UNCHANGED <<loginSent, sent, wire, link, buffer, received, delivered>>

Receive ==
    \/ \E n \in 0 .. MarkSize : ReadMark(n)
    \/ \E n \in 0 .. BufferSize : Read(n)
    \/ CutPacket \/ Deliver
    \/ ReadError

Next ==
    \/ \E n \in Lengths : \E written \in 0 .. MarkSize + HeaderSize + n :
          Send(n, written)
    \/ Close \/ Reset
    \/ Receive

Spec == Init /\ [][Next]_vars

(* recv returns when there is something to return.                          *)
FairSpec == Spec /\ WF_vars(Receive)

-----------------------------------------------------------------------------
(* However the stream is cut into reads, the packets delivered are those     *)
(* sent, whole, in order, none skipped and none made up (Receive's loop).    *)
PacketsIntact ==
    /\ Len(delivered) <= Len(sent)
    /\ \A i \in DOMAIN delivered : delivered[i] = PacketBytes(i, sent[i])

(* There is always room to read the packet that is incomplete: a Read with   *)
(* no room left would return 0 and the loop would spin for ever.            *)
RoomToRead == reader = "loop" => Len(buffer) < BufferSize

(* A packet that was sent is delivered, unless the connection ends: the      *)
(* receiver never waits for bytes it already has.                           *)
PacketsArrive ==
    \A i \in 1 .. MaxPackets :
        (Len(sent) >= i) ~>
            (Len(delivered) >= i \/ link # "up" \/ reader = "asserted")
=============================================================================
