------------------------------ MODULE VpnOutput ------------------------------
(***************************************************************************)
(* IPPacketOutputStream.java and forwardTunnelToDevice() of Forwarder.java: *)
(* the receiver cuts what it reads from the tunnel into packets and writes *)
(* each of them to the VPN interface.  The tunnel may be replaced between  *)
(* two reads (AndroidTunnel says when); the stream and its buffer are not. *)
(*                                                                         *)
(* A byte is a digit of base Base, so that a packet is shorter than        *)
(* Base^2 = MAX_IP_PACKET_LENGTH, as with the bytes of the code; the digit *)
(* Version4 stands for a first byte that holds IP version 4.               *)
(***************************************************************************)
EXTENDS Integers, Sequences, SequencesExt

CONSTANTS Base, Version4,
          Packets,       \* the packets the relay sends
          BUFSIZE,       \* most bytes of a read
          MaxPackets,    \* bound: packets sent over a tunnel
          MaxTunnels     \* bound: replacements of the tunnel

MAX_IP_PACKET_LENGTH == Base * Base

ASSUME VpnAssumption ==
  /\ Base \in Nat /\ Version4 \in 0 .. Base - 1
  /\ BUFSIZE \in 1 .. MAX_IP_PACKET_LENGTH
  /\ \A p \in Packets : /\ p \in Seq(0 .. Base - 1) /\ Len(p) >= 4
                        /\ p[1] = Version4 /\ Base * p[3] + p[4] = Len(p)

VARIABLES stream,    \* bytes of the current tunnel not yet read
          buffer,    \* the bytes of the ByteBuffer
          receiver,        \* "receive", "sink" (in write(), after flip()), or "dead"
          tunnels,
          sent,      \* history: packets sent over the current tunnel
          written,   \* history: what was written to the VPN since it is current
          cut        \* history: a tunnel broke within a packet

outputVars == <<stream, buffer, receiver, tunnels, sent, written, cut>>

Capacity == 2 * MAX_IP_PACKET_LENGTH

OutputInit == /\ stream = << >> /\ buffer = << >> /\ receiver = "receive" /\ tunnels = 0
        /\ sent = << >> /\ written = << >> /\ cut = FALSE

\* The relay sends a packet (external).
Send(p) == /\ Len(sent) < MaxPackets
           /\ stream' = stream \o p /\ sent' = Append(sent, p)
           /\ UNCHANGED <<buffer, receiver, tunnels, written, cut>>

\* PersistentRelayTunnel.receive() replaces the tunnel: what was not read is lost,
\* and the new one begins with a packet.
Reconnect == /\ receiver = "receive" /\ tunnels < MaxTunnels /\ tunnels' = tunnels + 1
             /\ stream' = << >> /\ sent' = << >> /\ written' = << >>
             /\ cut' = (cut \/ buffer # << >>)
             /\ UNCHANGED <<buffer, receiver>>

\* forwardTunnelToDevice(): a read of n bytes, and write() up to sink().  When the
\* buffer has no room the put() throws, and nobody catches it.
write(n) ==
  /\ receiver = "receive" /\ n <= Len(stream)
  /\ stream' = SubSeq(stream, n + 1, Len(stream))
  /\ IF n <= Capacity - Len(buffer)
     THEN buffer' = buffer \o SubSeq(stream, 1, n) /\ receiver' = "sink"
     ELSE UNCHANGED buffer /\ receiver' = "dead"
  /\ UNCHANGED <<tunnels, sent, written, cut>>

readPacketVersion == IF buffer = << >> THEN -1 ELSE buffer[1]
readPacketLength == Base * buffer[3] + buffer[4]

\* MUTANT: a packet that ends with the buffer is taken for a partial one.
HoldsPacket_strict == Len(buffer) >= 4 /\ readPacketLength < Len(buffer)
HoldsPacket == Len(buffer) >= 4 /\ readPacketLength <= Len(buffer)

\* sinkPacket(), and compact() when it finds no packet.  After a packet of another
\* version clear() makes the whole array readable and compact() keeps all of it:
\* the buffer is full of stale bytes, which nobody reads since every put() fails
\* from now on.  A length of 0 writes nothing and moves nothing: sink() never ends.  An
\* exception of the write to the VPN ends the receiver.
sinkPacket ==
  /\ receiver = "sink"
  /\ \/ /\ readPacketVersion = -1 \/ (readPacketVersion = Version4 /\ ~HoldsPacket)
        /\ receiver' = "receive" /\ UNCHANGED <<buffer, written>>
     \/ /\ readPacketVersion \notin {-1, Version4}
        /\ receiver' = "receive" /\ buffer' = [i \in 1 .. Capacity |-> 0] /\ UNCHANGED written
     \/ /\ readPacketVersion = Version4 /\ HoldsPacket
        /\ buffer' = SubSeq(buffer, readPacketLength + 1, Len(buffer))
        /\ written' = IF readPacketLength = 0 THEN written
                      ELSE Append(written, SubSeq(buffer, 1, readPacketLength))
        /\ UNCHANGED receiver
     \/ /\ readPacketVersion = Version4 /\ HoldsPacket
        /\ receiver' = "dead" /\ UNCHANGED <<buffer, written>>
  /\ UNCHANGED <<stream, tunnels, sent, cut>>

OutputNext == \/ \E p \in Packets : Send(p)
        \/ Reconnect \/ sinkPacket
        \/ \E n \in 1 .. BUFSIZE : write(n)

OutputSpec == OutputInit /\ [][OutputNext]_outputVars

-----------------------------------------------------------------------------
\* As long as no tunnel breaks within a packet, each write to the VPN is one packet
\* of the current tunnel, in order, and none is kept back ("Packets should be written
\* individually to the target", TestIPPacketOutputSteam.java); and "by design, the
\* buffer must always have enough space for one packet" (write()).  After a cut
\* packet neither holds: the framing is lost, and a byte that is no version 4 fills
\* the buffer for ever.
WritesWholePackets ==
  ~cut =>
    /\ IsPrefix(written, sent)
    /\ FlattenSeq(written) \o buffer \o stream = FlattenSeq(sent)
    /\ receiver = "receive" =>
         /\ stream = << >> => written = sent
         /\ Capacity - Len(buffer) >= MAX_IP_PACKET_LENGTH
=============================================================================
