------------------------------ MODULE PacketPath ----------------------------
(***************************************************************************)
(* The way of packets through the relay: relay/byte_buffer.rs and          *)
(* ipv4_packet_buffer.rs cut the stream of the tunnel into packets,        *)
(* packetizer.rs puts the headers of the first packet of a connection,     *)
(* mirrored, in front of what the network sends back.                      *)
(***************************************************************************)
EXTENDS Headers, SequencesExt

CONSTANTS Streams,            \* the sequences of packets a device may send
          Payloads,           \* what the network sends back
          Numbers, Flags,     \* sequence numbers and TCP flags of the answers
          MAX_PACKET_LENGTH

\* The length of the transport header of an answer: no option is left.
AnswerHeader(protocol) == IF protocol = "Tcp" THEN 20 ELSE UDP_HEADER_LENGTH

\* What the IP stack of a device sends: the lengths of the headers are those of the packet.
WellFormed(raw) ==
  LET ip == Ipv4HeaderData(raw)
      rest == bytes(raw, ip.header_length, Len(raw))
  IN  /\ Len(raw) >= 20 /\ ip.version = 4 /\ ip.total_length = Len(raw)
      /\ ip.header_length >= 20 /\ ip.header_length <= Len(raw)
      /\ ip.protocol # "Other" => Len(rest) >= AnswerHeader(ip.protocol)
      /\ ip.protocol = "Tcp" => TcpHeaderData(rest).header_length \in 20 .. Len(rest)

\* A payload fits in the 16 bits of a length: it is limited by MAX_PAYLOAD_LENGTH, or it
\* is a datagram of a socket and there are no IP options.
Answerable(raw, payload) ==
  LET ip == Ipv4HeaderData(raw)
  IN  ip.header_length + AnswerHeader(ip.protocol) + Len(payload) <= 65535

ASSUME PathAssumption ==
  /\ Streams \subseteq Seq(Seq(Byte)) /\ MAX_PACKET_LENGTH \in Nat
  /\ \A s \in Streams : \A i \in DOMAIN s :
       /\ WellFormed(s[i]) /\ Len(s[i]) <= MAX_PACKET_LENGTH
       /\ \A payload \in Payloads : Answerable(s[i], payload)
  /\ Payloads \subseteq Seq(Byte) /\ Numbers \subseteq u16 \X u16 /\ Flags \subseteq 0 .. 511

VARIABLES sent,         \* the packets of the device
          stream,       \* the bytes of the tunnel not yet read
          buf,          \* the ByteBuffer, up to its head
          delivered,    \* the packets handed to the router
          reference,    \* the packet that created the connection, or << >>
          packetizer,   \* its Packetizer; its payload is the one of the last build
          out,          \* the last packet built
          closed        \* a read of 0 bytes was taken for EOF

vars == <<sent, stream, buf, delivered, reference, packetizer, out, closed>>

TypeOK == /\ buf \in Seq(Byte) /\ Len(buf) <= MAX_PACKET_LENGTH
          /\ stream \in Seq(Byte) /\ out \in Seq(Byte) /\ closed \in BOOLEAN
          /\ delivered \in Seq(Seq(Byte))

Init == /\ sent \in Streams /\ stream = FlattenSeq(sent)
        /\ buf = << >> /\ delivered = << >> /\ reference = << >>
        /\ packetizer = << >> /\ out = << >> /\ closed = FALSE

-----------------------------------------------------------------------------
\* peek_version_length() needs 4 bytes.
has_packet(b) == Len(b) >= 4 /\ read_u16(b, 2) <= Len(b)

\* consume() moves the rest to the front.
consume(b, n) == bytes(b, n, Len(b))

\* One round of the loop of push_to_network(), if there is one more.
push(s) ==
  IF has_packet(s.rest)
    THEN LET n == read_u16(s.rest, 2)
         IN  [packets |-> Append(s.packets, bytes(s.rest, 0, n)), rest |-> consume(s.rest, n)]
    ELSE s

\* push_to_network(): every full packet of the buffer.
\* MUTANT: one packet for each read.
push_to_network_once(b) ==
  IF has_packet(b) THEN [packets |-> <<bytes(b, 0, read_u16(b, 2))>>,
                         rest |-> consume(b, read_u16(b, 2))]
  ELSE [packets |-> << >>, rest |-> b]
push_to_network(b) ==
  LET round[k \in 0 .. Len(b)] == IF k = 0 THEN [packets |-> << >>, rest |-> b]
                                            ELSE push(round[k - 1])
  IN  round[Len(b)]    \* more rounds than packets

\* The buffer of Ipv4PacketBuffer::new().
buffer_length == MAX_PACKET_LENGTH

\* A read takes some of what the tunnel holds, as far as the buffer has room;
\* no byte read means EOF.
process_receive(n) ==
  /\ ~closed /\ stream # << >>
  /\ n <= Len(stream) /\ n <= buffer_length - Len(buf)
  /\ n = 0 => Len(buf) = buffer_length
  /\ LET pushed == push_to_network(buf \o bytes(stream, 0, n))
     IN buf' = pushed.rest /\ delivered' = delivered \o pushed.packets
  /\ stream' = bytes(stream, n, Len(stream))
  /\ closed' = (n = 0)
  /\ UNCHANGED <<sent, reference, packetizer, out>>

-----------------------------------------------------------------------------
\* Packetizer::new(): a copy of the reference headers, mirrored.
\* MUTANT: the ports are not swapped.
new_unmirrored(p) == [ipv4_header |-> swap_addresses(p.ipv4_header),
                      transport_header |-> p.transport_header, payload |-> << >>]
new(p) == [ipv4_header |-> swap_addresses(p.ipv4_header),
           transport_header |-> swap_ports(p.transport_header), payload |-> << >>]

\* TcpConnection::create() first shrinks the header to 20 bytes, no options.
shrinked(h) == shrink_options([h EXCEPT !.raw = bytes(@, 0, 20)])

\* A packet of a new connection creates its packetizer.
create(raw) ==
  /\ ~closed /\ is_valid(raw) /\ reference = << >>
  /\ reference' = raw
  /\ LET p == Ipv4Packet(raw)
     IN packetizer' = IF p.transport_header.data.protocol = "Tcp"
                      THEN new([p EXCEPT !.transport_header = shrinked(@)]) ELSE new(p)
  /\ UNCHANGED <<sent, stream, buf, delivered, out, closed>>

total_length(p, payload) ==
  (Len(p.ipv4_header.raw) + Len(p.transport_header.raw) + Len(payload)) % 65536

build(p, payload) ==
  compute_checksums(
    [ipv4_header |-> set_total_length(p.ipv4_header, total_length(p, payload)),
     transport_header |-> set_payload_length(p.transport_header, Len(payload)),
     payload |-> payload])

update_headers(p, seq, ack, flags) ==
  [p EXCEPT !.transport_header =
     set_flags(set_acknowledgement_number(set_sequence_number(@, seq), ack), flags)]

Built(p, payload) ==
  /\ packetizer' = build(p, payload) /\ out' = raw_of(packetizer')
  /\ UNCHANGED <<sent, stream, buf, delivered, reference, closed>>

IsTcp == reference # << >> /\ packetizer.transport_header.data.protocol = "Tcp"
IsUdp == reference # << >> /\ packetizer.transport_header.data.protocol = "Udp"

\* TCP: data read from the stream (never empty), or an empty packet.
packetize_read(payload, seq, ack, flags) ==
  IsTcp /\ payload # << >> /\ Built(update_headers(packetizer, seq, ack, flags), payload)
packetize_empty_payload(seq, ack, flags) ==
  IsTcp /\ Built(update_headers(packetizer, seq, ack, flags), << >>)
\* UDP: a datagram, maybe empty.
packetize(payload) == IsUdp /\ Built(packetizer, payload)

Receive == \E n \in 0 .. MAX_PACKET_LENGTH : process_receive(n)
Create == \E raw \in Range(delivered) : create(raw)
Answer == \/ \E payload \in Payloads, seq, ack \in Numbers, flags \in Flags :
               packetize_read(payload, seq, ack, flags)
          \/ \E seq, ack \in Numbers, flags \in Flags : packetize_empty_payload(seq, ack, flags)
          \/ \E payload \in Payloads : packetize(payload)

Next == Receive \/ Create \/ Answer
Spec == Init /\ [][Next]_vars

-----------------------------------------------------------------------------
\* However the stream is cut into reads, the router gets the packets of the
\* device, whole and in order, and keeps only the start of the next one.  The buffer
\* has room for every read: a read into an empty slice, which returns 0, would be
\* taken for the end of the tunnel.
DeliversWhatWasSent ==
  /\ ~closed
  /\ IsPrefix(delivered, sent)
  /\ FlattenSeq(delivered) \o buf \o stream = FlattenSeq(sent)
  /\ stream = << >> => delivered = sent

\* The parsed values of the packetizer are those of its bytes, after any sequence of
\* creations, setters and builds.
DataMatchesRaw ==
  reference # << >> =>
    /\ packetizer.ipv4_header.data = Ipv4HeaderData(packetizer.ipv4_header.raw)
    /\ packetizer.transport_header.data =
         TransportHeaderData(packetizer.transport_header.data.protocol,
                             packetizer.transport_header.raw)

\* What a receiver computes (RFC 1071): the 16-bit words of s, an odd byte padded with
\* zero, add up to 0 modulo 65535.
OnesSum(s) ==
  LET padded == IF Len(s) % 2 = 0 THEN s ELSE s \o <<0>>
  IN SumFunction([i \in 0 .. Len(padded) \div 2 - 1 |-> read_u16(padded, 2 * i)])
PseudoHeader(raw, length) == bytes(raw, 12, 20) \o <<0, raw[10], length \div 256, length % 256>>

\* A packet of the relay passes the receiver's verification of both checksums; a UDP
\* checksum of 0 says that there is none.
ChecksumsVerify ==
  out # << >> =>
    LET ip == Ipv4HeaderData(out).header_length
        rest == bytes(out, ip, Len(out))
    IN /\ OnesSum(bytes(out, 0, ip)) % 65535 = 0
       /\ IF out[10] = 6
          THEN (OnesSum(PseudoHeader(out, Len(rest))) + OnesSum(rest)) % 65535 = 0
          ELSE read_u16(rest, 6) = 0

\* The packet, parsed again, is an answer to the packet that created the connection:
\* addresses and ports mirrored, as long as it says, no TCP option left, and the bytes of
\* the network as its payload.
AnswersTheReference ==
  out # << >> =>
    LET p == Ipv4Packet(out)  r == Ipv4Packet(reference)
    IN /\ p.ipv4_header.data.total_length = Len(out)
       /\ p.ipv4_header.data.source = r.ipv4_header.data.destination
       /\ p.ipv4_header.data.destination = r.ipv4_header.data.source
       /\ p.transport_header.data.protocol = r.transport_header.data.protocol
       /\ p.transport_header.data.source_port = r.transport_header.data.destination_port
       /\ p.transport_header.data.destination_port = r.transport_header.data.source_port
       /\ p.payload = packetizer.payload
       /\ IsTcp => p.transport_header.data.header_length = 20
       /\ IsUdp => read_u16(p.transport_header.raw, 4) = 8 + Len(p.payload)
=============================================================================
