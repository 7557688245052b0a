------------------------------- MODULE Headers ------------------------------
(***************************************************************************)
(* relay/ipv4_header.rs, tcp_header.rs, udp_header.rs, transport_header.rs *)
(* and ipv4_packet.rs: headers as big-endian bytes.  A header is a record  *)
(* of its bytes (raw) and of the values parsed from them (data): the code  *)
(* keeps both and every setter writes both.  Offsets are those of the      *)
(* source, from 0.  A 32-bit value is a pair of 16-bit words.              *)
(***************************************************************************)
EXTENDS Integers, Sequences, Functions

Byte == 0 .. 255
u16 == 0 .. 65535

read_u16(raw, i) == raw[i + 1] * 256 + raw[i + 2]
read_u32(raw, i) == <<read_u16(raw, i), read_u16(raw, i + 2)>>
\* MUTANT: the value is not split into its bytes.
write_u16_whole(raw, i, v) == [raw EXCEPT ![i + 2] = v]
write_u16(raw, i, v) == [raw EXCEPT ![i + 1] = v \div 256, ![i + 2] = v % 256]
write_u32(raw, i, v) == write_u16(write_u16(raw, i, v[1]), i + 2, v[2])
bytes(raw, from, to) == SubSeq(raw, from + 1, to)

-----------------------------------------------------------------------------
(***************************************************************************)
(* Parsing.                                                                *)
(***************************************************************************)
Protocol(n) == CASE n = 6 -> "Tcp" [] n = 17 -> "Udp" [] OTHER -> "Other"

Ipv4HeaderData(raw) ==
  [version |-> raw[1] \div 16, header_length |-> (raw[1] % 16) * 4,
   total_length |-> read_u16(raw, 2), protocol |-> Protocol(raw[10]),
   source |-> read_u32(raw, 12), destination |-> read_u32(raw, 16)]

TcpHeaderData(raw) ==
  [protocol |-> "Tcp", source_port |-> read_u16(raw, 0), destination_port |-> read_u16(raw, 2),
   sequence_number |-> read_u32(raw, 4), acknowledgement_number |-> read_u32(raw, 8),
   header_length |-> (read_u16(raw, 12) \div 4096) * 4, flags |-> read_u16(raw, 12) % 512,
   window |-> read_u16(raw, 14)]

UDP_HEADER_LENGTH == 8
UdpHeaderData(raw) ==
  [protocol |-> "Udp", source_port |-> read_u16(raw, 0), destination_port |-> read_u16(raw, 2),
   header_length |-> UDP_HEADER_LENGTH]

TransportHeaderData(protocol, raw) ==
  IF protocol = "Tcp" THEN TcpHeaderData(raw) ELSE UdpHeaderData(raw)

\* A full packet at the front of raw, divided into its parts (Ipv4Packet::parse,
\* headers, payload).  Without transport it is not valid, and has no parts.
Ipv4Packet(raw) ==
  LET ip == Ipv4HeaderData(raw)
      rest == bytes(raw, ip.header_length, ip.total_length)
      transport == TransportHeaderData(ip.protocol, rest)
  IN [ipv4_header |-> [raw |-> bytes(raw, 0, ip.header_length), data |-> ip],
      transport_header |-> [raw |-> bytes(rest, 0, transport.header_length),
                            data |-> transport],
      payload |-> bytes(rest, transport.header_length, Len(rest))]
is_valid(raw) == Ipv4HeaderData(raw).protocol # "Other"

-----------------------------------------------------------------------------
(***************************************************************************)
(* Writing.                                                                *)
(***************************************************************************)
\* for i in from..from + n { raw.swap(i, i + n) }
swap_bytes(raw, from, n) ==
  [i \in DOMAIN raw |-> CASE i - 1 \in from .. from + n - 1 -> raw[i + n]
                          [] i - 1 \in from + n .. from + 2 * n - 1 -> raw[i - n]
                          [] OTHER -> raw[i]]

set_total_length(h, v) ==
  [raw |-> write_u16(h.raw, 2, v), data |-> [h.data EXCEPT !.total_length = v]]

swap_addresses(h) ==
  [raw |-> swap_bytes(h.raw, 12, 4),
   data |-> [h.data EXCEPT !.source = h.data.destination, !.destination = h.data.source]]

\* MUTANT: the parsed values are swapped, the bytes are not.
swap_ports_data(h) ==
  [h EXCEPT !.data = [@ EXCEPT !.source_port = h.data.destination_port,
                               !.destination_port = h.data.source_port]]
swap_ports(h) ==
  [raw |-> swap_bytes(h.raw, 0, 2),
   data |-> [h.data EXCEPT !.source_port = h.data.destination_port,
                           !.destination_port = h.data.source_port]]

set_sequence_number(h, v) ==
  [raw |-> write_u32(h.raw, 4, v), data |-> [h.data EXCEPT !.sequence_number = v]]
set_acknowledgement_number(h, v) ==
  [raw |-> write_u32(h.raw, 8, v), data |-> [h.data EXCEPT !.acknowledgement_number = v]]

\* The flags are the 9 low bits of the word that starts with the data offset.
set_flags(h, flags) ==
  [raw |-> write_u16(h.raw, 12, (read_u16(h.raw, 12) \div 512) * 512 + flags),
   data |-> [h.data EXCEPT !.flags = flags]]

set_data_offset(h, offset) ==
  [raw |-> write_u16(h.raw, 12, (read_u16(h.raw, 12) % 4096) + offset * 4096),
   data |-> [h.data EXCEPT !.header_length = offset * 4]]
shrink_options(h) == set_data_offset(h, 5)

\* Only UDP stores the length of its payload.
set_payload_length(h, n) ==
  IF h.data.protocol = "Udp"
  THEN [h EXCEPT !.raw = write_u16(@, 4, UDP_HEADER_LENGTH + n)] ELSE h

-----------------------------------------------------------------------------
(***************************************************************************)
(* Checksums.                                                              *)
(***************************************************************************)
folded[sum \in Nat] ==
  IF sum <= 65535 THEN sum ELSE folded[(sum % 65536) + (sum \div 65536)]
complement(sum) == 65535 - folded[sum]

ipv4_update_checksum(h) ==
  LET j == h.data.header_length \div 2
      word == [i \in 0 .. j - 1 |-> read_u16(h.raw, 2 * i)]
      sum == SumFunctionOnSet(word, (0 .. 4) \cup (6 .. j - 1))
  IN [h EXCEPT !.raw = write_u16(@, 10, complement(sum))]

\* The sums of the high-order and of the low-order bytes; an odd last byte is
\* high-order.
high_bytes(s) == SumFunctionOnSet(s, {i \in DOMAIN s : i % 2 = 1})
low_bytes(s) == SumFunctionOnSet(s, {i \in DOMAIN s : i % 2 = 0})

\* MUTANT: the odd last byte of the payload is left out.
tcp_checksum_even(h, ip, payload) ==
  LET paired == bytes(payload, 0, (Len(payload) \div 2) * 2)
      sum == 6 + ip.source[1] + ip.source[2] + ip.destination[1] + ip.destination[2]
               + (ip.total_length - ip.header_length)
      hsum == high_bytes(h.raw) + high_bytes(paired)
  IN complement(sum + low_bytes(h.raw) + low_bytes(paired) + hsum * 256)
tcp_checksum(h, ip, payload) ==
  LET sum == 6 + ip.source[1] + ip.source[2] + ip.destination[1] + ip.destination[2]
               + (ip.total_length - ip.header_length)
      hsum == high_bytes(h.raw) + high_bytes(payload)
  IN complement(sum + low_bytes(h.raw) + low_bytes(payload) + hsum * 256)

tcp_update_checksum(h, ip, payload) ==
  LET reset == [h EXCEPT !.raw = write_u16(@, 16, 0)]
  IN [h EXCEPT !.raw = write_u16(@, 16, tcp_checksum(reset, ip, payload))]

\* UDP checksums are disabled.
udp_update_checksum(h) == [h EXCEPT !.raw = write_u16(@, 6, 0)]

compute_checksums(p) ==
  [ipv4_header |-> ipv4_update_checksum(p.ipv4_header),
   transport_header |-> IF p.transport_header.data.protocol = "Tcp"
                        THEN tcp_update_checksum(p.transport_header, p.ipv4_header.data, p.payload)
                        ELSE udp_update_checksum(p.transport_header),
   payload |-> p.payload]
raw_of(p) == p.ipv4_header.raw \o p.transport_header.raw \o p.payload
=============================================================================
