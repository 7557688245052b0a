---------------------------- MODULE MCPacketPath ----------------------------
EXTENDS PacketPath

\* The packets of a device: an IPv4 header of 20 bytes and its options, then the rest.
PacketWith(options, protocol, rest) ==
  <<69 + Len(options) \div 4, 0, 0, 20 + Len(options) + Len(rest), 1, 2, 64, 0, 64, protocol,
    171, 205, 10, 0, 0, 2, 255, 255, 3, 4>> \o options \o rest
Packet(protocol, rest) == PacketWith(<< >>, protocol, rest)

\* A SYN with options, a segment with a byte, datagrams, ICMP packets, and a
\* segment with IP options.
Syn == Packet(6, <<200, 1, 0, 80, 255, 255, 255, 254, 0, 0, 0, 0, 98, 2, 255, 255, 9, 9, 0, 0,
                   2, 4, 5, 180>>)
Segment == Packet(6, <<200, 1, 0, 80, 0, 0, 0, 1, 0, 0, 0, 7, 80, 16, 1, 0, 9, 9, 0, 0, 65>>)
Datagram == Packet(17, <<1, 2, 3, 4, 0, 9, 5, 6, 255>>)
EmptyDatagram == Packet(17, <<1, 2, 3, 4, 0, 8, 5, 6>>)
Ping == Packet(1, <<8, 0, 1, 1>>)
Bare == Packet(1, << >>)
Routed == PacketWith(<<130, 3, 9, 1>>, 6,
                     <<200, 1, 0, 80, 0, 0, 0, 1, 0, 0, 0, 7, 80, 16, 1, 0, 9, 9, 0, 0>>)

\* Two packets fit in the buffer of the third stream, the last packet of the first
\* stream fills it up to one byte.
MCStreams == {<<Segment, Syn>>, <<EmptyDatagram, Datagram>>, <<EmptyDatagram, Ping, Bare>>, <<Routed>>}
MCPayloads == {<< >>, <<255>>, <<255, 255>>, <<1, 0, 200>>, [i \in 1 .. 301 |-> 255]}
MCNumbers == {<<0, 0>>, <<65535, 65535>>}
MCFlags == {2 + 16, 8 + 16, 1 + 16}
=============================================================================
