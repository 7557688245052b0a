--------------------------- MODULE AndroidProofs ----------------------------
(***************************************************************************)
(* The Android side: VpnOutput writes whole packets to the VPN interface,  *)
(* for every base of the length field, every set of packets and every      *)
(* cutting of the tunnel stream into reads; and the safety properties of   *)
(* AndroidTunnel, for every set of tunnel objects.                         *)
(***************************************************************************)
EXTENDS AndroidTunnel, VpnOutput, Lemmas

-----------------------------------------------------------------------------
(***************************************************************************)
(* The framing.                                                            *)
(***************************************************************************)
Digit == 0 .. Base - 1

Types == /\ stream \in Seq(Digit) /\ buffer \in Seq(Digit)
         /\ sent \in Seq(Packets) /\ written \in Seq(Packets)
         /\ cut \in BOOLEAN

\* What was written, holds and is to come is what the relay sent; and write() leaves
\* no whole packet in the buffer.
Framed == /\ IsPrefix(written, sent)
          /\ FlattenSeq(written) \o buffer \o stream = FlattenSeq(sent)
          /\ receiver = "receive" => ~HoldsPacket

OutputInv == (~cut => Types /\ Framed) /\ cut \in BOOLEAN

\* A packet is a sequence of digits that begins with its version and tells its length.
LEMMA PacketIs ==
  ASSUME NEW q \in Packets
  PROVE  /\ q \in Seq(Digit) /\ Len(q) \in Nat /\ Len(q) >= 4 /\ q[1] = Version4
         /\ Base * q[3] + q[4] = Len(q) /\ Len(q) < MAX_IP_PACKET_LENGTH
<1>1. /\ q \in Seq(Digit) /\ Len(q) \in Nat /\ Len(q) >= 4 /\ q[1] = Version4
      /\ Base * q[3] + q[4] = Len(q)
  BY VpnAssumption DEF Digit
<1> DEFINE a == q[3]
           c == q[4]
<1>2. Base \in Nat /\ a \in Nat /\ c \in Nat /\ a <= Base - 1 /\ c <= Base - 1
  <2>1. 3 \in 1 .. Len(q) /\ 4 \in 1 .. Len(q)
    BY <1>1
  <2>2. a \in Digit /\ c \in Digit
    BY <1>1, <2>1, ElementOfSeq
  <2>3. Base \in Nat
    BY VpnAssumption
  <2> HIDE DEF a, c
  <2> QED BY <2>2, <2>3 DEF Digit
<1> HIDE DEF a, c
<1>3. Base * a <= Base * (Base - 1) /\ Base * (Base - 1) = Base * Base - Base
      /\ Base * a \in Nat /\ Base * Base \in Nat
  BY <1>2, Z3
<1>4. Base * a + c < Base * Base
  BY <1>2, <1>3
<1>5. Base * q[3] + q[4] < Base * Base
  BY <1>4 DEF a, c
<1> QED BY <1>1, <1>5 DEF MAX_IP_PACKET_LENGTH

\* Sequences of packets are sequences of sequences of digits.
LEMMA PacketSeqs ==
  ASSUME NEW s \in Seq(Packets)
  PROVE  s \in Seq(Seq(Digit))
<1>1. Packets \subseteq Seq(Digit)
  BY PacketIs
<1> QED BY <1>1, SeqMonotonic

\* As long as nothing was cut, either all was written, or the unread bytes begin with
\* the next packet.
LEMMA NextPacket ==
  ASSUME Types, Framed
  PROVE  \/ buffer = << >> /\ stream = << >> /\ written = sent
         \/ \E q \in Packets : \E t \in Seq(Digit) :
              /\ buffer \o stream = q \o t
              /\ Len(written) < Len(sent) /\ q = sent[Len(written) + 1]
<1> DEFINE k == Len(written)
           F(j) == FlattenSeq(SubSeq(sent, 1, j))
           w == FlattenSeq(written)
<1>1. /\ k \in Nat /\ Len(sent) \in Nat /\ k <= Len(sent)
      /\ sent \in Seq(Seq(Digit)) /\ written \in Seq(Seq(Digit))
  BY LenProperties, PacketSeqs DEF Types, Framed, IsPrefix
<1>2. written = SubSeq(sent, 1, k)
  BY <1>1, SubSeqFull DEF Types, Framed, IsPrefix
<1>3. k \in 0 .. Len(sent) /\ w = F(k) /\ F(Len(sent)) = FlattenSeq(sent)
  <2>1. SubSeq(sent, 1, Len(sent)) = sent
    BY SubSeqFull DEF Types
  <2>2. k \in 0 .. Len(sent)
    BY <1>1
  <2> HIDE DEF k
  <2> QED BY <1>2, <2>1, <2>2
<1>4. w \in Seq(Digit)
  BY <1>1, <1>3, FlattenType
<1> HIDE DEF w
<1>5. buffer \in Seq(Digit) /\ stream \in Seq(Digit)
  BY DEF Types
<1>6. buffer \o stream \in Seq(Digit) /\ w \o (buffer \o stream) = FlattenSeq(sent)
  <2>1. (w \o buffer) \o stream = w \o (buffer \o stream)
    BY <1>4, <1>5, ConcatAssociative
  <2> QED BY <1>5, <2>1, ConcatProperties DEF Framed, w
<1>7. CASE k = Len(sent)
  <2>1. written = sent
    BY <1>2, <1>7, SubSeqFull DEF Types
  <2>2. w \o (buffer \o stream) = w
    BY <1>6, <2>1 DEF w
  <2>3. buffer \o stream = << >>
    BY <1>4, <1>6, <2>2, ConcatEqualIffEmpty
  <2>4. buffer = << >> /\ stream = << >>
    BY <1>5, <2>3, ConcatEqualIffEmpty
  <2> QED BY <2>1, <2>4
<1>8. CASE k # Len(sent)
  <2> DEFINE q == sent[k + 1]
  <2>1. k < Len(sent) /\ k + 1 \in 1 .. Len(sent) /\ k + 1 \in 0 .. Len(sent)
    BY <1>1, <1>8
  <2>2. q \in Packets
    BY <2>1, ElementOfSeq DEF Types
  <2>3. F(k + 1) = F(k) \o q /\ q \in Seq(Digit)
    BY <1>1, <1>3, <2>1, FlattenPrefix
  <2>4. PICK t \in Seq(Digit) : FlattenSeq(sent) = F(k + 1) \o t
    BY <1>1, <2>1, FlattenRest
  <2> HIDE DEF q, F
  <2>5. FlattenSeq(sent) = (w \o q) \o t
    BY <1>3, <2>3, <2>4
  <2>6. (w \o q) \o t = w \o (q \o t) /\ q \o t \in Seq(Digit)
    <3>1. Groups(w, q, t)
      BY <1>4, <2>3, Grouped
    <3>2. q \o t \in Seq(Digit)
      BY <2>3, ConcatProperties
    <3> QED BY <3>1, <3>2 DEF Groups
  <2>7. w \o (buffer \o stream) = w \o (q \o t)
    BY <1>6, <2>5, <2>6
  <2>8. buffer \o stream = q \o t
    BY <1>4, <1>6, <2>6, <2>7, ConcatSimplifications
  <2> QED BY <2>1, <2>2, <2>8 DEF q
<1> QED BY <1>7, <1>8

\* The start of the buffer is the start of that packet, so the length read from the
\* buffer is its length.
LEMMA ReadsItsLength ==
  ASSUME Types, NEW q \in Packets, NEW t \in Seq(Digit), buffer \o stream = q \o t
  PROVE  /\ Len(buffer) \in Nat
         /\ buffer # << >> => readPacketVersion = Version4
         /\ Len(buffer) >= 4 => readPacketLength = Len(q)
         /\ HoldsPacket <=> Len(q) <= Len(buffer)
<1>0. buffer \in Seq(Digit) /\ stream \in Seq(Digit)
  BY DEF Types
<1>1. Len(buffer) \in Nat /\ Len(stream) \in Nat /\ Len(t) \in Nat
  BY <1>0, LenProperties
<1>2. /\ q \in Seq(Digit) /\ Len(q) \in Nat /\ Len(q) >= 4 /\ q[1] = Version4
      /\ Base * q[3] + q[4] = Len(q)
  BY PacketIs
<1>3. ASSUME NEW i \in Nat, i >= 1, i <= 4, i <= Len(buffer) PROVE buffer[i] = q[i]
  <2>1. (buffer \o stream)[i] = buffer[i]
    BY <1>0, <1>1, <1>3, ConcatProperties
  <2>2. (q \o t)[i] = q[i]
    BY <1>1, <1>2, <1>3, ConcatProperties
  <2> QED BY <2>1, <2>2
<1>4. buffer # << >> => readPacketVersion = Version4
  <2> SUFFICES ASSUME buffer # << >> PROVE readPacketVersion = Version4
    OBVIOUS
  <2>1. Len(buffer) >= 1
    BY <1>0, EmptySeq
  <2>2. buffer[1] = q[1]
    BY <1>3, <2>1
  <2> QED BY <1>2, <2>2 DEF readPacketVersion
<1>5. Len(buffer) >= 4 => readPacketLength = Len(q)
  <2> SUFFICES ASSUME Len(buffer) >= 4 PROVE readPacketLength = Len(q)
    OBVIOUS
  <2>1. buffer[3] = q[3] /\ buffer[4] = q[4]
    BY <1>1, <1>3
  <2> QED BY <1>2, <2>1 DEF readPacketLength
<1> QED BY <1>1, <1>2, <1>4, <1>5 DEF HoldsPacket

\* A buffer without a whole packet has room for a read, and when nothing is left to
\* read it is empty.
LEMMA Between ==
  ASSUME Types, Framed, ~HoldsPacket
  PROVE  /\ Capacity - Len(buffer) >= MAX_IP_PACKET_LENGTH
         /\ Len(buffer) \in Nat /\ MAX_IP_PACKET_LENGTH \in Nat
         /\ stream = << >> => written = sent
         /\ buffer # << >> => readPacketVersion = Version4
<1>0. MAX_IP_PACKET_LENGTH \in Nat
  <2>1. Base \in Nat
    BY VpnAssumption
  <2> QED BY <2>1, Z3 DEF MAX_IP_PACKET_LENGTH
<1>1. CASE buffer = << >> /\ stream = << >> /\ written = sent
  <2>1. Len(buffer) = 0
    BY <1>1
  <2> QED BY <1>0, <1>1, <2>1 DEF Capacity
<1>2. CASE \E q \in Packets : \E t \in Seq(Digit) :
              /\ buffer \o stream = q \o t
              /\ Len(written) < Len(sent) /\ q = sent[Len(written) + 1]
  <2>1. PICK q \in Packets, t \in Seq(Digit) : buffer \o stream = q \o t
    BY <1>2
  <2>2. /\ Len(buffer) \in Nat /\ (buffer # << >> => readPacketVersion = Version4)
        /\ HoldsPacket <=> Len(q) <= Len(buffer)
    BY <2>1, ReadsItsLength
  <2>3. q \in Seq(Digit) /\ Len(q) \in Nat /\ Len(q) < MAX_IP_PACKET_LENGTH
    BY PacketIs
  <2>4. Len(buffer) < Len(q)
    BY <2>2, <2>3
  <2>5. stream # << >>
    <3> SUFFICES ASSUME stream = << >> PROVE FALSE
      OBVIOUS
    <3>1. buffer \o stream = buffer
      BY ConcatEmptySeq DEF Types
    <3>2. Len(q \o t) = Len(q) + Len(t) /\ Len(t) \in Nat
      BY <2>3, ConcatProperties, LenProperties
    <3> QED BY <2>1, <2>2, <2>3, <2>4, <3>1, <3>2
  <2> QED BY <1>0, <2>2, <2>3, <2>4, <2>5 DEF Capacity
<1> QED BY <1>1, <1>2, NextPacket

\* Initially nothing was sent.
LEMMA OutputInitInv == OutputInit => OutputInv
<1> SUFFICES ASSUME OutputInit PROVE OutputInv
  OBVIOUS
<1>1. << >> \in Seq(Digit) /\ << >> \in Seq(Packets) /\ Len(<< >>) = 0
  BY EmptySeq
<1>2. Types
  BY <1>1 DEF OutputInit, Types
<1>3. IsPrefix(written, sent)
  BY SubSeqEmpty, <1>1 DEF OutputInit, IsPrefix
<1>4. FlattenSeq(<< >>) = << >>
  BY <1>1 DEF FlattenSeq
<1>5. << >> \o << >> = << >>
  BY <1>1, ConcatEmptySeq
<1>6. FlattenSeq(written) \o buffer \o stream = FlattenSeq(sent)
  BY <1>4, <1>5 DEF OutputInit
<1>7. ~HoldsPacket
  BY <1>1 DEF OutputInit, HoldsPacket
<1> QED BY <1>2, <1>3, <1>6, <1>7 DEF OutputInit, OutputInv, Framed

\* A packet of the relay joins the unread bytes.
LEMMA SendStep ==
  ASSUME OutputInv, NEW p \in Packets, Send(p)
  PROVE  OutputInv'
<1>1. /\ stream' = stream \o p /\ sent' = Append(sent, p)
      /\ UNCHANGED <<buffer, receiver, written, cut>>
  BY DEF Send
<1>2. cut \in BOOLEAN /\ cut' \in BOOLEAN
  BY <1>1 DEF OutputInv
<1> SUFFICES ASSUME ~cut PROVE Types' /\ Framed'
  BY <1>1, <1>2 DEF OutputInv
<1>3. Types /\ Framed
  BY DEF OutputInv
<1>4. p \in Seq(Digit)
  BY PacketIs
<1>5. stream' \in Seq(Digit) /\ sent' \in Seq(Packets)
  BY <1>1, <1>3, <1>4, ConcatProperties, AppendProperties DEF Types
<1>6. Types'
  BY <1>1, <1>2, <1>3, <1>5 DEF Types
<1>7. IsPrefix(written, sent')
  <2>1. written \in Seq(Packets) /\ sent \in Seq(Packets)
    BY <1>3 DEF Types
  <2>2. Len(written) \in Nat /\ Len(sent) \in Nat
    BY <2>1, LenProperties
  <2>3. Len(written) <= Len(sent) /\ \A i \in 1 .. Len(written) : written[i] = sent[i]
    BY <1>3, <2>1, PrefixIs DEF Framed
  <2>4. Len(sent') = Len(sent) + 1 /\ \A i \in 1 .. Len(sent) : sent'[i] = sent[i]
    BY <1>1, <2>1, AppendProperties
  <2>5. Len(written) <= Len(sent') /\ \A i \in 1 .. Len(written) : written[i] = sent'[i]
    BY <2>2, <2>3, <2>4
  <2> QED BY <1>5, <2>1, <2>5, PrefixIs
<1>8. FlattenSeq(written) \o buffer \o stream' = FlattenSeq(sent')
  <2> DEFINE u == FlattenSeq(written) \o buffer
  <2>1. sent \in Seq(Seq(Digit)) /\ written \in Seq(Seq(Digit))
    BY <1>3, PacketSeqs DEF Types
  <2>2. FlattenSeq(sent') = FlattenSeq(sent) \o p
    BY <1>1, <1>4, <2>1, FlattenAppend
  <2>3. FlattenSeq(written) \in Seq(Digit)
    BY <2>1, FlattenWhole
  <2>4. u \in Seq(Digit) /\ stream \in Seq(Digit)
    BY <1>3, <2>3, ConcatProperties DEF Types
  <2> HIDE DEF u
  <2>5. u \o stream = FlattenSeq(sent)
    BY <1>3 DEF Framed, u
  <2>6. (u \o stream) \o p = u \o (stream \o p)
    BY <1>4, <2>4, ConcatAssociative
  <2>7. u \o stream' = FlattenSeq(sent')
    BY <1>1, <2>2, <2>5, <2>6
  <2> QED BY <2>7 DEF u
<1>9. (receiver = "receive" => ~HoldsPacket)'
  BY <1>1, <1>3 DEF Framed, HoldsPacket, readPacketLength
<1> QED BY <1>1, <1>6, <1>7, <1>8, <1>9 DEF Framed

\* A new tunnel starts at a packet, and so does the buffer unless it held a part of one.
LEMMA ReconnectStep ==
  ASSUME OutputInv, Reconnect
  PROVE  OutputInv'
<1>1. /\ stream' = << >> /\ sent' = << >> /\ written' = << >>
      /\ cut' = (cut \/ buffer # << >>) /\ buffer' = buffer /\ receiver' = receiver
  BY DEF Reconnect
<1>2. cut' \in BOOLEAN
  BY <1>1 DEF OutputInv
<1> SUFFICES ASSUME ~cut' PROVE Types' /\ Framed'
  BY <1>2 DEF OutputInv
<1>3. ~cut /\ buffer = << >>
  BY <1>1 DEF OutputInv
<1>4. << >> \in Seq(Digit) /\ << >> \in Seq(Packets) /\ Len(<< >>) = 0
  BY EmptySeq
<1>5. Types'
  BY <1>1, <1>2, <1>3, <1>4 DEF Types
<1>6. FlattenSeq(<< >>) = << >> /\ << >> \o << >> = << >>
  BY <1>4, ConcatEmptySeq DEF FlattenSeq
<1>7. IsPrefix(<< >>, << >>)
  BY <1>4 DEF IsPrefix
<1>8. ~HoldsPacket'
  BY <1>1, <1>3, <1>4 DEF HoldsPacket
<1> QED BY <1>1, <1>3, <1>5, <1>6, <1>7, <1>8 DEF Framed

\* A read moves bytes from the stream to the buffer, which has room for them.
LEMMA WriteStep ==
  ASSUME OutputInv, NEW n \in 1 .. BUFSIZE, write(n)
  PROVE  OutputInv'
<1>1. /\ receiver = "receive" /\ n <= Len(stream) /\ stream' = SubSeq(stream, n + 1, Len(stream))
      /\ UNCHANGED <<sent, written, cut>>
  BY DEF write
<1>2. cut' \in BOOLEAN
  BY <1>1 DEF OutputInv
<1> SUFFICES ASSUME ~cut PROVE Types' /\ Framed'
  BY <1>1, <1>2 DEF OutputInv
<1>3. Types /\ Framed /\ ~HoldsPacket
  BY <1>1 DEF OutputInv, Framed
<1>4. /\ Capacity - Len(buffer) >= MAX_IP_PACKET_LENGTH /\ Len(buffer) \in Nat
      /\ MAX_IP_PACKET_LENGTH \in Nat
  BY <1>3, Between
<1>5. n \in Nat /\ n >= 1 /\ n <= MAX_IP_PACKET_LENGTH
  BY <1>4, VpnAssumption
<1>6. n <= Capacity - Len(buffer)
  BY <1>4, <1>5 DEF Capacity
<1> DEFINE a == SubSeq(stream, 1, n)
<1>7. buffer' = buffer \o a /\ receiver' = "sink"
  BY <1>6 DEF write
<1>8. stream \in Seq(Digit) /\ Len(stream) \in Nat /\ buffer \in Seq(Digit)
  <2>1. stream \in Seq(Digit) /\ buffer \in Seq(Digit)
    BY <1>3 DEF Types
  <2> QED BY <2>1, LenProperties
<1>9. a \in Seq(Digit) /\ stream' \in Seq(Digit) /\ a \o stream' = stream
  <2>1. \A i \in 1 .. Len(stream) : stream[i] \in Digit
    BY <1>8, ElementOfSeq
  <2>2. a \in Seq(Digit)
    BY <1>1, <1>5, <1>8, <2>1, SubSeqProperties
  <2>3. stream' \in Seq(Digit)
    BY <1>1, <1>5, <1>8, <2>1, SubSeqProperties
  <2>4. SubSeq(stream, 1, n) \o SubSeq(stream, n + 1, Len(stream)) = SubSeq(stream, 1, Len(stream))
    <3>1. /\ 1 \in 1 .. Len(stream) + 1 /\ n \in 1 - 1 .. Len(stream)
          /\ Len(stream) \in n .. Len(stream)
      BY <1>1, <1>5, <1>8
    <3> QED BY <1>8, <3>1, ConcatAdjacentSubSeq
  <2>5. SubSeq(stream, 1, Len(stream)) = stream
    BY <1>8, SubSeqFull
  <2> QED BY <1>1, <2>2, <2>3, <2>4, <2>5
<1> HIDE DEF a
<1>10. Types'
  <2>1. buffer' \in Seq(Digit)
    BY <1>7, <1>8, <1>9, ConcatProperties
  <2> QED BY <1>1, <1>2, <1>3, <1>9, <2>1 DEF Types
<1>11. FlattenSeq(written) \o buffer' \o stream' = FlattenSeq(sent)
  <2> DEFINE w == FlattenSeq(written)
  <2>1. w \in Seq(Digit)
    BY <1>3, PacketSeqs, FlattenWhole DEF Types
  <2>2. w \o buffer \o stream = FlattenSeq(sent)
    BY <1>3 DEF Framed
  <2> HIDE DEF w
  <2>3. w \o (buffer \o a) = (w \o buffer) \o a
    <3>1. Groups(w, buffer, a)
      BY <1>8, <1>9, <2>1, Grouped
    <3> QED BY <3>1 DEF Groups
  <2>4. w \o buffer \in Seq(Digit)
    BY <1>8, <2>1, ConcatProperties
  <2>5. ((w \o buffer) \o a) \o stream' = (w \o buffer) \o (a \o stream')
    <3>1. Groups(w \o buffer, a, stream')
      BY <1>9, <2>4, Grouped
    <3> QED BY <3>1 DEF Groups
  <2>6. (w \o buffer') \o stream' = FlattenSeq(sent)
    BY <1>7, <1>9, <2>2, <2>3, <2>5
  <2> QED BY <2>6 DEF w
<1>12. IsPrefix(written, sent)
  BY <1>3 DEF Framed
<1> QED BY <1>1, <1>7, <1>10, <1>11, <1>12 DEF Framed

\* sinkPacket() takes the packet at the start of the buffer, which is the next one sent.
LEMMA SinkStep ==
  ASSUME OutputInv, sinkPacket
  PROVE  OutputInv'
<1>1. receiver = "sink" /\ UNCHANGED <<stream, sent, cut>>
  BY DEF sinkPacket
<1>2. cut' \in BOOLEAN
  BY <1>1 DEF OutputInv
<1> SUFFICES ASSUME ~cut PROVE Types' /\ Framed'
  BY <1>1, <1>2 DEF OutputInv
<1>3. Types /\ Framed /\ buffer \in Seq(Digit) /\ stream \in Seq(Digit)
  BY DEF OutputInv, Types
<1>4. Version4 \in Nat /\ Version4 # -1
  BY VpnAssumption
<1>5. buffer # << >> => readPacketVersion = Version4
  BY <1>3, NextPacket, ReadsItsLength
<1>6. CASE /\ readPacketVersion = -1 \/ (readPacketVersion = Version4 /\ ~HoldsPacket)
           /\ receiver' = "receive" /\ UNCHANGED <<buffer, written>>
  <2>1. ~HoldsPacket
    <3> SUFFICES ASSUME readPacketVersion = -1 PROVE ~HoldsPacket
      BY <1>6
    <3>1. buffer = << >>
      BY <1>4, <1>5
    <3>2. Len(buffer) = 0
      BY <3>1
    <3> QED BY <3>2 DEF HoldsPacket
  <2>2. ~HoldsPacket'
    BY <1>6, <2>1 DEF HoldsPacket, readPacketLength
  <2>3. Types'
    BY <1>1, <1>3, <1>6 DEF Types
  <2> QED BY <1>1, <1>3, <1>6, <2>2, <2>3 DEF Framed
<1>7. CASE readPacketVersion \notin {-1, Version4}
  <2>1. buffer = << >>
    BY <1>5, <1>7
  <2>2. readPacketVersion = -1
    BY <2>1 DEF readPacketVersion
  <2> QED BY <1>7, <2>2
<1>8. CASE /\ readPacketVersion = Version4 /\ HoldsPacket
           /\ receiver' = "dead" /\ UNCHANGED <<buffer, written>>
  <2>1. Types'
    BY <1>1, <1>3, <1>8 DEF Types
  <2> QED BY <1>1, <1>3, <1>8, <2>1 DEF Framed
<1>9. CASE /\ readPacketVersion = Version4 /\ HoldsPacket
           /\ buffer' = SubSeq(buffer, readPacketLength + 1, Len(buffer))
           /\ written' = IF readPacketLength = 0 THEN written
                         ELSE Append(written, SubSeq(buffer, 1, readPacketLength))
           /\ UNCHANGED receiver
  <2>1. buffer # << >>
    <3>1. Len(buffer) >= 4
      BY <1>9 DEF HoldsPacket
    <3> QED BY <3>1
  <2>2. PICK q \in Packets, t \in Seq(Digit) :
              /\ buffer \o stream = q \o t
              /\ Len(written) < Len(sent) /\ q = sent[Len(written) + 1]
    BY <1>3, <2>1, NextPacket
  <2> DEFINE l == Len(q)
             r == SubSeq(buffer, l + 1, Len(buffer))
  <2>3. readPacketLength = l /\ l <= Len(buffer) /\ Len(buffer) \in Nat
    <3>1. Len(buffer) >= 4
      BY <1>9 DEF HoldsPacket
    <3> QED BY <1>3, <1>9, <2>2, <3>1, ReadsItsLength
  <2>4. q \in Seq(Digit) /\ l \in Nat /\ l >= 4
    BY PacketIs
  <2>5. SubSeq(buffer, 1, l) = q /\ r \in Seq(Digit) /\ r \o stream = t
    <3>1. buffer \o stream = q \o t /\ Len(q) <= Len(buffer)
      BY <2>2, <2>3
    <3>2. t \in Seq(Digit)
      BY <2>2
    <3> HIDE DEF r, l
    <3>3. /\ buffer \in Seq(Digit) /\ stream \in Seq(Digit)
          /\ q \in Seq(Digit) /\ t \in Seq(Digit)
      BY <1>3, <2>4, <3>2
    <3>4. r = After(buffer, q)
      BY DEF r, l, After
    <3>5. /\ SubSeq(buffer, 1, Len(q)) = q /\ After(buffer, q) \in Seq(Digit)
          /\ After(buffer, q) \o stream = t
      BY <3>1, <3>3, SplitAt
    <3> QED BY <3>4, <3>5 DEF l
  <2>6. buffer' = r /\ written' = Append(written, q)
    BY <1>9, <2>3, <2>4, <2>5
  <2> HIDE DEF r
  <2>7. written \in Seq(Packets) /\ sent \in Seq(Packets) /\ written' \in Seq(Packets)
    BY <1>3, <2>6, AppendProperties DEF Types
  <2>8. Types'
    BY <1>1, <1>2, <1>3, <2>5, <2>6, <2>7 DEF Types
  <2>9. IsPrefix(written', sent)
    <3>1. Len(written) \in Nat /\ Len(sent) \in Nat
      BY <2>7, LenProperties
    <3>2. \A i \in 1 .. Len(written) : written[i] = sent[i]
      BY <1>3, <2>7, PrefixIs DEF Framed
    <3>3. /\ Len(written') = Len(written) + 1
          /\ \A i \in 1 .. Len(written) : written'[i] = written[i]
          /\ written'[Len(written) + 1] = q
      BY <2>6, <2>7, AppendProperties
    <3>4. ASSUME NEW i \in 1 .. Len(written') PROVE written'[i] = sent[i]
      <4>1. i \in 1 .. Len(written) \/ i = Len(written) + 1
        BY <3>1, <3>3
      <4> QED BY <2>2, <3>2, <3>3, <4>1
    <3>5. Len(written') <= Len(sent)
      BY <2>2, <3>1, <3>3
    <3> QED BY <2>7, <3>4, <3>5, PrefixIs
  <2>10. FlattenSeq(written') \o buffer' \o stream = FlattenSeq(sent)
    <3> DEFINE w == FlattenSeq(written)
    <3>1. written \in Seq(Seq(Digit))
      BY <2>7, PacketSeqs
    <3>2. w \in Seq(Digit) /\ FlattenSeq(written') = w \o q
      BY <2>4, <2>6, <3>1, FlattenWhole, FlattenAppend
    <3>3. w \o buffer \o stream = FlattenSeq(sent)
      BY <1>3 DEF Framed
    <3> HIDE DEF w
    <3> HIDE DEF l
    <3>4. (w \o buffer) \o stream = w \o (buffer \o stream)
      <4>1. Groups(w, buffer, stream)
        BY <1>3, <3>2, Grouped DEF Types
      <4> QED BY <4>1 DEF Groups
    <3>5. w \o q \in Seq(Digit) /\ w \o (q \o t) = (w \o q) \o t
      <4>1. Groups(w, q, t)
        BY <2>4, <3>2, Grouped
      <4>2. w \o q \in Seq(Digit)
        BY <2>4, <3>2, ConcatProperties
      <4> QED BY <4>1, <4>2 DEF Groups
    <3>6. (w \o q) \o (r \o stream) = ((w \o q) \o r) \o stream
      <4>1. Groups(w \o q, r, stream)
        BY <1>3, <2>5, <3>5, Grouped
      <4> QED BY <4>1 DEF Groups
    <3> QED BY <2>2, <2>5, <2>6, <3>2, <3>3, <3>4, <3>5, <3>6
  <2> QED BY <1>1, <1>9, <2>8, <2>9, <2>10 DEF Framed
<1> QED BY <1>6, <1>7, <1>8, <1>9 DEF sinkPacket

\* Every step keeps the framing.
LEMMA OutputStepInv == OutputInv /\ [OutputNext]_outputVars => OutputInv'
<1> SUFFICES ASSUME OutputInv, [OutputNext]_outputVars PROVE OutputInv'
  OBVIOUS
<1>1. CASE UNCHANGED outputVars
  BY <1>1 DEF outputVars, OutputInv, Types, Framed, HoldsPacket, readPacketLength
<1> QED BY <1>1, SendStep, ReconnectStep, WriteStep, SinkStep DEF OutputNext

-----------------------------------------------------------------------------
\* As long as no tunnel breaks within a packet, IPPacketOutputStream writes the packets
\* of the relay one by one, whole and in order, keeps no whole packet back, and always
\* has room for the next read.
THEOREM VpnWritesWholePackets == OutputSpec => []WritesWholePackets
<1>1. OutputInv => WritesWholePackets
  <2> SUFFICES ASSUME OutputInv, ~cut
               PROVE  /\ IsPrefix(written, sent)
                      /\ FlattenSeq(written) \o buffer \o stream = FlattenSeq(sent)
                      /\ receiver = "receive" =>
                           /\ stream = << >> => written = sent
                           /\ Capacity - Len(buffer) >= MAX_IP_PACKET_LENGTH
    BY DEF WritesWholePackets
  <2>1. Types /\ Framed
    BY DEF OutputInv
  <2> QED BY <2>1, Between DEF Framed
<1> QED BY <1>1, OutputInitInv, OutputStepInv, PTL DEF OutputSpec

-----------------------------------------------------------------------------
(***************************************************************************)
(* The tunnel and its threads.                                             *)
(***************************************************************************)
\* Nothing was stopped, and every getCurrentTunnel() returned what it connected.
Calm == ~stopped /\ ~torn

\* While one worker holds the lock, the other one has no hold of the tunnel that
\* the first has opened.
Apart == \A v \in Worker : lock # None /\ lock # v /\ tunnel # None => my[v] # tunnel

\* The worker with the lock connects the current tunnel, and its message is to come.
Connecting ==
  \A w \in Worker :
    /\ pc[w] = "connect" => tunnel # None /\ status[tunnel] = "new" /\ shown # "up"
    /\ pc[w] = "connecting" => /\ tunnel # None /\ my[w] = tunnel
                               /\ status[tunnel] = "new" /\ shown # "up"
    /\ pc[w] = "notify" => tunnel # None /\ status[tunnel] \in {"connected", "broken"}

\* A worker that is about to invalidate has a tunnel that does not work.
Failed == \A w \in Worker :
            pc[w] = "invalidate" => my[w] # None /\ status[my[w]] # "connected"

\* What holds as long as nothing was stopped or torn.
Orderly == Calm => Apart /\ Connecting /\ Failed

\* A worker that connects a tunnel has one.
Held == \A w \in Worker : pc[w] \in {"connecting", "notify"} => my[w] # None

\* The inductive invariant.
IInv == /\ TypeOK /\ Held /\ OneTunnel /\ ListenerAgrees
        /\ main # "running" => stopped
        /\ Orderly

USE TunnelAssumption DEF Worker

\* A step closes a connected tunnel only after the stop or a torn return.
Closes == \A t \in Tunnels : status[t] = "connected" /\ status'[t] = "closed" => stopped \/ torn

\* Forwarder.forward() starts in a state of the invariant.
LEMMA Initially == Init => IInv
BY DEF Init, IInv, TypeOK, OneTunnel, ListenerAgrees, Orderly, Calm, Apart, Connecting, Failed,
       Worker, Locked, Held

\* open() makes a closed tunnel that nobody holds the current one.  The worker that
\* does it, and goes on to connect it, keeps the invariant.
LEMMA Opened ==
  ASSUME IInv, NEW w \in Worker, open, tunnel = None, lock \in {None, w}, pc[w] # "notify",
         lock' = w, Goto(w, "connect"), interrupted' \subseteq Worker,
         UNCHANGED <<first, notify_error, shown, my, torn, stopped, main, vpn, relay>>
  PROVE  IInv' /\ Closes
<1> USE DEF IInv, TypeOK, Locked, Goto
<1>1. late' \in BOOLEAN
  BY Zenon DEF open
<1>2. PICK t \in Tunnels : /\ tunnel' = t /\ status' = [status EXCEPT ![t] = "new"]
                           /\ status[t] = "closed" /\ \A v \in Worker : my[v] # t
  BY Zenon DEF open
<1>3. TypeOK' /\ Held'
  BY <1>1, <1>2 DEF Held
<1>4. OneTunnel'
  BY <1>2 DEF OneTunnel
<1>5. Calm => shown # "up"
  BY DEF ListenerAgrees, Calm
<1>6. Orderly'
  <2>1. Apart'
    BY <1>2 DEF Apart
  <2>2. Calm => Connecting'
    BY <1>2, <1>5 DEF Connecting
  <2>3. Calm => Failed'
    BY <1>2 DEF Failed, Orderly
  <2> QED BY <2>1, <2>2, <2>3 DEF Orderly, Calm
<1>7. ListenerAgrees'
  BY <1>2, <1>5 DEF ListenerAgrees, Calm
<1>8. Closes
  BY <1>2 DEF Closes
<1> QED BY <1>3, <1>4, <1>6, <1>7, <1>8

\* Every step of a worker keeps the invariant.
LEMMA WorkerStep ==
  ASSUME IInv, NEW w \in Worker, Step(w) PROVE IInv' /\ Closes
<1> USE DEF IInv, TypeOK, Held, OneTunnel, ListenerAgrees, Orderly, Calm, Apart, Connecting,
           Failed, Closes, Locked, Goto, provider_vars
<1>a. UNCHANGED <<stopped, main, vpn, relay>>
  BY DEF Step
<1>1. CASE top(w)
  BY <1>a, <1>1 DEF top
<1>2. CASE getCurrentTunnel(w)
  <2>1. pc[w] = "get" /\ lock = None /\ UNCHANGED <<first, notify_error, shown, interrupted, torn>>
    BY <1>a, <1>2 DEF getCurrentTunnel
  <2>2. CASE /\ tunnel # None /\ my' = [my EXCEPT ![w] = tunnel] /\ Goto(w, "use")
             /\ UNCHANGED <<tunnel, status, late, lock>>
    BY <1>a, <1>2, <2>1, <2>2
  <2>3. CASE tunnel = None /\ open /\ lock' = w /\ Goto(w, "connect") /\ UNCHANGED my
    BY <1>a, <1>2, <2>1, <2>3, Opened
  <2>4. CASE /\ tunnel = None /\ lock' = w /\ Goto(w, "wait")
             /\ UNCHANGED <<tunnel, status, late, my>>
    BY <1>a, <1>2, <2>1, <2>4
  <2> QED BY <1>a, <1>2, <2>2, <2>3, <2>4 DEF getCurrentTunnel
<1>3. CASE waitUntilNextAttemptSlot(w)
  <2>1. pc[w] = "wait" /\ UNCHANGED <<first, notify_error, shown, my, torn>>
    BY <1>a, <1>3 DEF waitUntilNextAttemptSlot
  <2>2. CASE /\ interrupted' = interrupted \ {w} /\ lock' = None
             /\ Goto(w, "top") /\ UNCHANGED <<tunnel, status, late>>
    BY <1>a, <1>3, <2>1, <2>2
  <2>3. CASE open /\ Goto(w, "connect") /\ UNCHANGED <<interrupted, lock>>
    BY <1>a, <1>3, <2>1, <2>3, Opened
  <2> QED BY <1>a, <1>3, <2>2, <2>3 DEF waitUntilNextAttemptSlot
<1>4. CASE connectTunnel(w)
  <2>1. notify_error' \in BOOLEAN
    BY <1>a, <1>4, Zenon DEF connectTunnel
  <2>2. /\ pc[w] = "connect" /\ first' = FALSE /\ my' = [my EXCEPT ![w] = tunnel]
        /\ UNCHANGED <<tunnel, status, late, shown, interrupted, torn>>
    BY <1>a, <1>4 DEF connectTunnel
  <2>3. CASE tunnel = None /\ Goto(w, "dead") /\ lock' = None
    <3>0. ~Calm
      BY <2>2, <2>3
    <3>1. TypeOK' /\ Held'
      BY <1>a, <1>4, <2>1, <2>2, <2>3, ZenonT(40)
    <3>2. OneTunnel'
      BY <1>a, <2>2, <2>3
    <3>3. Orderly' /\ ListenerAgrees'
      BY <1>a, <2>2, <3>0
    <3>5. Closes /\ (main # "running" => stopped)'
      BY <1>a, <2>2
    <3> QED BY <3>1, <3>2, <3>3, <3>5
  <2>4. CASE tunnel # None /\ Goto(w, "connecting") /\ UNCHANGED lock
    <3>1. TypeOK' /\ Held'
      BY <1>a, <1>4, <2>1, <2>2, <2>4, ZenonT(40)
    <3>2. OneTunnel'
      BY <1>a, <1>4, <2>1, <2>2, <2>4
    <3>3. Orderly'
      BY <1>a, <1>4, <2>1, <2>2, <2>4
    <3>4. ListenerAgrees'
      BY <1>a, <1>4, <2>1, <2>2, <2>4
    <3>5. Closes /\ (main # "running" => stopped)'
      BY <1>a, <1>4, <2>1, <2>2, <2>4
    <3> QED BY <3>1, <3>2, <3>3, <3>4, <3>5
  <2> QED BY <1>a, <1>4, <2>3, <2>4 DEF connectTunnel
<1>5. CASE connect(w)
  <2>1. /\ pc[w] = "connecting" /\ my[w] \in Tunnels
        /\ UNCHANGED <<tunnel, first, late, notify_error, interrupted, torn>>
    BY <1>a, <1>5 DEF connect
  <2>2. CASE /\ status[my[w]] = "new"
             /\ status' = [status EXCEPT ![my[w]] = "connected"] /\ Goto(w, "notify")
             /\ UNCHANGED <<shown, lock, my>>
    BY <1>a, <1>5, <2>1, <2>2
  <2>3. CASE /\ relay = "down" \/ status[my[w]] = "closed"
             /\ shown' = IF notify_error THEN "down" ELSE shown
             /\ lock' = None /\ my' = [my EXCEPT ![w] = None] /\ Goto(w, "top")
             /\ UNCHANGED status
    BY <1>a, <1>5, <2>1, <2>3
  <2> QED BY <1>a, <1>5, <2>2, <2>3 DEF connect
<1>6. CASE notifyConnected(w)
  BY <1>a, <1>6 DEF notifyConnected
<1>7. CASE return(w)
  <2>0. torn' \in BOOLEAN
    BY <1>a, <1>7, Zenon DEF return
  <2>1. TypeOK' /\ Held'
    BY <1>a, <1>7, <2>0 DEF return
  <2>2. OneTunnel'
    BY <1>a, <1>7, <2>0 DEF return
  <2>3. Orderly'
    BY <1>a, <1>7, <2>0 DEF return
  <2>4. ListenerAgrees'
    BY <1>a, <1>7, <2>0 DEF return
  <2>5. Closes /\ (main # "running" => stopped)'
    BY <1>a, <1>7, <2>0 DEF return
  <2> QED BY <2>1, <2>2, <2>3, <2>4, <2>5
<1>8. CASE fails(w)
  BY <1>a, <1>8 DEF fails
<1>9. CASE invalidateTunnel(w)
  <2>1. TypeOK' /\ Held'
    <3>0. /\ tunnel' \in Tunnels \cup {None} /\ shown' \in {"none", "up", "down"}
          /\ status' \in [Tunnels -> {"new", "connected", "broken", "closed"}]
      BY <1>9 DEF invalidateTunnel, invalidate
    <3>1. TypeOK'
      BY <1>a, <1>9, <3>0 DEF invalidateTunnel
    <3>2. Held'
      BY <1>a, <1>9, <3>0 DEF invalidateTunnel
    <3> QED BY <3>1, <3>2
  <2>2. OneTunnel'
    BY <1>a, <1>9 DEF invalidateTunnel, invalidate
  <2>3. Orderly'
    BY <1>a, <1>9 DEF invalidateTunnel, invalidate
  <2>4. ListenerAgrees'
    BY <1>a, <1>9 DEF invalidateTunnel, invalidate
  <2>5. Closes /\ (main # "running" => stopped)'
    BY <1>a, <1>9 DEF invalidateTunnel, invalidate
  <2> QED BY <2>1, <2>2, <2>3, <2>4, <2>5
<1>10. CASE send
  BY <1>a, <1>10 DEF send
<1> QED BY <1>1, <1>2, <1>3, <1>4, <1>5, <1>6, <1>7, <1>8, <1>9, <1>10 DEF Step

\* Every step, of a worker, of the main thread or of the environment, keeps it.
LEMMA NextStep ==
  ASSUME IInv, [Next]_vars PROVE IInv' /\ Closes
<1> USE DEF IInv, TypeOK, Held, OneTunnel, ListenerAgrees, Orderly, Calm, Apart, Connecting,
           Failed, Closes, Locked, Goto, provider_vars
<1>1. ASSUME NEW w \in Worker, Step(w) PROVE IInv' /\ Closes
  BY <1>1, WorkerStep
<1>2. CASE forwardDeviceToTunnel
  BY <1>2 DEF forwardDeviceToTunnel
<1>3. CASE receive
  BY <1>3 DEF receive
<1>4. CASE stop
  <2>0. UNCHANGED <<pc, my, relay>>
    BY <1>4 DEF stop
  <2>1. CASE /\ main = "running" /\ main' = "close" /\ stopped' = TRUE
             /\ UNCHANGED <<provider_vars, interrupted, vpn>>
    BY <2>0, <2>1
  <2>2. CASE close
    BY <2>0, <2>2 DEF close, invalidate
  <2>3. CASE /\ main = "cancel" /\ main' = "wake" /\ interrupted' = Worker
             /\ UNCHANGED <<provider_vars, stopped, vpn>>
    BY <2>0, <2>3
  <2>4. CASE /\ main = "wake" /\ main' = "done" /\ vpn' = "v4"
             /\ UNCHANGED <<provider_vars, stopped, interrupted>>
    BY <2>0, <2>4
  <2> QED BY <1>4, <2>1, <2>2, <2>3, <2>4 DEF stop
<1>5. ASSUME NEW p \in {"v4", "other"}, Packet(p) PROVE IInv' /\ Closes
  BY <1>5 DEF Packet
<1>6. ASSUME NEW r \in {"up", "down", "mute"}, RelayIs(r) PROVE IInv' /\ Closes
  BY <1>6 DEF RelayIs
<1>7. CASE UNCHANGED vars
  BY <1>7 DEF vars
<1> QED BY <1>1, <1>2, <1>3, <1>4, <1>5, <1>6, <1>7 DEF Next

-----------------------------------------------------------------------------
\* The inductive invariant holds in every reachable state.
LEMMA Invariant == Spec => []IInv
<1> QED BY Initially, NextStep, PTL DEF Spec

\* getCurrentTunnelLock is held exactly while a worker opens and connects a tunnel,
\* and every field of the provider and of the workers keeps its type.
THEOREM TunnelTypes == Spec => []TypeOK
<1>1. IInv => TypeOK
  BY DEF IInv
<1> QED BY <1>1, Invariant, PTL

\* For every set of tunnel objects: the two workers of the Forwarder share one
\* tunnel of the RelayTunnelProvider; every other one is closed.
THEOREM WorkersShareOneTunnel == Spec => []OneTunnel
<1>1. IInv => OneTunnel
  BY DEF IInv
<1> QED BY <1>1, Invariant, PTL

\* For every set of tunnel objects: the listener of the Forwarder was last told the
\* state of the current tunnel, whichever worker connected or lost it.
THEOREM ListenerIsRight == Spec => []ListenerAgrees
<1>1. IInv => ListenerAgrees
  BY DEF IInv
<1> QED BY <1>1, Invariant, PTL

\* For every set of tunnel objects: until the stop no worker closes a tunnel that
\* works, in particular not the one that the other worker opened meanwhile.
THEOREM OnlyBrokenClosed == Spec => ClosesOnlyBroken
<1>1. IInv /\ [Next]_vars =>
        [\A t \in Tunnels : status[t] = "connected" /\ status'[t] = "closed"
                            => stopped \/ torn]_vars
  BY NextStep DEF Closes
<1> QED BY <1>1, Invariant, PTL DEF Spec, ClosesOnlyBroken
=============================================================================
