-------------------------- MODULE PacketPathProofs --------------------------
(***************************************************************************)
(* The way of packets through the relay, for all packets a device may      *)
(* send, all payloads and all sizes of the buffer: the packets are cut out *)
(* of the stream whole, and every answer is a well-formed packet back.     *)
(***************************************************************************)
EXTENDS PacketPath, Lemmas

(***************************************************************************)
(* From the tunnel to the router.                                          *)
(***************************************************************************)
\* The packets of done were taken from the stream, whose next bytes are b and then t.
Framed(done, b, t) ==
  \E left \in Seq(Seq(Byte)) : sent = done \o left /\ b \o t = FlattenSeq(left)

\* A packet tells its length in the bytes 2 and 3.
LEMMA PacketLength ==
  ASSUME NEW p \in Seq(Byte), WellFormed(p)
  PROVE  Len(p) \in Nat /\ Len(p) >= 20 /\ read_u16(p, 2) = Len(p)
<1>1. Len(p) \in Nat
  BY LenProperties
<1> QED BY <1>1 DEF WellFormed, Ipv4HeaderData

\* The buffer has a packet when it holds all the bytes of the next one.
LEMMA HasFirst ==
  ASSUME NEW b \in Seq(Byte), NEW t \in Seq(Byte), NEW p \in Seq(Byte), NEW z \in Seq(Byte),
         WellFormed(p), b \o t = p \o z
  PROVE  /\ has_packet(b) <=> Len(p) <= Len(b)
         /\ has_packet(b) => read_u16(b, 2) = Len(p)
<1>1. /\ Len(b) \in Nat /\ Len(t) \in Nat /\ Len(p) \in Nat /\ Len(z) \in Nat
      /\ Len(p) >= 20 /\ read_u16(p, 2) = Len(p)
  BY PacketLength, LenProperties
<1>2. CASE Len(b) < 4
  BY <1>1, <1>2 DEF has_packet
<1>3. CASE Len(b) >= 4
  <2>1. ASSUME NEW i \in {3, 4} PROVE b[i] = p[i]
    <3>1. i \in 1 .. Len(b) + Len(t) /\ i <= Len(b) /\ i \in 1 .. Len(p) + Len(z) /\ i <= Len(p)
      BY <1>1, <1>3
    <3>2. (b \o t)[i] = b[i]
      BY <3>1, ConcatProperties
    <3>3. (p \o z)[i] = p[i]
      BY <3>1, ConcatProperties
    <3> QED BY <3>2, <3>3
  <2>2. b[2 + 1] = p[2 + 1] /\ b[2 + 2] = p[2 + 2]
    BY <2>1
  <2>3. read_u16(b, 2) = read_u16(p, 2)
    BY <2>2 DEF read_u16
  <2> QED BY <1>1, <1>3, <2>3 DEF has_packet
<1> QED BY <1>1, <1>2, <1>3

\* The packets that a device sends.
LEMMA SentIs ==
  ASSUME sent \in Streams
  PROVE  /\ sent \in Seq(Seq(Byte))
         /\ \A i \in 1 .. Len(sent) :
              /\ sent[i] \in Seq(Byte) /\ WellFormed(sent[i]) /\ Len(sent[i]) <= MAX_PACKET_LENGTH
              /\ \A payload \in Payloads : Answerable(sent[i], payload)
<1>1. sent \in Seq(Seq(Byte)) /\ DOMAIN sent = 1 .. Len(sent)
  BY PathAssumption, LenProperties
<1>2. \A i \in 1 .. Len(sent) : sent[i] \in Seq(Byte)
  BY <1>1, ElementOfSeq
<1> QED BY <1>1, <1>2, PathAssumption

\* Bytes that are cut in two.
LEMMA CutBytes ==
  ASSUME NEW raw \in Seq(Byte), NEW n \in 0 .. Len(raw)
  PROVE  /\ bytes(raw, 0, n) \in Seq(Byte) /\ Len(bytes(raw, 0, n)) = n
         /\ bytes(raw, n, Len(raw)) \in Seq(Byte) /\ Len(bytes(raw, n, Len(raw))) = Len(raw) - n
         /\ bytes(raw, 0, n) \o bytes(raw, n, Len(raw)) = raw
<1>1. bytes(raw, 0, n) = SubSeq(raw, 1, n) /\ bytes(raw, n, Len(raw)) = SubSeq(raw, n + 1, Len(raw))
  BY DEF bytes
<1>2. /\ SubSeq(raw, 1, n) \in Seq(Byte) /\ Len(SubSeq(raw, 1, n)) = n
      /\ SubSeq(raw, n + 1, Len(raw)) \in Seq(Byte) /\ Len(SubSeq(raw, n + 1, Len(raw))) = Len(raw) - n
      /\ SubSeq(raw, 1, n) \o SubSeq(raw, n + 1, Len(raw)) = raw
  <2> DEFINE S == Byte
  <2>1. raw \in Seq(S)
    OBVIOUS
  <2> HIDE DEF S
  <2>2. /\ SubSeq(raw, 1, n) \in Seq(S) /\ Len(SubSeq(raw, 1, n)) = n
        /\ SubSeq(raw, n + 1, Len(raw)) \in Seq(S) /\ Len(SubSeq(raw, n + 1, Len(raw))) = Len(raw) - n
        /\ SubSeq(raw, 1, n) \o SubSeq(raw, n + 1, Len(raw)) = raw
    BY <2>1, CutAt
  <2> QED BY <2>2 DEF S
<1> QED BY <1>1, <1>2

\* The next packet is one that the device sent.
LEMMA NextSent ==
  ASSUME sent \in Streams, NEW done \in Seq(Seq(Byte)), NEW left \in Seq(Seq(Byte)),
         sent = done \o left, left # << >>
  PROVE  /\ Head(left) \in Seq(Byte) /\ Tail(left) \in Seq(Seq(Byte))
         /\ WellFormed(Head(left)) /\ Len(Head(left)) <= MAX_PACKET_LENGTH
         /\ FlattenSeq(left) = Head(left) \o FlattenSeq(Tail(left))
         /\ FlattenSeq(Tail(left)) \in Seq(Byte)
         /\ Append(done, Head(left)) \in Seq(Seq(Byte))
         /\ sent = Append(done, Head(left)) \o Tail(left)
<1>1. /\ Head(left) \in Seq(Byte) /\ Tail(left) \in Seq(Seq(Byte))
      /\ FlattenSeq(left) = Head(left) \o FlattenSeq(Tail(left))
  BY FlattenCons
<1>2. FlattenSeq(Tail(left)) \in Seq(Byte)
  BY <1>1, FlattenWhole
<1>3. Len(done) \in Nat /\ Len(left) \in Nat /\ Len(left) # 0 /\ Head(left) = left[1]
  BY EmptySeq, LenProperties, HeadTailProperties
<1>4. Len(sent) = Len(done) + Len(left) /\ sent[Len(done) + 1] = left[1]
  <2>1. /\ Len(done) + 1 \in 1 .. Len(done) + Len(left) /\ ~(Len(done) + 1 <= Len(done))
        /\ (Len(done) + 1) - Len(done) = 1
    BY <1>3
  <2>2. (done \o left)[Len(done) + 1] = left[(Len(done) + 1) - Len(done)]
    BY <2>1, ConcatProperties
  <2> QED BY <2>1, <2>2, ConcatProperties
<1>5. WellFormed(Head(left)) /\ Len(Head(left)) <= MAX_PACKET_LENGTH
  <2>1. Len(done) + 1 \in 1 .. Len(sent)
    BY <1>3, <1>4
  <2> QED BY <1>3, <1>4, <2>1, SentIs
<1> DEFINE one == <<Head(left)>>
<1>6. /\ one \in Seq(Seq(Byte)) /\ Append(done, Head(left)) = done \o one
      /\ left = one \o Tail(left)
  <2>1. one \in Seq(Seq(Byte))
    BY <1>1
  <2>2. Append(done, Head(left)) = done \o one
    BY <1>1, AppendIsConcat
  <2>3. left = one \o Tail(left)
    BY HeadTailProperties, AppendIsConcat
  <2> QED BY <2>1, <2>2, <2>3
<1>7. (done \o one) \o Tail(left) = done \o (one \o Tail(left))
  <2> HIDE DEF one
  <2>1. one \in Seq(Seq(Byte)) /\ Tail(left) \in Seq(Seq(Byte))
    BY <1>1, <1>6
  <2>2. Groups(done, one, Tail(left))
    BY <2>1, Grouped
  <2> QED BY <2>2 DEF Groups
<1>8. Append(done, Head(left)) \in Seq(Seq(Byte))
  BY <1>1, AppendProperties
<1> QED BY <1>1, <1>2, <1>5, <1>6, <1>7, <1>8

\* What is left of the stream, when the buffer has a packet and when it has none.
LEMMA FramedNext ==
  ASSUME sent \in Streams, NEW done \in Seq(Seq(Byte)), NEW b \in Seq(Byte), NEW t \in Seq(Byte),
         NEW left \in Seq(Seq(Byte)), sent = done \o left, b \o t = FlattenSeq(left)
  PROVE  /\ has_packet(b) => left # << >>
         /\ left = << >> => b = << >> /\ t = << >>
         /\ left # << >> => /\ has_packet(b) <=> Len(Head(left)) <= Len(b)
                            /\ has_packet(b) => read_u16(b, 2) = Len(Head(left))
                            /\ Len(Head(left)) \in 20 .. MAX_PACKET_LENGTH
<1>1. Len(b) \in Nat /\ Len(t) \in Nat
  BY LenProperties
<1>2. ASSUME left = << >> PROVE b = << >> /\ t = << >>
  <2>1. b \o t = << >>
    BY <1>2 DEF FlattenSeq
  <2>2. Len(b \o t) = Len(b) + Len(t)
    BY ConcatProperties
  <2>3. Len(b) = 0 /\ Len(t) = 0
    BY <1>1, <2>1, <2>2
  <2> QED BY <2>3, EmptySeq
<1>3. ASSUME left # << >>
      PROVE  /\ has_packet(b) <=> Len(Head(left)) <= Len(b)
             /\ has_packet(b) => read_u16(b, 2) = Len(Head(left))
             /\ Len(Head(left)) \in 20 .. MAX_PACKET_LENGTH
  <2> DEFINE p == Head(left)
             z == FlattenSeq(Tail(left))
  <2>1. /\ p \in Seq(Byte) /\ z \in Seq(Byte) /\ WellFormed(p) /\ b \o t = p \o z
        /\ Len(p) <= MAX_PACKET_LENGTH
    BY <1>3, NextSent
  <2> HIDE DEF p, z
  <2>2. (has_packet(b) <=> Len(p) <= Len(b)) /\ (has_packet(b) => read_u16(b, 2) = Len(p))
    BY <2>1, HasFirst
  <2>3. Len(p) \in 20 .. MAX_PACKET_LENGTH
    BY <2>1, PacketLength, PathAssumption
  <2> QED BY <2>2, <2>3 DEF p
<1>4. left = << >> => ~has_packet(b)
  BY <1>1, <1>2, EmptySeq DEF has_packet
<1> QED BY <1>2, <1>3, <1>4

\* A round takes the next packet from the buffer, whole.
LEMMA PushFramed ==
  ASSUME sent \in Streams, NEW done \in Seq(Seq(Byte)), NEW t \in Seq(Byte),
         NEW s \in [packets : Seq(Seq(Byte)), rest : Seq(Byte)],
         Framed(done \o s.packets, s.rest, t)
  PROVE  /\ push(s) \in [packets : Seq(Seq(Byte)), rest : Seq(Byte)]
         /\ Framed(done \o push(s).packets, push(s).rest, t)
         /\ ~has_packet(s.rest) => push(s) = s
         /\ has_packet(s.rest) => Len(push(s).rest) < Len(s.rest)
<1> DEFINE b == s.rest
           all == done \o s.packets
<1>1. CASE ~has_packet(b)
  <2>1. push(s) = s
    BY <1>1 DEF push
  <2> QED BY <1>1, <2>1
<1>2. CASE has_packet(b)
  <2>1. PICK left \in Seq(Seq(Byte)) : sent = all \o left /\ b \o t = FlattenSeq(left)
    BY DEF Framed
  <2>2. s.packets \in Seq(Seq(Byte)) /\ b \in Seq(Byte) /\ all \in Seq(Seq(Byte))
    BY ConcatProperties
  <2> DEFINE p == Head(left)
             u == Tail(left)
             more == [packets |-> Append(s.packets, p), rest |-> After(b, p)]
  <2> HIDE DEF b, all
  <2>3. left # << >> /\ read_u16(b, 2) = Len(p) /\ Len(p) <= Len(b) /\ Len(p) \in 20 .. MAX_PACKET_LENGTH
    BY <1>2, <2>1, <2>2, FramedNext
  <2>4. /\ p \in Seq(Byte) /\ u \in Seq(Seq(Byte)) /\ FlattenSeq(u) \in Seq(Byte)
        /\ b \o t = p \o FlattenSeq(u)
        /\ Append(all, p) \in Seq(Seq(Byte)) /\ sent = Append(all, p) \o u
    BY <2>1, <2>2, <2>3, NextSent
  <2>5. SubSeq(b, 1, Len(p)) = p /\ After(b, p) \in Seq(Byte) /\ After(b, p) \o t = FlattenSeq(u)
    <3> HIDE DEF p, u
    <3> DEFINE S == Byte
               z == FlattenSeq(u)
    <3>1. /\ b \in Seq(S) /\ t \in Seq(S) /\ p \in Seq(S) /\ z \in Seq(S)
          /\ b \o t = p \o z /\ Len(p) <= Len(b)
      BY <2>2, <2>3, <2>4
    <3> HIDE DEF S, z
    <3>2. SubSeq(b, 1, Len(p)) = p /\ After(b, p) \in Seq(S) /\ After(b, p) \o t = z
      BY <3>1, SplitAt
    <3> QED BY <3>2 DEF S, z
  <2>6. push(s) = more
    <3>1. bytes(b, 0, Len(p)) = p /\ consume(b, Len(p)) = After(b, p)
      BY <2>5 DEF bytes, consume, After
    <3>2. push(s) = [packets |-> Append(s.packets, bytes(b, 0, Len(p))), rest |-> consume(b, Len(p))]
      BY <1>2, <2>3 DEF push, b
    <3> QED BY <3>1, <3>2
  <2>7. /\ Append(s.packets, p) \in Seq(Seq(Byte))
        /\ done \o Append(s.packets, p) = Append(all, p)
    <3> DEFINE one == <<p>>
    <3> HIDE DEF p
    <3>1. one \in Seq(Seq(Byte)) /\ Append(s.packets, p) = s.packets \o one /\ Append(all, p) = all \o one
      <4>1. one \in Seq(Seq(Byte))
        BY <2>4
      <4>2. Append(s.packets, p) = s.packets \o one
        BY <2>2, <2>4, AppendIsConcat
      <4>3. Append(all, p) = all \o one
        BY <2>2, <2>4, AppendIsConcat
      <4> QED BY <4>1, <4>2, <4>3
    <3> HIDE DEF one
    <3>2. (done \o s.packets) \o one = done \o (s.packets \o one)
      <4>1. Groups(done, s.packets, one)
        BY <2>2, <3>1, Grouped
      <4> QED BY <4>1 DEF Groups
    <3>3. Append(s.packets, p) \in Seq(Seq(Byte))
      BY <2>2, <2>4, AppendProperties
    <3> QED BY <3>1, <3>2, <3>3 DEF all
  <2>8. Len(After(b, p)) < Len(b)
    <3>1. Len(p) \in 0 .. Len(b) /\ Len(b) \in Nat /\ Len(p) >= 20
      BY <2>2, <2>3, LenProperties
    <3>2. Len(SubSeq(b, Len(p) + 1, Len(b))) = Len(b) - Len(p)
      BY <2>2, <3>1, CutAt
    <3> QED BY <3>1, <3>2 DEF After
  <2>9. Framed(done \o Append(s.packets, p), After(b, p), t)
    <3> HIDE DEF p, u
    <3> QED BY <2>4, <2>5, <2>7 DEF Framed
  <2> DEFINE c == Append(s.packets, p)
             r == After(b, p)
  <2>10. /\ push(s) = [packets |-> c, rest |-> r] /\ c \in Seq(Seq(Byte)) /\ r \in Seq(Byte)
         /\ Framed(done \o c, r, t) /\ Len(r) < Len(b)
    BY <2>5, <2>6, <2>7, <2>8, <2>9
  <2> HIDE DEF p, c, r
  <2>11. /\ push(s) \in [packets : Seq(Seq(Byte)), rest : Seq(Byte)]
         /\ push(s).packets = c /\ push(s).rest = r
    BY <2>10
  <2>12. Framed(done \o push(s).packets, push(s).rest, t) /\ Len(push(s).rest) < Len(b)
    BY <2>10, <2>11
  <2> QED BY <1>2, <2>11, <2>12 DEF b
<1> QED BY <1>1, <1>2

\* The rounds of push_to_network(), as a function.
Rounds(f, b, n) == f = [k \in 0 .. n |-> IF k = 0 THEN [packets |-> << >>, rest |-> b]
                                                  ELSE push(f[k - 1])]

LEMMA RoundsExist == ASSUME NEW b, NEW n \in Nat PROVE \E f : Rounds(f, b, n)
<1> DEFINE start == [packets |-> << >>, rest |-> b]
           T == {m \in Nat : \E f : Rounds(f, b, m)}
<1>1. 0 \in T
  <2> DEFINE f == [k \in 0 .. 0 |-> start]
  <2>1. Rounds(f, b, 0)
    BY DEF Rounds
  <2> HIDE DEF f
  <2> QED BY <2>1
<1>2. ASSUME NEW m \in Nat, m \in T PROVE m + 1 \in T
  <2>1. PICK f : Rounds(f, b, m)
    BY <1>2
  <2> DEFINE u == [k \in 0 .. m + 1 |-> IF k \in 0 .. m THEN f[k] ELSE push(f[k - 1])]
  <2>2. ASSUME NEW k \in 0 .. m + 1 PROVE u[k] = IF k = 0 THEN start ELSE push(u[k - 1])
    <3>1. CASE k = 0
      <4>1. k \in 0 .. m /\ f[k] = start
        BY <2>1, <3>1 DEF Rounds
      <4> QED BY <3>1, <4>1
    <3>2. CASE k # 0
      <4>1. k - 1 \in 0 .. m /\ k - 1 \in 0 .. m + 1
        BY <3>2
      <4>2. u[k - 1] = f[k - 1]
        BY <4>1
      <4>3. k \in 0 .. m => f[k] = push(f[k - 1])
        BY <2>1, <3>2 DEF Rounds
      <4>4. u[k] = push(f[k - 1])
        BY <4>3
      <4> QED BY <3>2, <4>2, <4>4
    <3> QED BY <3>1, <3>2
  <2>3. Rounds(u, b, m + 1)
    <3>1. u = [k \in 0 .. m + 1 |-> u[k]]
      OBVIOUS
    <3> HIDE DEF u
    <3>2. [k \in 0 .. m + 1 |-> u[k]]
            = [k \in 0 .. m + 1 |-> IF k = 0 THEN start ELSE push(u[k - 1])]
      BY <2>2, Zenon
    <3> QED BY <3>1, <3>2, Zenon DEF Rounds
  <2> HIDE DEF u
  <2> QED BY <2>3
<1> HIDE DEF T
<1>3. n \in T
  BY <1>1, <1>2, SetInduction
<1> QED BY <1>3 DEF T

\* push_to_network() cuts all the full packets, and keeps the rest.
LEMMA PushToNetwork ==
  ASSUME sent \in Streams, NEW done \in Seq(Seq(Byte)), NEW b \in Seq(Byte), NEW t \in Seq(Byte),
         Framed(done, b, t)
  PROVE  /\ push_to_network(b) \in [packets : Seq(Seq(Byte)), rest : Seq(Byte)]
         /\ Framed(done \o push_to_network(b).packets, push_to_network(b).rest, t)
         /\ ~has_packet(push_to_network(b).rest)
<1> DEFINE Cut == [packets : Seq(Seq(Byte)), rest : Seq(Byte)]
           n == Len(b)
           round == CHOOSE f : Rounds(f, b, n)
           Good(k) == /\ round[k] \in Cut /\ Framed(done \o round[k].packets, round[k].rest, t)
                      /\ has_packet(round[k].rest) => Len(round[k].rest) + k <= n
           T == {k \in Nat : k <= n => Good(k)}
<1>1. n \in Nat
  BY LenProperties
<1>2. Rounds(round, b, n)
  BY <1>1, RoundsExist
<1>3. push_to_network(b) = round[n]
  BY DEF push_to_network, Rounds
<1> HIDE DEF round
<1>4. round[0] = [packets |-> << >>, rest |-> b] /\ \A k \in 1 .. n : round[k] = push(round[k - 1])
  <2>1. 0 \in 0 .. n /\ \A k \in 1 .. n : k \in 0 .. n /\ k # 0
    BY <1>1
  <2> QED BY <1>2, <2>1 DEF Rounds
<1>5. 0 \in T
  <2>1. round[0] \in Cut /\ round[0].packets = << >> /\ round[0].rest = b
    BY <1>4
  <2>2. done \o << >> = done
    BY ConcatEmptySeq
  <2>3. Framed(done \o round[0].packets, round[0].rest, t) /\ Len(round[0].rest) + 0 <= n
    BY <1>1, <2>1, <2>2
  <2>4. Good(0)
    BY <2>1, <2>3
  <2> HIDE DEF Good, n
  <2> QED BY <2>4
<1>6. ASSUME NEW k \in Nat, k \in T PROVE k + 1 \in T
  <2> SUFFICES ASSUME k + 1 <= n PROVE Good(k + 1)
    <3> HIDE DEF Good, n
    <3> QED OBVIOUS
  <2> DEFINE s == round[k]
             z == round[k + 1]
  <2>1. s \in Cut /\ Framed(done \o s.packets, s.rest, t) /\ (has_packet(s.rest) => Len(s.rest) + k <= n)
    BY <1>1, <1>6
  <2>2. z = push(s)
    <3>1. k + 1 \in 1 .. n /\ (k + 1) - 1 = k
      BY <1>1
    <3> QED BY <1>4, <3>1
  <2> HIDE DEF s, z, T
  <2>3. /\ z \in Cut /\ Framed(done \o z.packets, z.rest, t)
        /\ ~has_packet(s.rest) => z = s
        /\ has_packet(s.rest) => Len(z.rest) < Len(s.rest)
    BY <2>1, <2>2, PushFramed
  <2>4. Len(s.rest) \in Nat /\ Len(z.rest) \in Nat
    BY <2>1, <2>3, LenProperties
  <2>5. has_packet(z.rest) => Len(z.rest) + (k + 1) <= n
    BY <1>1, <2>1, <2>3, <2>4
  <2> QED BY <2>3, <2>5 DEF z
<1> HIDE DEF T, Good
<1>7. n \in T
  BY <1>1, <1>5, <1>6, SetInduction
<1>8. Good(n)
  BY <1>1, <1>7 DEF T
<1>9. ~has_packet(round[n].rest)
  <2>1. round[n].rest \in Seq(Byte) /\ (has_packet(round[n].rest) => Len(round[n].rest) + n <= n)
    BY <1>8 DEF Good
  <2>2. Len(round[n].rest) \in Nat
    BY <2>1, LenProperties
  <2> HIDE DEF n
  <2>3. has_packet(round[n].rest) => Len(round[n].rest) >= 4
    BY DEF has_packet
  <2> QED BY <1>1, <2>1, <2>2, <2>3
<1> QED BY <1>3, <1>8, <1>9 DEF Good


\* What holds of the bytes on their way.
Delivery == /\ sent \in Streams /\ stream \in Seq(Byte) /\ buf \in Seq(Byte)
            /\ delivered \in Seq(Seq(Byte))
            /\ Framed(delivered, buf, stream)
            /\ ~has_packet(buf) /\ ~closed

LEMMA InitDelivery == Init => Delivery
<1> SUFFICES ASSUME Init PROVE Delivery
  OBVIOUS
<1>1. sent \in Streams /\ sent \in Seq(Seq(Byte))
  BY SentIs DEF Init
<1>2. stream = FlattenSeq(sent) /\ stream \in Seq(Byte)
  <2>1. FlattenSeq(sent) \in Seq(Byte)
    BY <1>1, FlattenWhole
  <2> QED BY <2>1 DEF Init
<1>3. << >> \o sent = sent /\ << >> \o stream = stream
  BY <1>1, <1>2, ConcatEmptySeq
<1>4. Framed(<< >>, << >>, stream)
  BY <1>1, <1>2, <1>3 DEF Framed
<1>5. ~has_packet(<< >>)
  BY EmptySeq DEF has_packet
<1>6. << >> \in Seq(Byte) /\ << >> \in Seq(Seq(Byte))
  BY EmptySeq
<1> QED BY <1>1, <1>2, <1>4, <1>5, <1>6 DEF Init, Delivery

\* The buffer has room while the tunnel has bytes.
LEMMA RoomForMore ==
  ASSUME Delivery
  PROVE  /\ Len(buf) \in Nat /\ Len(buf) <= MAX_PACKET_LENGTH
         /\ stream # << >> => Len(buf) < MAX_PACKET_LENGTH
<1>1. PICK left \in Seq(Seq(Byte)) : sent = delivered \o left /\ buf \o stream = FlattenSeq(left)
  BY DEF Delivery, Framed
<1>2. /\ left = << >> => buf = << >> /\ stream = << >>
      /\ left # << >> => /\ has_packet(buf) <=> Len(Head(left)) <= Len(buf)
                         /\ Len(Head(left)) \in 20 .. MAX_PACKET_LENGTH
  BY <1>1, FramedNext DEF Delivery
<1>3. Len(buf) \in Nat /\ MAX_PACKET_LENGTH \in Nat /\ (buf = << >> => Len(buf) = 0)
  BY LenProperties, EmptySeq, PathAssumption DEF Delivery
<1> QED BY <1>2, <1>3 DEF Delivery

LEMMA ReceiveDelivery ==
  ASSUME Delivery, NEW n \in 0 .. MAX_PACKET_LENGTH, process_receive(n)
  PROVE  Delivery'
<1> DEFINE more == bytes(stream, 0, n)
           t == bytes(stream, n, Len(stream))
           b == buf \o more
           pushed == push_to_network(b)
<1>1. n \in 0 .. Len(stream) /\ n # 0
  <2>1. MAX_PACKET_LENGTH \in Nat /\ n \in Nat /\ Len(buf) \in Nat /\ Len(buf) < MAX_PACKET_LENGTH
    BY RoomForMore, PathAssumption DEF process_receive
  <2> QED BY <2>1 DEF process_receive, buffer_length
<1>2. more \in Seq(Byte) /\ t \in Seq(Byte) /\ more \o t = stream
  <2>1. stream \in Seq(Byte)
    BY DEF Delivery
  <2> QED BY <1>1, <2>1, CutBytes
<1>3. /\ buf' = pushed.rest /\ delivered' = delivered \o pushed.packets
      /\ stream' = t /\ closed' = (n = 0) /\ sent' = sent
  BY DEF process_receive
<1> HIDE DEF more, t
<1>4. b \in Seq(Byte) /\ Framed(delivered, b, t)
  <2>1. buf \in Seq(Byte) /\ delivered \in Seq(Seq(Byte))
    BY DEF Delivery
  <2>2. (buf \o more) \o t = buf \o (more \o t)
    <3>1. Groups(buf, more, t)
      BY <1>2, <2>1, Grouped
    <3> QED BY <3>1 DEF Groups
  <2>3. b \in Seq(Byte)
    BY <1>2, <2>1, ConcatProperties
  <2> QED BY <1>2, <2>2, <2>3 DEF Delivery, Framed
<1> HIDE DEF b
<1>5. /\ pushed \in [packets : Seq(Seq(Byte)), rest : Seq(Byte)]
      /\ Framed(delivered \o pushed.packets, pushed.rest, t)
      /\ ~has_packet(pushed.rest)
  BY <1>2, <1>4, PushToNetwork DEF Delivery
<1> HIDE DEF pushed
<1>6. pushed.packets \in Seq(Seq(Byte)) /\ pushed.rest \in Seq(Byte)
  BY <1>5
<1>7. delivered' \in Seq(Seq(Byte)) /\ buf' \in Seq(Byte) /\ stream' \in Seq(Byte) /\ ~closed'
  <2>1. delivered \in Seq(Seq(Byte))
    BY DEF Delivery
  <2>2. delivered \o pushed.packets \in Seq(Seq(Byte))
    BY <1>6, <2>1, ConcatProperties
  <2> QED BY <1>1, <1>2, <1>3, <1>6, <2>2
<1>8. Framed(delivered, buf, stream)'
  BY <1>3, <1>5 DEF Framed
<1>9. ~has_packet(buf)' /\ (sent \in Streams)'
  BY <1>3, <1>5 DEF Delivery, has_packet, read_u16
<1> QED BY <1>7, <1>8, <1>9 DEF Delivery

LEMMA StepDelivery == Delivery /\ [Next]_vars => Delivery'
<1> SUFFICES ASSUME Delivery, [Next]_vars PROVE Delivery'
  OBVIOUS
<1>1. CASE Receive
  BY <1>1, ReceiveDelivery DEF Receive
<1>2. CASE UNCHANGED <<sent, stream, buf, delivered, closed>>
  BY <1>2 DEF Delivery, Framed, has_packet, read_u16
<1>3. CASE Create
  BY <1>2, <1>3 DEF Create, create
<1>4. CASE Answer
  BY <1>2, <1>4 DEF Answer, packetize_read, packetize_empty_payload, packetize, Built
<1>5. CASE UNCHANGED vars
  BY <1>2, <1>5 DEF vars
<1> QED BY <1>1, <1>3, <1>4, <1>5 DEF Next

LEMMA DeliveryDelivers == Delivery => DeliversWhatWasSent
<1> SUFFICES ASSUME Delivery PROVE DeliversWhatWasSent
  OBVIOUS
<1>1. PICK left \in Seq(Seq(Byte)) : sent = delivered \o left /\ buf \o stream = FlattenSeq(left)
  BY DEF Delivery, Framed
<1>2. /\ delivered \in Seq(Seq(Byte)) /\ sent \in Seq(Seq(Byte))
      /\ buf \in Seq(Byte) /\ stream \in Seq(Byte)
  BY SentIs DEF Delivery
<1>3. IsPrefix(delivered, sent)
  <2> DEFINE S == Seq(Byte)
  <2>1. delivered \in Seq(S) /\ sent \in Seq(S) /\ left \in Seq(S)
    BY <1>2
  <2> HIDE DEF S
  <2>2. Len(delivered) \in Nat /\ Len(left) \in Nat
    BY <2>1, LenProperties
  <2>3. /\ Len(sent) = Len(delivered) + Len(left)
        /\ \A i \in 1 .. Len(delivered) : sent[i] = delivered[i]
    <3>1. Len(delivered \o left) = Len(delivered) + Len(left)
      BY <2>1, ConcatProperties
    <3>2. ASSUME NEW i \in 1 .. Len(delivered) PROVE (delivered \o left)[i] = delivered[i]
      <4>1. i \in 1 .. Len(delivered) + Len(left) /\ i <= Len(delivered)
        BY <2>2
      <4> QED BY <2>1, <4>1, ConcatProperties
    <3> QED BY <1>1, <3>1, <3>2
  <2>4. Len(delivered) <= Len(sent) /\ \A i \in 1 .. Len(delivered) : delivered[i] = sent[i]
    BY <2>2, <2>3
  <2> QED BY <2>1, <2>4, PrefixIs
<1>4. FlattenSeq(delivered) \o buf \o stream = FlattenSeq(sent)
  <2> DEFINE d == FlattenSeq(delivered)
  <2>1. d \in Seq(Byte)
    BY <1>2, FlattenWhole
  <2>2. FlattenSeq(sent) = d \o FlattenSeq(left)
    BY <1>1, <1>2, FlattenConcat
  <2> HIDE DEF d
  <2>3. (d \o buf) \o stream = d \o (buf \o stream)
    <3>1. Groups(d, buf, stream)
      BY <1>2, <2>1, Grouped
    <3> QED BY <3>1 DEF Groups
  <2>4. (d \o buf) \o stream = FlattenSeq(sent)
    BY <1>1, <2>2, <2>3
  <2> QED BY <2>4 DEF d
<1>5. ASSUME stream = << >> PROVE delivered = sent
  <2>1. CASE left = << >>
    <3>1. delivered \o << >> = delivered
      BY <1>2, ConcatEmptySeq
    <3> QED BY <1>1, <2>1, <3>1
  <2>2. CASE left # << >>
    <3> DEFINE p == Head(left)
               z == FlattenSeq(Tail(left))
    <3>1. p \in Seq(Byte) /\ z \in Seq(Byte) /\ FlattenSeq(left) = p \o z
      BY <1>1, <1>2, <2>2, NextSent DEF Delivery
    <3>2. has_packet(buf) <=> Len(p) <= Len(buf)
      BY <1>1, <1>2, <2>2, FramedNext DEF Delivery
    <3> HIDE DEF p, z
    <3>3. buf = p \o z
      <4>1. buf \o << >> = buf
        BY <1>2, ConcatEmptySeq
      <4> QED BY <1>1, <1>5, <3>1, <4>1
    <3>4. Len(p \o z) = Len(p) + Len(z) /\ Len(p) \in Nat /\ Len(z) \in Nat
      BY <3>1, ConcatProperties, LenProperties
    <3> QED BY <3>2, <3>3, <3>4 DEF Delivery
  <2> QED BY <2>1, <2>2
<1> QED BY <1>3, <1>4, <1>5 DEF DeliversWhatWasSent, Delivery


\* However the stream of the tunnel is cut into reads, push_to_network() hands the router
\* the packets of the device, whole and in order, and the buffer always has room for a read.
THEOREM RouterGetsWhatWasSent == Spec => []DeliversWhatWasSent
<1>1. Init => Delivery
  BY InitDelivery
<1>2. Delivery /\ [Next]_vars => Delivery'
  BY StepDelivery
<1>3. Delivery => DeliversWhatWasSent
  BY DeliveryDelivers
<1> QED BY <1>1, <1>2, <1>3, PTL DEF Spec

-----------------------------------------------------------------------------
(***************************************************************************)
(* The sums of checksums.                                                  *)
(***************************************************************************)
\* Words and bytes are numbers.
LEMMA WordIs == ASSUME NEW n PROVE n \in u16 <=> n \in Nat /\ n <= 65535
<1> DEFINE m == 65535
<1>1. m \in Nat /\ u16 = 0 .. m
  BY DEF u16
<1> HIDE DEF m
<1>2. n \in 0 .. m <=> n \in Nat /\ n <= m
  BY <1>1
<1>3. n \in u16 <=> n \in Nat /\ n <= m
  BY <1>1, <1>2
<1>4. m = 65535
  BY DEF m
<1> QED BY <1>3, <1>4

LEMMA ByteIs == ASSUME NEW n PROVE n \in Byte <=> n \in Nat /\ n <= 255
  BY DEF Byte

\* Folding keeps the sum modulo 65535, in 16 bits.
LEMMA FoldedExists ==
  folded = [sum \in Nat |-> IF sum <= 65535 THEN sum
                            ELSE folded[(sum % 65536) + (sum \div 65536)]]
<1> DEFINE f == [sum \in Nat |-> IF sum = 0 THEN 0 ELSE ((sum - 1) % 65535) + 1]
           W(g) == g = [sum \in Nat |-> IF sum <= 65535 THEN sum
                                        ELSE g[(sum % 65536) + (sum \div 65536)]]
<1>1. ASSUME NEW sum \in Nat
      PROVE  f[sum] = IF sum <= 65535 THEN sum ELSE f[(sum % 65536) + (sum \div 65536)]
  <2>1. CASE sum <= 65535
    BY <2>1
  <2>2. CASE ~(sum <= 65535)
    <3> DEFINE d == sum \div 65536
               r == sum % 65536
               t == r + d
    <3>1. d \in Nat /\ r \in Nat /\ sum = 65536 * d + r /\ d # 0
      BY <2>2
    <3> HIDE DEF d, r
    <3>2. t \in Nat /\ t # 0 /\ sum - 1 = 65535 * d + (t - 1)
      BY <3>1
    <3> HIDE DEF t
    <3>3. (65535 * d + (t - 1)) % 65535 = (t - 1) % 65535
      BY <3>1, <3>2
    <3>4. f[sum] = ((sum - 1) % 65535) + 1 /\ f[t] = ((t - 1) % 65535) + 1
      BY <2>2, <3>2
    <3> QED BY <2>2, <3>2, <3>3, <3>4 DEF t, r, d
  <2> QED BY <2>1, <2>2
<1> DEFINE once(g, sum) == IF sum <= 65535 THEN sum ELSE g[(sum % 65536) + (sum \div 65536)]
<1>2. W(f)
  <2>1. f = [sum \in Nat |-> f[sum]]
    OBVIOUS
  <2>2. \A sum \in Nat : f[sum] = once(f, sum)
    BY <1>1
  <2> HIDE DEF f, once
  <2>3. f = [sum \in Nat |-> once(f, sum)]
    BY <2>1, <2>2
  <2> QED BY <2>3 DEF once
<1> HIDE DEF f
<1>3. folded = CHOOSE g : W(g)
  BY DEF folded
<1> DEFINE h == CHOOSE g : W(g)
<1>4. W(h)
  <2> HIDE DEF W
  <2> QED BY <1>2
<1> HIDE DEF h
<1>5. folded = h
  BY <1>3 DEF h
<1> QED BY <1>4, <1>5

Splits(n, f) == f \in u16 /\ \E k \in Nat : n = f + 65535 * k
Folds(n) == Splits(n, folded[n])

LEMMA SplitsSmall == ASSUME NEW n \in Nat, n <= 65535 PROVE Splits(n, n)
<1>1. n \in u16
  BY WordIs
<1>2. 0 \in Nat /\ n = n + 65535 * 0
  OBVIOUS
<1> QED BY <1>1, <1>2 DEF Splits

LEMMA FoldedIs ==
  ASSUME NEW n \in Nat
  PROVE  Folds(n)
<1> DEFINE T == {m \in Nat : ~Folds(m)}
<1>1. SUFFICES ASSUME T # {} PROVE FALSE
  OBVIOUS
<1>2. PICK m \in T : \A i \in T : m <= i
  <2>1. T \in SUBSET Nat
    OBVIOUS
  <2> HIDE DEF T
  <2> QED BY <1>1, <2>1, Least
<1>3. m \in Nat /\ ~Folds(m)
  BY <1>2
<1> DEFINE d == m \div 65536
           r == m % 65536
           t == r + d
<1>4. folded[m] = IF m <= 65535 THEN m ELSE folded[t]
  BY <1>3, FoldedExists
<1>5. CASE m <= 65535
  <2>1. Splits(m, m)
    BY <1>3, <1>5, SplitsSmall
  <2>2. folded[m] = m
    BY <1>4, <1>5
  <2> QED BY <1>3, <2>1, <2>2 DEF Folds
<1>6. CASE ~(m <= 65535)
  <2>1. d \in Nat /\ r \in Nat /\ m = 65536 * d + r /\ d # 0
    BY <1>3, <1>6
  <2>2. folded[m] = folded[t]
    BY <1>4, <1>6
  <2> HIDE DEF d, r
  <2>3. t \in Nat /\ t < m /\ m = t + 65535 * d
    BY <2>1
  <2> HIDE DEF t
  <2>4. Folds(t)
    <3>1. ~(m <= t)
      BY <1>3, <2>3
    <3> QED BY <1>2, <2>3, <3>1
  <2> DEFINE f == folded[t]
  <2>5. Splits(t, f)
    BY <2>4 DEF Folds
  <2> HIDE DEF f
  <2>6. PICK k \in Nat : t = f + 65535 * k
    BY <2>5 DEF Splits
  <2>7. f \in Nat
    BY <2>5, WordIs DEF Splits
  <2>8. k + d \in Nat /\ m = f + 65535 * (k + d)
    BY <2>1, <2>3, <2>6, <2>7
  <2>9. Splits(m, f)
    BY <2>5, <2>8 DEF Splits
  <2> QED BY <1>3, <2>2, <2>9 DEF Folds, f
<1> QED BY <1>5, <1>6

\* A sum and its complement add up to a multiple of 65535.
LEMMA ComplementIs ==
  ASSUME NEW n \in Nat
  PROVE  complement(n) \in u16 /\ (n + complement(n)) % 65535 = 0
<1> DEFINE f == folded[n]
           c == complement(n)
<1>1. Splits(n, f)
  BY FoldedIs DEF Folds
<1>2. c = 65535 - f
  BY DEF complement
<1> HIDE DEF f, c
<1>3. PICK k \in Nat : n = f + 65535 * k
  BY <1>1 DEF Splits
<1>4. f \in Nat /\ f <= 65535
  BY <1>1, WordIs DEF Splits
<1>5. c \in Nat /\ c <= 65535 /\ n + c = 65535 * (k + 1)
  BY <1>2, <1>3, <1>4
<1>6. (65535 * (k + 1)) % 65535 = 0
  OBVIOUS
<1>7. c \in u16 /\ (n + c) % 65535 = 0
  BY <1>5, <1>6, WordIs
<1> QED BY <1>7 DEF c

\* The sum of the bytes of s at the odd (r = 1) or even (r = 0) indices up to k.
places(k, r) == {i \in 1 .. k : i % 2 = r}
Every(s, k, r) == SumFunctionOnSet(s, places(k, r))

\* An index more.
LEMMA PlacesNext ==
  ASSUME NEW k \in Nat, NEW r \in {0, 1}
  PROVE  /\ IsFiniteSet(places(k, r)) /\ places(k, r) \subseteq 1 .. k /\ k + 1 \notin places(k, r)
         /\ places(0, r) = {}
         /\ places(k + 1, r) = IF (k + 1) % 2 = r THEN places(k, r) \cup {k + 1} ELSE places(k, r)
<1>1. IsFiniteSet(1 .. k)
  BY FS_Interval
<1>2. places(k, r) \subseteq 1 .. k
  BY DEF places
<1>3. IsFiniteSet(places(k, r))
  BY <1>1, <1>2, FS_Subset
<1>4. k + 1 \notin places(k, r) /\ places(0, r) = {}
  BY DEF places
<1>5. 1 .. k + 1 = (1 .. k) \cup {k + 1}
  OBVIOUS
<1>6. places(k + 1, r) = IF (k + 1) % 2 = r THEN places(k, r) \cup {k + 1} ELSE places(k, r)
  BY <1>5 DEF places
<1> QED BY <1>2, <1>3, <1>4, <1>6

\* The bytes of a sequence.
LEMMA BytesOf ==
  ASSUME NEW s \in Seq(Byte)
  PROVE  /\ Len(s) \in Nat /\ DOMAIN s = 1 .. Len(s)
         /\ \A i \in 1 .. Len(s) : s[i] \in Nat /\ s[i] <= 255
<1> DEFINE S == Byte
<1>1. s \in Seq(S)
  OBVIOUS
<1> HIDE DEF S
<1>2. Len(s) \in Nat /\ DOMAIN s = 1 .. Len(s) /\ \A i \in 1 .. Len(s) : s[i] \in S
  BY <1>1, LenProperties, ElementOfSeq
<1> QED BY <1>2, ByteIs DEF S

LEMMA EveryNext ==
  ASSUME NEW s \in Seq(Byte), NEW r \in {0, 1}
  PROVE  /\ Every(s, 0, r) = 0
         /\ \A k \in 0 .. Len(s) : Every(s, k, r) \in Nat
         /\ \A k \in Nat : k + 1 <= Len(s) =>
              Every(s, k + 1, r) = Every(s, k, r) + (IF (k + 1) % 2 = r THEN s[k + 1] ELSE 0)
<1>1. Len(s) \in Nat /\ \A i \in 1 .. Len(s) : s[i] \in Nat
  BY BytesOf
<1>2. Every(s, 0, r) = 0
  <2>1. 0 \in Nat
    OBVIOUS
  <2>2. places(0, r) = {}
    BY <2>1, PlacesNext
  <2> QED BY <2>2, SumNone DEF Every
<1>3. ASSUME NEW k \in 0 .. Len(s) PROVE Every(s, k, r) \in Nat
  <2>1. k \in Nat /\ k <= Len(s)
    BY <1>1
  <2>2. IsFiniteSet(places(k, r)) /\ places(k, r) \subseteq 1 .. k
    BY <2>1, PlacesNext
  <2>3. \A i \in places(k, r) : s[i] \in Nat
    BY <1>1, <2>1, <2>2
  <2> QED BY <2>2, <2>3, SumOfNats DEF Every
<1>4. ASSUME NEW k \in Nat, k + 1 <= Len(s)
      PROVE  Every(s, k + 1, r) = Every(s, k, r) + (IF (k + 1) % 2 = r THEN s[k + 1] ELSE 0)
  <2> DEFINE P == places(k, r)
             j == k + 1
  <2>1. /\ IsFiniteSet(P) /\ P \subseteq 1 .. k /\ j \notin P
        /\ places(j, r) = IF j % 2 = r THEN P \cup {j} ELSE P
    BY PlacesNext
  <2>2. \A i \in P \cup {j} : s[i] \in Nat
    BY <1>1, <1>4, <2>1
  <2>3. Every(s, k, r) \in Nat /\ s[j] \in Nat
    <3>1. k \in 0 .. Len(s)
      BY <1>1, <1>4
    <3> QED BY <1>3, <2>2, <3>1
  <2> HIDE DEF P, j
  <2>4. SumFunctionOnSet(s, P \cup {j}) = SumFunctionOnSet(s, P) + s[j]
    BY <2>1, <2>2, SumMore
  <2>5. Every(s, k, r) = SumFunctionOnSet(s, P)
    BY DEF Every, P
  <2>6. Every(s, j, r) = IF j % 2 = r THEN Every(s, k, r) + s[j] ELSE Every(s, k, r)
    BY <2>1, <2>4, <2>5 DEF Every
  <2>7. Every(s, j, r) = Every(s, k, r) + (IF j % 2 = r THEN s[j] ELSE 0)
    BY <2>3, <2>6
  <2> QED BY <2>7 DEF j
<1> QED BY <1>2, <1>3, <1>4

\* The sums of two sequences are those of their concatenation, at an even index.
LEMMA EveryConcat ==
  ASSUME NEW a \in Seq(Byte), NEW b \in Seq(Byte), NEW r \in {0, 1}, Len(a) % 2 = 0
  PROVE  /\ a \o b \in Seq(Byte) /\ Len(a \o b) = Len(a) + Len(b)
         /\ Every(a \o b, Len(a) + Len(b), r) = Every(a, Len(a), r) + Every(b, Len(b), r)
<1> DEFINE c == a \o b
           n == Len(a)
           m == Len(b)
<1>1. n \in Nat /\ m \in Nat /\ c \in Seq(Byte) /\ Len(c) = n + m
  BY BytesOf, ConcatProperties
<1>2. /\ \A i \in 1 .. n : c[i] = a[i]
      /\ \A i \in 1 .. m : c[n + i] = b[i]
  <2>1. ASSUME NEW i \in 1 .. n PROVE c[i] = a[i]
    <3>1. i \in 1 .. n + m /\ i <= n
      BY <1>1
    <3> QED BY <3>1, ConcatProperties
  <2>2. ASSUME NEW i \in 1 .. m PROVE c[n + i] = b[i]
    <3>1. n + i \in 1 .. n + m /\ ~(n + i <= n) /\ (n + i) - n = i
      BY <1>1
    <3>2. c[n + i] = b[(n + i) - n]
      BY <3>1, ConcatProperties
    <3> QED BY <3>1, <3>2
  <2> QED BY <2>1, <2>2
<1>3. n % 2 = 0
  OBVIOUS
<1> HIDE DEF c, n, m
<1> DEFINE R(k) == Every(c, n + k, r) = Every(a, n, r) + Every(b, k, r)
           T == {k \in Nat : k <= m => R(k)}
<1>4. Every(a, n, r) \in Nat /\ \A k \in 0 .. m : Every(b, k, r) \in Nat
  <2>1. n \in 0 .. n
    BY <1>1
  <2> QED BY <2>1, EveryNext DEF n, m
<1>5. R(0)
  <2>1. IsFiniteSet(places(n, r)) /\ places(n, r) \subseteq 1 .. n
    BY <1>1, PlacesNext
  <2>2. \A i \in places(n, r) : c[i] = a[i]
    BY <1>2, <2>1
  <2>3. Every(c, n, r) = Every(a, n, r)
    BY <2>1, <2>2, SumSame DEF Every
  <2>4. Every(b, 0, r) = 0 /\ n + 0 = n
    BY <1>1, EveryNext
  <2> QED BY <1>4, <2>3, <2>4
<1>6. ASSUME NEW k \in Nat, k + 1 <= m, R(k) PROVE R(k + 1)
  <2>1. (n + k) + 1 = n + (k + 1) /\ n + k \in Nat /\ (n + k) + 1 <= n + m /\ k + 1 \in 1 .. m /\ k \in 0 .. m
    BY <1>1, <1>6
  <2>2. Every(c, (n + k) + 1, r)
          = Every(c, n + k, r) + (IF ((n + k) + 1) % 2 = r THEN c[(n + k) + 1] ELSE 0)
    BY <1>1, <2>1, EveryNext
  <2>3. Every(b, k + 1, r) = Every(b, k, r) + (IF (k + 1) % 2 = r THEN b[k + 1] ELSE 0)
    BY <1>6, EveryNext DEF m
  <2>4. c[(n + k) + 1] = b[k + 1] /\ b[k + 1] \in Nat
    BY <1>2, <2>1, BytesOf DEF m
  <2>5. ((n + k) + 1) % 2 = (k + 1) % 2
    BY <1>1, <1>3
  <2>6. Every(b, k, r) \in Nat
    BY <1>4, <2>1
  <2> DEFINE e == IF (k + 1) % 2 = r THEN b[k + 1] ELSE 0
  <2>7. e \in Nat
    BY <2>4
  <2>8. Every(c, (n + k) + 1, r) = Every(c, n + k, r) + e /\ Every(b, k + 1, r) = Every(b, k, r) + e
    BY <2>2, <2>3, <2>4, <2>5
  <2> HIDE DEF e
  <2> QED BY <1>4, <1>6, <2>1, <2>6, <2>7, <2>8
<1> HIDE DEF R
<1>7. 0 \in T
  BY <1>5
<1>8. ASSUME NEW k \in Nat, k \in T PROVE k + 1 \in T
  <2> SUFFICES ASSUME k + 1 <= m PROVE R(k + 1)
    OBVIOUS
  <2> QED BY <1>1, <1>6, <1>8
<1> HIDE DEF T
<1>9. m \in T
  BY <1>1, <1>7, <1>8, SetInduction
<1>10. R(m)
  BY <1>1, <1>9 DEF T
<1> QED BY <1>1, <1>10 DEF R, c, n, m

\* Two bytes are a word.
LEMMA WordOf ==
  ASSUME NEW s \in Seq(Byte), NEW i \in Nat, i + 2 <= Len(s)
  PROVE  /\ read_u16(s, i) = s[i + 1] * 256 + s[i + 2] /\ read_u16(s, i) \in u16
         /\ s[i + 1] \in Nat /\ s[i + 2] \in Nat /\ s[i + 1] <= 255 /\ s[i + 2] <= 255
<1>1. i + 1 \in 1 .. Len(s) /\ i + 2 \in 1 .. Len(s)
  BY BytesOf
<1> DEFINE x == s[i + 1]
           y == s[i + 2]
<1>2. x \in Nat /\ y \in Nat /\ x <= 255 /\ y <= 255
  BY <1>1, BytesOf
<1>3. read_u16(s, i) = x * 256 + y
  BY DEF read_u16
<1> HIDE DEF x, y
<1>4. x * 256 + y \in Nat /\ x * 256 + y <= 65535
  BY <1>2
<1>5. read_u16(s, i) \in u16
  BY <1>3, <1>4, WordIs
<1> QED BY <1>2, <1>3, <1>5 DEF x, y

\* The sum of words is that of their bytes.
LEMMA WordsSum ==
  ASSUME NEW s \in Seq(Byte), NEW m \in Nat, 2 * m <= Len(s),
         NEW w, \A i \in 0 .. m - 1 : w[i] = read_u16(s, 2 * i)
  PROVE  SumFunctionOnSet(w, 0 .. m - 1) = 256 * Every(s, 2 * m, 1) + Every(s, 2 * m, 0)
<1> DEFINE R(k) == SumFunctionOnSet(w, 0 .. k - 1) = 256 * Every(s, 2 * k, 1) + Every(s, 2 * k, 0)
           T == {k \in Nat : k <= m => R(k)}
<1>0. Len(s) \in Nat
  BY BytesOf
<1>1. R(0)
  <2>1. SumFunctionOnSet(w, 0 .. 0 - 1) = 0
    <3>1. 0 .. 0 - 1 = {}
      OBVIOUS
    <3> QED BY <3>1, SumNone
  <2>2. Every(s, 0, 1) = 0 /\ Every(s, 0, 0) = 0 /\ 2 * 0 = 0
    BY EveryNext
  <2> QED BY <2>1, <2>2
<1>2. ASSUME NEW k \in Nat, k + 1 <= m, R(k) PROVE R(k + 1)
  <2> DEFINE n == 2 * k
             S == 0 .. k - 1
             x == s[n + 1]
             y == s[n + 2]
  <2>1. n \in Nat /\ n + 2 <= Len(s) /\ n \in 0 .. Len(s) /\ n + 1 <= Len(s) /\ n + 1 \in Nat
        /\ 2 * (k + 1) = n + 2
        /\ (n + 1) + 1 = n + 2 /\ (n + 1) % 2 = 1 /\ (n + 2) % 2 = 0 /\ k \in 0 .. m - 1
    BY <1>0, <1>2
  <2>2. w[k] = x * 256 + y /\ x \in Nat /\ y \in Nat
    BY <2>1, WordOf
  <2>3. SumFunctionOnSet(w, S \cup {k}) = SumFunctionOnSet(w, S) + w[k]
    <3>1. IsFiniteSet(S) /\ k \notin S
      BY FS_Interval
    <3>2. ASSUME NEW i \in S \cup {k} PROVE w[i] \in Nat
      <4>1. i \in 0 .. m - 1 /\ 2 * i \in Nat /\ 2 * i + 2 <= Len(s)
        BY <1>0, <1>2
      <4>2. read_u16(s, 2 * i) \in u16
        BY <4>1, WordOf
      <4> QED BY <4>1, <4>2, WordIs
    <3> HIDE DEF S
    <3> QED BY <3>1, <3>2, SumMore
  <2>4. S \cup {k} = 0 .. (k + 1) - 1
    OBVIOUS
  <2>5. Every(s, n + 1, 1) = Every(s, n, 1) + x /\ Every(s, n + 1, 0) = Every(s, n, 0) + 0
    <3>1. \A r \in {0, 1} : Every(s, n + 1, r) = Every(s, n, r) + (IF (n + 1) % 2 = r THEN s[n + 1] ELSE 0)
      BY <2>1, EveryNext
    <3> HIDE DEF n
    <3> QED BY <2>1, <3>1
  <2>6. Every(s, n + 2, 1) = Every(s, n + 1, 1) + 0 /\ Every(s, n + 2, 0) = Every(s, n + 1, 0) + y
    <3>1. \A r \in {0, 1} : Every(s, (n + 1) + 1, r)
                              = Every(s, n + 1, r) + (IF ((n + 1) + 1) % 2 = r THEN s[(n + 1) + 1] ELSE 0)
      BY <2>1, EveryNext
    <3> HIDE DEF n
    <3> QED BY <2>1, <3>1
  <2>7. Every(s, n, 1) \in Nat /\ Every(s, n, 0) \in Nat
    BY <2>1, EveryNext
  <2>8. SumFunctionOnSet(w, S) = 256 * Every(s, n, 1) + Every(s, n, 0)
    BY <1>2
  <2> HIDE DEF n, S, x, y
  <2>9. SumFunctionOnSet(w, 0 .. (k + 1) - 1) = 256 * Every(s, n + 2, 1) + Every(s, n + 2, 0)
    <3> DEFINE sum == SumFunctionOnSet(w, S)
               more == SumFunctionOnSet(w, S \cup {k})
               a == Every(s, n, 1)
               b == Every(s, n, 0)
    <3>1. more = sum + w[k]
      BY <2>3
    <3>2. sum = 256 * a + b /\ a \in Nat /\ b \in Nat
      BY <2>7, <2>8
    <3>3. Every(s, n + 2, 1) = a + x
      <4> HIDE DEF a
      <4>1. Every(s, n + 1, 1) = a + x
        BY <2>5 DEF a
      <4> QED BY <2>2, <2>6, <3>2, <4>1
    <3>4. Every(s, n + 2, 0) = b + y
      <4> HIDE DEF b
      <4>1. Every(s, n + 1, 0) = b
        BY <2>5, <3>2 DEF b
      <4> QED BY <2>6, <4>1
    <3> HIDE DEF sum, a, b, more
    <3>5. more = 256 * (a + x) + (b + y)
      BY <2>2, <3>1, <3>2
    <3> QED BY <2>4, <3>3, <3>4, <3>5 DEF more
  <2> QED BY <2>1, <2>9
<1> HIDE DEF R
<1>3. 0 \in T
  BY <1>1
<1>4. ASSUME NEW k \in Nat, k \in T PROVE k + 1 \in T
  <2> SUFFICES ASSUME k + 1 <= m PROVE R(k + 1)
    OBVIOUS
  <2> QED BY <1>2, <1>4
<1> HIDE DEF T
<1>5. m \in T
  BY <1>3, <1>4, SetInduction
<1>6. R(m)
  BY <1>5 DEF T
<1> QED BY <1>6 DEF R

\* The sums of the code are those of the indices.
LEMMA HighLow ==
  ASSUME NEW s \in Seq(Byte)
  PROVE  /\ high_bytes(s) = Every(s, Len(s), 1) /\ low_bytes(s) = Every(s, Len(s), 0)
         /\ high_bytes(s) \in Nat /\ low_bytes(s) \in Nat
<1>1. Len(s) \in Nat /\ DOMAIN s = 1 .. Len(s) /\ Len(s) \in 0 .. Len(s)
  BY BytesOf
<1>2. high_bytes(s) = Every(s, Len(s), 1) /\ low_bytes(s) = Every(s, Len(s), 0)
  BY <1>1 DEF high_bytes, low_bytes, Every, places
<1> QED BY <1>1, <1>2, EveryNext

\* The receiver's sum, of an even number of bytes or padded.
LEMMA OnesSumIs ==
  ASSUME NEW s \in Seq(Byte)
  PROVE  OnesSum(s) = 256 * high_bytes(s) + low_bytes(s)
<1> DEFINE zero == <<0>>
           p == IF Len(s) % 2 = 0 THEN s ELSE s \o zero
           m == Len(p) \div 2
           w == [i \in 0 .. m - 1 |-> read_u16(p, 2 * i)]
           n == Len(s)
<1>1. n \in Nat
  BY BytesOf
<1>2. OnesSum(s) = SumFunctionOnSet(w, 0 .. m - 1)
  BY DEF OnesSum, SumFunction
<1>3. /\ p \in Seq(Byte) /\ Len(p) \in Nat /\ Len(p) % 2 = 0
      /\ \A r \in {0, 1} : Every(p, Len(p), r) = Every(s, n, r)
  <2>1. CASE n % 2 = 0
    BY <1>1, <2>1
  <2>2. CASE n % 2 # 0
    <3>1. p = s \o zero /\ zero \in Seq(Byte) /\ Len(zero) = 1 /\ zero[1] = 0
      <4>1. 0 \in Byte
        BY ByteIs
      <4> QED BY <2>2, <4>1
    <3> HIDE DEF zero
    <3>2. /\ s \o zero \in Seq(Byte) /\ Len(s \o zero) = Len(s) + Len(zero)
          /\ \A i \in 1 .. Len(s) + Len(zero) :
               (s \o zero)[i] = IF i <= Len(s) THEN s[i] ELSE zero[i - Len(s)]
      <4>1. s \in Seq(Byte) /\ zero \in Seq(Byte)
        BY <3>1
      <4> QED BY ONLY <4>1, ConcatProperties
    <3>3. p \in Seq(Byte) /\ Len(p) = n + 1
      BY <3>1, <3>2
    <3>4. ASSUME NEW i \in 1 .. n PROVE p[i] = s[i]
      <4>1. i \in 1 .. Len(s) + Len(zero) /\ i <= Len(s)
        BY <1>1, <3>1
      <4>2. (s \o zero)[i] = s[i]
        BY ONLY <3>2, <4>1
      <4> QED BY <3>1, <4>2
    <3>5. p[n + 1] = 0
      <4>1. n + 1 \in 1 .. Len(s) + Len(zero) /\ ~(n + 1 <= Len(s)) /\ (n + 1) - Len(s) = 1
        BY <1>1, <3>1
      <4>2. (s \o zero)[n + 1] = zero[(n + 1) - Len(s)]
        BY ONLY <3>2, <4>1
      <4>3. (s \o zero)[n + 1] = 0
        BY ONLY <3>1, <4>1, <4>2
      <4> QED BY ONLY <3>1, <4>3
    <3> HIDE DEF p, n
    <3>6. ASSUME NEW r \in {0, 1} PROVE Every(p, n + 1, r) = Every(s, n, r)
      <4>1. IsFiniteSet(places(n, r)) /\ places(n, r) \subseteq 1 .. n
        BY <1>1, PlacesNext
      <4>2. \A i \in places(n, r) : p[i] = s[i]
        BY <3>4, <4>1
      <4>3. Every(p, n, r) = Every(s, n, r)
        BY <4>1, <4>2, SumSame DEF Every
      <4>4. Every(p, n + 1, r) = Every(p, n, r) + (IF (n + 1) % 2 = r THEN p[n + 1] ELSE 0)
        BY <1>1, <3>3, EveryNext
      <4>5. Every(s, n, r) \in Nat
        <5>1. n \in 0 .. Len(s)
          BY <1>1 DEF n
        <5> QED BY <5>1, EveryNext
      <4> QED BY <3>5, <4>3, <4>4, <4>5
    <3>7. (n + 1) % 2 = 0
      BY <1>1, <2>2
    <3> QED BY <1>1, <3>3, <3>6, <3>7
  <2> QED BY <2>1, <2>2
<1> HIDE DEF p
<1>4. m \in Nat /\ 2 * m = Len(p)
  BY <1>3
<1>5. \A i \in 0 .. m - 1 : w[i] = read_u16(p, 2 * i)
  OBVIOUS
<1> HIDE DEF m, w
<1>6. SumFunctionOnSet(w, 0 .. m - 1) = 256 * Every(p, 2 * m, 1) + Every(p, 2 * m, 0)
  <2>1. 2 * m <= Len(p)
    BY <1>3, <1>4
  <2> QED BY <1>3, <1>4, <1>5, <2>1, WordsSum
<1> QED BY <1>2, <1>3, <1>4, <1>6, HighLow

-----------------------------------------------------------------------------
(***************************************************************************)
(* The setters of headers: the bytes they write, the values they keep.     *)
(***************************************************************************)
-----------------------------------------------------------------------------
(***************************************************************************)
(* The bytes of a header and what is parsed from them.                     *)
(***************************************************************************)
LEMMA BytesAre ==
  ASSUME NEW s, NEW n \in Nat, s = [i \in 1 .. n |-> s[i]], \A i \in 1 .. n : s[i] \in Byte
  PROVE  s \in Seq(Byte) /\ Len(s) = n
<1> DEFINE S == Byte
<1>1. s \in [1 .. n -> S]
  OBVIOUS
<1> HIDE DEF S
<1>2. s \in Seq(S) /\ Len(s) = n
  BY <1>1
<1> QED BY <1>2 DEF S

\* Writing a word changes its two bytes.
Written(result, raw, i, v) ==
  /\ result \in Seq(Byte) /\ Len(result) = Len(raw) /\ read_u16(result, i) = v
  /\ \A j \in 1 .. Len(raw) : result[j] = CASE j = i + 1 -> v \div 256 [] j = i + 2 -> v % 256
                                         [] OTHER -> raw[j]

LEMMA WriteWord ==
  ASSUME NEW raw \in Seq(Byte), NEW i \in Nat, i + 2 <= Len(raw), NEW v \in u16
  PROVE  Written(write_u16(raw, i, v), raw, i, v)
<1> DEFINE result == write_u16(raw, i, v)
           h == v \div 256
           l == v % 256
           n == Len(raw)
<1>1. n \in Nat /\ DOMAIN raw = 1 .. n /\ \A j \in 1 .. n : raw[j] \in Byte
  BY BytesOf, ByteIs
<1>2. h \in Byte /\ l \in Byte /\ h * 256 + l = v
  <2>1. v \in Nat /\ v <= 65535
    BY WordIs
  <2>2. h \in Nat /\ h <= 255 /\ l \in Nat /\ l <= 255 /\ h * 256 + l = v
    BY <2>1
  <2> QED BY <2>2, ByteIs
<1>3. result = [raw EXCEPT ![i + 1] = h, ![i + 2] = l]
  BY DEF write_u16
<1> HIDE DEF h, l, n
<1>4. i + 1 \in 1 .. n /\ i + 2 \in 1 .. n /\ i + 1 # i + 2
  BY <1>1 DEF n
<1>5. /\ result = [j \in 1 .. n |-> result[j]]
      /\ \A j \in 1 .. n : result[j] = CASE j = i + 1 -> h [] j = i + 2 -> l [] OTHER -> raw[j]
  <2>1. raw = [j \in 1 .. n |-> raw[j]]
    BY <1>1
  <2> HIDE DEF result
  <2> QED BY <1>1, <1>3, <1>4, <2>1
<1> HIDE DEF result
<1>6. result \in Seq(Byte) /\ Len(result) = n
  <2>1. \A j \in 1 .. n : result[j] \in Byte
    BY <1>1, <1>2, <1>5
  <2> QED BY <1>1, <1>5, <2>1, BytesAre
<1>7. result[i + 1] = h /\ result[i + 2] = l
  BY <1>4, <1>5
<1>8. read_u16(result, i) = v
  BY <1>2, <1>7 DEF read_u16
<1>9. \A j \in 1 .. n : result[j] = CASE j = i + 1 -> v \div 256 [] j = i + 2 -> v % 256 [] OTHER -> raw[j]
  BY <1>5 DEF h, l
<1> QED BY <1>6, <1>8, <1>9 DEF Written, result, n

\* The other bytes and words stay as they are.
LEMMA WrittenElse ==
  ASSUME NEW raw \in Seq(Byte), NEW i \in Nat, i + 2 <= Len(raw), NEW v, NEW result,
         Written(result, raw, i, v)
  PROVE  /\ \A j \in 1 .. Len(raw) : j \notin {i + 1, i + 2} => result[j] = raw[j]
         /\ \A j \in Nat : j + 2 <= Len(raw) /\ (j + 2 <= i \/ i + 2 <= j) =>
              read_u16(result, j) = read_u16(raw, j)
         /\ result[i + 1] = v \div 256 /\ result[i + 2] = v % 256
<1>1. Len(raw) \in Nat
  BY BytesOf
<1>2. \A j \in 1 .. Len(raw) : j \notin {i + 1, i + 2} => result[j] = raw[j]
  BY DEF Written
<1>3. ASSUME NEW j \in Nat, j + 2 <= Len(raw), j + 2 <= i \/ i + 2 <= j
      PROVE  read_u16(result, j) = read_u16(raw, j)
  <2>1. /\ j + 1 \in 1 .. Len(raw) /\ j + 1 \notin {i + 1, i + 2}
        /\ j + 2 \in 1 .. Len(raw) /\ j + 2 \notin {i + 1, i + 2}
    BY <1>1, <1>3
  <2>2. result[j + 1] = raw[j + 1] /\ result[j + 2] = raw[j + 2]
    BY <1>2, <2>1
  <2> QED BY <2>2 DEF read_u16
<1>4. result[i + 1] = v \div 256 /\ result[i + 2] = v % 256
  <2>1. i + 1 \in 1 .. Len(raw) /\ i + 2 \in 1 .. Len(raw) /\ i + 1 # i + 2
    BY <1>1
  <2> QED BY <2>1 DEF Written
<1> QED BY <1>2, <1>3, <1>4

\* Swapping two fields of n bytes.
LEMMA SwapBytes ==
  ASSUME NEW raw \in Seq(Byte), NEW from \in Nat, NEW n \in Nat, from + 2 * n <= Len(raw)
  PROVE  /\ swap_bytes(raw, from, n) \in Seq(Byte) /\ Len(swap_bytes(raw, from, n)) = Len(raw)
         /\ \A i \in 1 .. Len(raw) : swap_bytes(raw, from, n)[i] =
              CASE i - 1 \in from .. from + n - 1 -> raw[i + n]
                [] i - 1 \in from + n .. from + 2 * n - 1 -> raw[i - n]
                [] OTHER -> raw[i]
<1> DEFINE result == swap_bytes(raw, from, n)
           l == Len(raw)
           at(i) == CASE i - 1 \in from .. from + n - 1 -> raw[i + n]
                      [] i - 1 \in from + n .. from + 2 * n - 1 -> raw[i - n]
                      [] OTHER -> raw[i]
<1>1. l \in Nat /\ DOMAIN raw = 1 .. l /\ \A i \in 1 .. l : raw[i] \in Byte
  BY BytesOf, ByteIs
<1>2. result = [i \in 1 .. l |-> at(i)]
  BY <1>1 DEF swap_bytes
<1>3. ASSUME NEW i \in 1 .. l PROVE at(i) \in Byte
  <2>1. CASE i - 1 \in from .. from + n - 1
    <3>1. i + n \in 1 .. l
      BY <1>1, <2>1
    <3> QED BY <1>1, <2>1, <3>1
  <2>2. CASE i - 1 \in from + n .. from + 2 * n - 1
    <3>1. i - n \in 1 .. l /\ ~(i - 1 \in from .. from + n - 1)
      BY <1>1, <2>2
    <3>2. at(i) = raw[i - n]
      BY <2>2, <3>1
    <3> QED BY <1>1, <3>1, <3>2
  <2>3. CASE ~(i - 1 \in from .. from + n - 1) /\ ~(i - 1 \in from + n .. from + 2 * n - 1)
    BY <1>1, <2>3
  <2> QED BY <2>1, <2>2, <2>3
<1> HIDE DEF result, at
<1>4. /\ result = [i \in 1 .. l |-> result[i]]
      /\ \A i \in 1 .. l : result[i] = at(i) /\ result[i] \in Byte
  BY <1>2, <1>3
<1>5. result \in Seq(Byte) /\ Len(result) = l
  BY <1>1, <1>4, BytesAre
<1> QED BY <1>4, <1>5 DEF result, at

\* A header and what is parsed from its bytes.
Network(raw) == [raw |-> raw, data |-> Ipv4HeaderData(raw)]
Transport(protocol, raw) == [raw |-> raw, data |-> TransportHeaderData(protocol, raw)]

\* The parsed values depend on these bytes.
LEMMA SameNetwork ==
  ASSUME NEW raw, NEW result, result[1] = raw[1], result[10] = raw[10],
         \A j \in {12, 14, 16, 18} : read_u16(result, j) = read_u16(raw, j)
  PROVE  Ipv4HeaderData(result) = [Ipv4HeaderData(raw) EXCEPT !.total_length = read_u16(result, 2)]
<1>1. read_u32(result, 12) = read_u32(raw, 12) /\ read_u32(result, 16) = read_u32(raw, 16)
  BY DEF read_u32
<1> DEFINE a == read_u32(raw, 12)
           b == read_u32(raw, 16)
           v == raw[1] \div 16
           l == (raw[1] % 16) * 4
           p == Protocol(raw[10])
           t == read_u16(raw, 2)
           u == read_u16(result, 2)
<1>2. /\ Ipv4HeaderData(raw) = [version |-> v, header_length |-> l, total_length |-> t, protocol |-> p,
                                source |-> a, destination |-> b]
      /\ Ipv4HeaderData(result) = [version |-> v, header_length |-> l, total_length |-> u, protocol |-> p,
                                source |-> a, destination |-> b]
  BY <1>1 DEF Ipv4HeaderData
<1> HIDE DEF a, b, v, l, p, t, u
<1>3. Ipv4HeaderData(result) = [Ipv4HeaderData(raw) EXCEPT !.total_length = u]
  BY <1>2
<1> QED BY <1>3 DEF u

LEMMA SetTotalLength ==
  ASSUME NEW raw \in Seq(Byte), Len(raw) >= 20, NEW v \in u16
  PROVE  set_total_length(Network(raw), v) = Network(write_u16(raw, 2, v))
<1> DEFINE result == write_u16(raw, 2, v)
           data == Ipv4HeaderData(raw)
<1>1. Written(result, raw, 2, v) /\ Len(raw) \in Nat
  BY WriteWord, BytesOf
<1> HIDE DEF result
<1>2. /\ 1 \in 1 .. Len(raw) /\ 10 \in 1 .. Len(raw)
      /\ \A j \in {12, 14, 16, 18} : j \in Nat /\ j + 2 <= Len(raw) /\ 2 + 2 <= j
  BY <1>1
<1>3. /\ result[1] = raw[1] /\ result[10] = raw[10] /\ read_u16(result, 2) = v
      /\ \A j \in {12, 14, 16, 18} : read_u16(result, j) = read_u16(raw, j)
  <2>1. /\ \A j \in 1 .. Len(raw) : j \notin {2 + 1, 2 + 2} => result[j] = raw[j]
        /\ \A j \in Nat : j + 2 <= Len(raw) /\ (j + 2 <= 2 \/ 2 + 2 <= j) =>
              read_u16(result, j) = read_u16(raw, j)
    BY <1>1, WrittenElse
  <2>2. read_u16(result, 2) = v
    BY <1>1 DEF Written
  <2> QED BY <1>2, <2>1, <2>2
<1>4. Ipv4HeaderData(result) = [data EXCEPT !.total_length = v]
  BY <1>3, SameNetwork
<1> DEFINE h == [raw |-> raw, data |-> data]
<1>5. set_total_length(h, v) = [raw |-> result, data |-> [data EXCEPT !.total_length = v]]
  <2> HIDE DEF data
  <2> QED BY DEF set_total_length, result
<1>6. Network(raw) = h
  BY DEF Network
<1> HIDE DEF h
<1> QED BY <1>4, <1>5, <1>6 DEF Network, result

\* The checksum of the IP header is in none of the parsed values.
LEMMA Ipv4Checksum ==
  ASSUME NEW raw \in Seq(Byte), Len(raw) >= 20, NEW v \in u16
  PROVE  [Network(raw) EXCEPT !.raw = write_u16(@, 10, v)] = Network(write_u16(raw, 10, v))
<1> DEFINE result == write_u16(raw, 10, v)
           data == Ipv4HeaderData(raw)
<1>1. Written(result, raw, 10, v) /\ Len(raw) \in Nat
  BY WriteWord, BytesOf
<1> HIDE DEF result
<1>2. /\ 1 \in 1 .. Len(raw) /\ 10 \in 1 .. Len(raw)
      /\ \A j \in {12, 14, 16, 18} : j \in Nat /\ j + 2 <= Len(raw) /\ 10 + 2 <= j
  BY <1>1
<1>3. /\ result[1] = raw[1] /\ result[10] = raw[10] /\ read_u16(result, 2) = read_u16(raw, 2)
      /\ \A j \in {12, 14, 16, 18} : read_u16(result, j) = read_u16(raw, j)
  <2>1. /\ \A j \in 1 .. Len(raw) : j \notin {10 + 1, 10 + 2} => result[j] = raw[j]
        /\ \A j \in Nat : j + 2 <= Len(raw) /\ (j + 2 <= 10 \/ 10 + 2 <= j) =>
              read_u16(result, j) = read_u16(raw, j)
    BY <1>1, WrittenElse
  <2> QED BY <1>1, <1>2, <2>1
<1>4. Ipv4HeaderData(result) = [data EXCEPT !.total_length = read_u16(raw, 2)]
  BY <1>3, SameNetwork
<1>5. Ipv4HeaderData(result) = data
  BY <1>4 DEF Ipv4HeaderData
<1>6. [Network(raw) EXCEPT !.raw = write_u16(@, 10, v)] = [raw |-> result, data |-> data]
  BY DEF Network, result
<1> QED BY <1>5, <1>6 DEF Network, result

LEMMA SwapAddresses ==
  ASSUME NEW raw \in Seq(Byte), Len(raw) >= 20
  PROVE  LET result == swap_bytes(raw, 12, 4)
         IN  /\ swap_addresses(Network(raw)) = Network(result)
             /\ result \in Seq(Byte) /\ Len(result) = Len(raw)
             /\ \A j \in 1 .. 12 : result[j] = raw[j]
             /\ read_u32(result, 12) = read_u32(raw, 16) /\ read_u32(result, 16) = read_u32(raw, 12)
<1> DEFINE result == swap_bytes(raw, 12, 4)
           f == 12
           n == 4
<1>0. f \in Nat /\ n \in Nat /\ f + 2 * n <= Len(raw) /\ Len(raw) \in Nat
  BY BytesOf
<1>1. /\ result \in Seq(Byte) /\ Len(result) = Len(raw) /\ Len(raw) \in Nat
      /\ \A i \in 1 .. Len(raw) : result[i] =
           CASE i - 1 \in 12 .. 12 + 4 - 1 -> raw[i + 4]
             [] i - 1 \in 12 + 4 .. 12 + 2 * 4 - 1 -> raw[i - 4]
             [] OTHER -> raw[i]
  <2> DEFINE swapped == swap_bytes(raw, f, n)
  <2> HIDE DEF f, n
  <2>1. /\ swapped \in Seq(Byte) /\ Len(swapped) = Len(raw)
        /\ \A i \in 1 .. Len(raw) : swapped[i] =
             CASE i - 1 \in f .. f + n - 1 -> raw[i + n]
               [] i - 1 \in f + n .. f + 2 * n - 1 -> raw[i - n]
               [] OTHER -> raw[i]
    BY <1>0, SwapBytes
  <2> QED BY <1>0, <2>1, Zenon DEF f, n
<1> HIDE DEF result
<1>2. /\ \A i \in 13 .. 16 : result[i] = raw[i + 4]
      /\ \A i \in 17 .. 20 : result[i] = raw[i - 4]
      /\ \A i \in 1 .. 12 : result[i] = raw[i]
  <2>1. ASSUME NEW i \in 13 .. 16 PROVE result[i] = raw[i + 4]
    <3>1. i \in 1 .. Len(raw) /\ i - 1 \in 12 .. 12 + 4 - 1
      BY <1>1
    <3> QED BY <1>1, <3>1
  <2>2. ASSUME NEW i \in 17 .. 20 PROVE result[i] = raw[i - 4]
    <3>1. i \in 1 .. Len(raw) /\ ~(i - 1 \in 12 .. 12 + 4 - 1) /\ i - 1 \in 12 + 4 .. 12 + 2 * 4 - 1
      BY <1>1
    <3> QED BY <1>1, <3>1
  <2>3. ASSUME NEW i \in 1 .. 12 PROVE result[i] = raw[i]
    <3>1. i \in 1 .. Len(raw) /\ ~(i - 1 \in 12 .. 12 + 4 - 1) /\ ~(i - 1 \in 12 + 4 .. 12 + 2 * 4 - 1)
      BY <1>1
    <3> QED BY <1>1, <3>1
  <2> QED BY <2>1, <2>2, <2>3
<1>3. /\ result[13] = raw[17] /\ result[14] = raw[18] /\ result[15] = raw[19] /\ result[16] = raw[20]
      /\ result[17] = raw[13] /\ result[18] = raw[14] /\ result[19] = raw[15] /\ result[20] = raw[16]
      /\ result[1] = raw[1] /\ result[10] = raw[10] /\ result[3] = raw[3] /\ result[4] = raw[4]
  BY <1>2
<1>4. /\ read_u32(result, 12) = read_u32(raw, 16) /\ read_u32(result, 16) = read_u32(raw, 12)
      /\ read_u16(result, 2) = read_u16(raw, 2)
  BY <1>3 DEF read_u32, read_u16
<1>5. Ipv4HeaderData(result) = [Ipv4HeaderData(raw) EXCEPT !.source = Ipv4HeaderData(raw).destination,
                                                      !.destination = Ipv4HeaderData(raw).source]
  <2> DEFINE a == read_u32(raw, 12)
             b == read_u32(raw, 16)
             v == raw[1] \div 16
             l == (raw[1] % 16) * 4
             p == Protocol(raw[10])
             t == read_u16(raw, 2)
             data == Ipv4HeaderData(raw)
  <2>1. /\ data = [version |-> v, header_length |-> l, total_length |-> t, protocol |-> p,
                                  source |-> a, destination |-> b]
        /\ Ipv4HeaderData(result) = [version |-> v, header_length |-> l, total_length |-> t, protocol |-> p,
                                  source |-> b, destination |-> a]
    BY <1>3, <1>4 DEF Ipv4HeaderData
  <2> HIDE DEF a, b, v, l, p, t, data
  <2> DEFINE half == [data EXCEPT !.source = b]
  <2>2. half = [version |-> v, header_length |-> l, total_length |-> t, protocol |-> p,
                source |-> b, destination |-> b]
    BY <2>1
  <2>3. [data EXCEPT !.source = b, !.destination = a] = [half EXCEPT !.destination = a]
    BY <2>1
  <2> HIDE DEF half
  <2>4. [half EXCEPT !.destination = a] = Ipv4HeaderData(result)
    BY <2>1, <2>2
  <2>5. data.destination = b /\ data.source = a
    BY <2>1
  <2>6. Ipv4HeaderData(result) = [data EXCEPT !.source = data.destination, !.destination = data.source]
    BY <2>3, <2>4, <2>5
  <2> QED BY <2>6 DEF data
<1>6. swap_addresses(Network(raw)) = Network(result)
  BY <1>5 DEF swap_addresses, Network, result
<1> QED BY <1>1, <1>2, <1>4, <1>6 DEF result

LEMMA SameTransport ==
  ASSUME NEW protocol, NEW raw, NEW result,
         read_u16(result, 0) = read_u16(raw, 0), read_u16(result, 2) = read_u16(raw, 2),
         protocol = "Tcp" => \A j \in {4, 6, 8, 10, 12, 14} : read_u16(result, j) = read_u16(raw, j)
  PROVE  TransportHeaderData(protocol, result) = TransportHeaderData(protocol, raw)
<1>1. CASE protocol = "Tcp"
  <2>1. read_u32(result, 4) = read_u32(raw, 4) /\ read_u32(result, 8) = read_u32(raw, 8)
    BY <1>1 DEF read_u32
  <2> QED BY <1>1, <2>1 DEF TransportHeaderData, TcpHeaderData
<1>2. CASE protocol # "Tcp"
  BY <1>2 DEF TransportHeaderData, UdpHeaderData
<1> QED BY <1>1, <1>2

\* What no setter of the answers changes: the ports and the data offset.
Kept(result, raw) ==
  /\ result \in Seq(Byte) /\ Len(result) = Len(raw)
  /\ read_u16(result, 0) = read_u16(raw, 0) /\ read_u16(result, 2) = read_u16(raw, 2)
  /\ Len(raw) >= 20 => read_u16(result, 12) \div 4096 = read_u16(raw, 12) \div 4096

\* A word after the ports, before or after the data offset.
LEMMA WrittenKept ==
  ASSUME NEW raw \in Seq(Byte), NEW i \in Nat \ {11, 12, 13}, 4 <= i, i + 2 <= Len(raw), NEW v \in u16
  PROVE  Kept(write_u16(raw, i, v), raw)
<1> DEFINE result == write_u16(raw, i, v)
<1>1. Written(result, raw, i, v) /\ Len(raw) \in Nat
  BY WriteWord, BytesOf
<1> HIDE DEF result
<1>2. \A j \in Nat : j + 2 <= Len(raw) /\ (j + 2 <= i \/ i + 2 <= j) =>
        read_u16(result, j) = read_u16(raw, j)
  BY <1>1, WrittenElse
<1>3. /\ 0 + 2 <= Len(raw) /\ 0 + 2 <= i /\ 2 + 2 <= Len(raw) /\ 2 + 2 <= i
      /\ Len(raw) >= 20 => 12 + 2 <= Len(raw) /\ (12 + 2 <= i \/ i + 2 <= 12)
  BY <1>1
<1>4. /\ read_u16(result, 0) = read_u16(raw, 0) /\ read_u16(result, 2) = read_u16(raw, 2)
      /\ Len(raw) >= 20 => read_u16(result, 12) = read_u16(raw, 12)
  BY <1>2, <1>3
<1>5. result \in Seq(Byte) /\ Len(result) = Len(raw)
  BY <1>1 DEF Written
<1> QED BY <1>4, <1>5 DEF Kept, result

\* A word outside of the parsed ones: the lengths and checksums.
LEMMA Unparsed ==
  ASSUME NEW protocol, NEW raw \in Seq(Byte), NEW i \in {4, 6, 16}, i + 2 <= Len(raw), NEW v \in u16,
         protocol = "Tcp" => i = 16
  PROVE  /\ [Transport(protocol, raw) EXCEPT !.raw = write_u16(@, i, v)]
              = Transport(protocol, write_u16(raw, i, v))
         /\ Kept(write_u16(raw, i, v), raw)
<1> DEFINE result == write_u16(raw, i, v)
           data == TransportHeaderData(protocol, raw)
<1>1. Written(result, raw, i, v) /\ Len(raw) \in Nat
  BY WriteWord, BytesOf
<1>2. Kept(result, raw)
  BY WrittenKept
<1>3. \A j \in Nat : j + 2 <= Len(raw) /\ (j + 2 <= i \/ i + 2 <= j) =>
        read_u16(result, j) = read_u16(raw, j)
  <2> HIDE DEF result
  <2> QED BY <1>1, WrittenElse
<1>4. [Transport(protocol, raw) EXCEPT !.raw = write_u16(@, i, v)] = [raw |-> result, data |-> data]
  BY DEF Transport
<1> HIDE DEF result
<1>5. ASSUME protocol = "Tcp" PROVE \A j \in {4, 6, 8, 10, 12, 14} : read_u16(result, j) = read_u16(raw, j)
  <2>1. \A j \in {4, 6, 8, 10, 12, 14} : j \in Nat /\ j + 2 <= Len(raw) /\ j + 2 <= i
    BY <1>1, <1>5
  <2> QED BY <1>3, <2>1
<1>6. TransportHeaderData(protocol, result) = data
  BY <1>2, <1>5, SameTransport DEF Kept
<1> QED BY <1>2, <1>4, <1>6 DEF Transport, result

\* A 32-bit value, as two words.
LEMMA WriteTwo ==
  ASSUME NEW raw \in Seq(Byte), NEW i \in {4, 8}, 20 <= Len(raw), NEW v \in u16 \X u16
  PROVE  LET result == write_u32(raw, i, v)
         IN  /\ read_u32(result, i) = v /\ Kept(result, raw)
             /\ \A j \in {4, 6, 8, 10, 12, 14} \ {i, i + 2} : read_u16(result, j) = read_u16(raw, j)
<1> DEFINE k == i + 2
           h == v[1]
           l == v[2]
           half == write_u16(raw, i, h)
           result == write_u16(half, k, l)
<1>0. h \in u16 /\ l \in u16 /\ v = <<h, l>> /\ k \in Nat /\ k = i + 2
  OBVIOUS
<1> HIDE DEF h, l, k
<1>1. Written(half, raw, i, h) /\ Kept(half, raw) /\ Len(raw) \in Nat
  <2>1. i \in Nat \ {11, 12, 13} /\ 4 <= i /\ i + 2 <= Len(raw) /\ Len(raw) \in Nat
    BY BytesOf
  <2> QED BY <1>0, <2>1, WriteWord, WrittenKept
<1>2. half \in Seq(Byte) /\ Len(half) = Len(raw)
  BY <1>1 DEF Kept
<1> HIDE DEF half
<1>3. Written(result, half, k, l) /\ Kept(result, half)
  <2>1. k \in Nat \ {11, 12, 13} /\ 4 <= k /\ k + 2 <= Len(half)
    BY <1>0, <1>2
  <2> QED BY <1>0, <1>2, <2>1, WriteWord, WrittenKept
<1> HIDE DEF result
<1>4. Kept(result, raw)
  BY <1>1, <1>3 DEF Kept
<1>5. /\ \A j \in Nat : j + 2 <= Len(raw) /\ (j + 2 <= i \/ i + 2 <= j) => read_u16(half, j) = read_u16(raw, j)
      /\ \A j \in Nat : j + 2 <= Len(half) /\ (j + 2 <= k \/ k + 2 <= j) => read_u16(result, j) = read_u16(half, j)
  <2>1. i \in Nat /\ i + 2 <= Len(raw) /\ k \in Nat /\ k + 2 <= Len(half)
    BY <1>0, <1>2
  <2> QED BY <1>0, <1>1, <1>2, <1>3, <2>1, WrittenElse
<1>6. read_u16(result, i) = h /\ read_u16(result, k) = l
  <2>1. read_u16(half, i) = h /\ read_u16(result, k) = l
    BY <1>1, <1>3 DEF Written
  <2>2. i \in Nat /\ i + 2 <= Len(half) /\ i + 2 <= k
    BY <1>0, <1>2
  <2> QED BY <1>5, <2>1, <2>2
<1>7. read_u32(result, i) = v
  BY <1>0, <1>6 DEF read_u32
<1>8. ASSUME NEW j \in {4, 6, 8, 10, 12, 14} \ {i, i + 2} PROVE read_u16(result, j) = read_u16(raw, j)
  <2>1. /\ j \in Nat /\ j + 2 <= Len(raw) /\ j + 2 <= Len(half) /\ (j + 2 <= i \/ i + 2 <= j)
        /\ (j + 2 <= k \/ k + 2 <= j)
    BY <1>0, <1>1, <1>2
  <2> QED BY <1>5, <2>1
<1> QED BY <1>4, <1>7, <1>8 DEF write_u32, result, half, h, l, k

\* The parsed values of a TCP header, by the words they are parsed from.
TcpData(ports, seq, ack, w, window) ==
  [protocol |-> "Tcp", source_port |-> ports[1], destination_port |-> ports[2],
   sequence_number |-> seq, acknowledgement_number |-> ack,
   header_length |-> (w \div 4096) * 4, flags |-> w % 512, window |-> window]

LEMMA TcpDataIs ==
  ASSUME NEW raw
  PROVE  TransportHeaderData("Tcp", raw)
           = TcpData(<<read_u16(raw, 0), read_u16(raw, 2)>>, read_u32(raw, 4), read_u32(raw, 8),
                     read_u16(raw, 12), read_u16(raw, 14))
  BY DEF TransportHeaderData, TcpHeaderData, TcpData

LEMMA SetSequenceNumber ==
  ASSUME NEW raw \in Seq(Byte), 20 <= Len(raw), NEW v \in u16 \X u16
  PROVE  /\ set_sequence_number(Transport("Tcp", raw), v) = Transport("Tcp", write_u32(raw, 4, v))
         /\ Kept(write_u32(raw, 4, v), raw)
<1> DEFINE result == write_u32(raw, 4, v)
           ports == <<read_u16(raw, 0), read_u16(raw, 2)>>
           seq == read_u32(raw, 4)
           ack == read_u32(raw, 8)
           w == read_u16(raw, 12)
           window == read_u16(raw, 14)
           data == TransportHeaderData("Tcp", raw)
<1> DEFINE i == 4
<1>1. /\ read_u32(result, 4) = v /\ Kept(result, raw)
      /\ read_u16(result, 8) = read_u16(raw, 8) /\ read_u16(result, 10) = read_u16(raw, 10)
      /\ read_u16(result, 12) = w /\ read_u16(result, 14) = window
  <2>1. i \in {4, 8}
    OBVIOUS
  <2> DEFINE u == write_u32(raw, i, v)
  <2> HIDE DEF i
  <2>2. /\ read_u32(u, i) = v /\ Kept(u, raw)
        /\ \A j \in {4, 6, 8, 10, 12, 14} \ {i, i + 2} : read_u16(u, j) = read_u16(raw, j)
    BY <2>1, WriteTwo
  <2> QED BY <2>2 DEF i
<1>2. set_sequence_number(Transport("Tcp", raw), v)
        = [raw |-> result, data |-> [data EXCEPT !.sequence_number = v]]
  BY DEF set_sequence_number, Transport
<1> HIDE DEF result
<1>3. TransportHeaderData("Tcp", result) = TcpData(ports, v, ack, w, window)
  BY <1>1, TcpDataIs DEF Kept, read_u32
<1>4. data = TcpData(ports, seq, ack, w, window)
  BY TcpDataIs
<1> HIDE DEF ports, seq, ack, w, window, data
<1>5. TransportHeaderData("Tcp", result) = [data EXCEPT !.sequence_number = v]
  BY <1>3, <1>4 DEF TcpData
<1> QED BY <1>1, <1>2, <1>5 DEF Transport, result

LEMMA SetAcknowledgementNumber ==
  ASSUME NEW raw \in Seq(Byte), 20 <= Len(raw), NEW v \in u16 \X u16
  PROVE  /\ set_acknowledgement_number(Transport("Tcp", raw), v) = Transport("Tcp", write_u32(raw, 8, v))
         /\ Kept(write_u32(raw, 8, v), raw)
<1> DEFINE result == write_u32(raw, 8, v)
           ports == <<read_u16(raw, 0), read_u16(raw, 2)>>
           seq == read_u32(raw, 4)
           ack == read_u32(raw, 8)
           w == read_u16(raw, 12)
           window == read_u16(raw, 14)
           data == TransportHeaderData("Tcp", raw)
<1> DEFINE i == 8
<1>1. /\ read_u32(result, 8) = v /\ Kept(result, raw)
      /\ read_u16(result, 4) = read_u16(raw, 4) /\ read_u16(result, 6) = read_u16(raw, 6)
      /\ read_u16(result, 12) = w /\ read_u16(result, 14) = window
  <2>1. i \in {4, 8}
    OBVIOUS
  <2> DEFINE u == write_u32(raw, i, v)
  <2> HIDE DEF i
  <2>2. /\ read_u32(u, i) = v /\ Kept(u, raw)
        /\ \A j \in {4, 6, 8, 10, 12, 14} \ {i, i + 2} : read_u16(u, j) = read_u16(raw, j)
    BY <2>1, WriteTwo
  <2> QED BY <2>2 DEF i
<1>2. set_acknowledgement_number(Transport("Tcp", raw), v)
        = [raw |-> result, data |-> [data EXCEPT !.acknowledgement_number = v]]
  BY DEF set_acknowledgement_number, Transport
<1> HIDE DEF result
<1>3. TransportHeaderData("Tcp", result) = TcpData(ports, seq, v, w, window)
  BY <1>1, TcpDataIs DEF Kept, read_u32
<1>4. data = TcpData(ports, seq, ack, w, window)
  BY TcpDataIs
<1> HIDE DEF ports, seq, ack, w, window, data
<1>5. TransportHeaderData("Tcp", result) = [data EXCEPT !.acknowledgement_number = v]
  BY <1>3, <1>4 DEF TcpData
<1> QED BY <1>1, <1>2, <1>5 DEF Transport, result

\* The word with the data offset and the flags.
LEMMA OffsetWord ==
  ASSUME NEW raw \in Seq(Byte), 16 <= Len(raw), NEW v \in u16
  PROVE  LET result == write_u16(raw, 12, v)
         IN  /\ result \in Seq(Byte) /\ Len(result) = Len(raw) /\ read_u16(result, 12) = v
             /\ \A j \in {0, 2, 4, 6, 8, 10, 14} : read_u16(result, j) = read_u16(raw, j)
<1> DEFINE result == write_u16(raw, 12, v)
<1>1. Written(result, raw, 12, v) /\ Len(raw) \in Nat
  BY WriteWord, BytesOf
<1> HIDE DEF result
<1>2. \A j \in Nat : j + 2 <= Len(raw) /\ (j + 2 <= 12 \/ 12 + 2 <= j) => read_u16(result, j) = read_u16(raw, j)
  BY <1>1, WrittenElse
<1>3. \A j \in {0, 2, 4, 6, 8, 10, 14} : j \in Nat /\ j + 2 <= Len(raw) /\ (j + 2 <= 12 \/ 12 + 2 <= j)
  BY <1>1
<1>4. \A j \in {0, 2, 4, 6, 8, 10, 14} : read_u16(result, j) = read_u16(raw, j)
  BY <1>2, <1>3
<1>5. result \in Seq(Byte) /\ Len(result) = Len(raw) /\ read_u16(result, 12) = v
  BY <1>1 DEF Written
<1> QED BY <1>4, <1>5 DEF result

\* The flags of a segment, in the word that starts with its data offset.
FlagBits == 0 .. 511
WithFlags(raw, flags) == write_u16(raw, 12, (read_u16(raw, 12) \div 512) * 512 + flags)

LEMMA SetFlags ==
  ASSUME NEW raw \in Seq(Byte), 20 <= Len(raw), NEW flags \in FlagBits
  PROVE  /\ set_flags(Transport("Tcp", raw), flags) = Transport("Tcp", WithFlags(raw, flags))
         /\ Kept(WithFlags(raw, flags), raw)
<1> DEFINE ports == <<read_u16(raw, 0), read_u16(raw, 2)>>
           seq == read_u32(raw, 4)
           ack == read_u32(raw, 8)
           w == read_u16(raw, 12)
           window == read_u16(raw, 14)
           data == TransportHeaderData("Tcp", raw)
           v == (w \div 512) * 512 + flags
           result == write_u16(raw, 12, v)
<1>0. Len(raw) \in Nat /\ 16 <= Len(raw) /\ w \in Nat /\ w <= 65535
  <2>1. Len(raw) \in Nat
    BY BytesOf
  <2>2. 12 + 2 <= Len(raw)
    BY <2>1
  <2>3. w \in u16
    BY <2>2, WordOf
  <2> QED BY <2>1, <2>3, WordIs
<1>1. v \in Nat /\ v <= 65535 /\ v % 512 = flags /\ v \div 4096 = w \div 4096
  <2> HIDE DEF w
  <2> DEFINE q == w \div 512
  <2>1. q \in Nat /\ q <= 127 /\ w \div 4096 = q \div 8
    BY <1>0
  <2> HIDE DEF q
  <2>2. /\ q * 512 + flags \in Nat /\ q * 512 + flags <= 65535 /\ (q * 512 + flags) % 512 = flags
        /\ (q * 512 + flags) \div 4096 = q \div 8
    BY <2>1 DEF FlagBits
  <2> QED BY <2>1, <2>2 DEF q
<1>2. set_flags(Transport("Tcp", raw), flags) = [raw |-> result, data |-> [data EXCEPT !.flags = flags]]
  BY DEF set_flags, Transport
<1>3. v \in u16
  BY <1>1, WordIs
<1> HIDE DEF v
<1>4. /\ result \in Seq(Byte) /\ Len(result) = Len(raw) /\ read_u16(result, 12) = v
      /\ \A j \in {0, 2, 4, 6, 8, 10, 14} : read_u16(result, j) = read_u16(raw, j)
  BY <1>0, <1>3, OffsetWord
<1> HIDE DEF result
<1>5. TransportHeaderData("Tcp", result) = TcpData(ports, seq, ack, v, window)
  BY <1>4, TcpDataIs DEF read_u32
<1>6. data = TcpData(ports, seq, ack, w, window)
  BY TcpDataIs
<1>7. Kept(result, raw)
  BY <1>1, <1>4 DEF Kept
<1> HIDE DEF ports, seq, ack, w, window, data
<1>8. TransportHeaderData("Tcp", result) = [data EXCEPT !.flags = flags]
  <2> DEFINE l == (w \div 4096) * 4
             f == w % 512
  <2>1. data = [protocol |-> "Tcp", source_port |-> ports[1], destination_port |-> ports[2],
                sequence_number |-> seq, acknowledgement_number |-> ack,
                header_length |-> l, flags |-> f, window |-> window]
    BY <1>6 DEF TcpData
  <2>2. TransportHeaderData("Tcp", result)
          = [protocol |-> "Tcp", source_port |-> ports[1], destination_port |-> ports[2],
             sequence_number |-> seq, acknowledgement_number |-> ack,
             header_length |-> l, flags |-> flags, window |-> window]
    <3>1. v % 512 = flags /\ (v \div 4096) * 4 = l
      BY <1>1
    <3> HIDE DEF l
    <3> QED BY <1>5, <3>1 DEF TcpData
  <2> HIDE DEF l, f
  <2> QED BY <2>1, <2>2
<1> QED BY <1>2, <1>7, <1>8 DEF Transport, result, v, w, WithFlags

\* The options of a segment are left out: the data offset says so.
NoOptions(raw) == write_u16(raw, 12, (read_u16(raw, 12) % 4096) + 5 * 4096)

LEMMA SetDataOffset ==
  ASSUME NEW raw \in Seq(Byte), 20 <= Len(raw), NEW t, t = NoOptions(raw)
  PROVE  /\ set_data_offset(Transport("Tcp", raw), 5) = Transport("Tcp", t)
         /\ t \in Seq(Byte) /\ Len(t) = Len(raw) /\ read_u16(t, 12) \div 4096 = 5
         /\ read_u16(t, 0) = read_u16(raw, 0) /\ read_u16(t, 2) = read_u16(raw, 2)
<1> DEFINE ports == <<read_u16(raw, 0), read_u16(raw, 2)>>
           seq == read_u32(raw, 4)
           ack == read_u32(raw, 8)
           w == read_u16(raw, 12)
           window == read_u16(raw, 14)
           data == TransportHeaderData("Tcp", raw)
           v == (w % 4096) + 5 * 4096
           result == write_u16(raw, 12, v)
<1>0. Len(raw) \in Nat /\ 16 <= Len(raw) /\ w \in Nat /\ w <= 65535
  <2>1. Len(raw) \in Nat
    BY BytesOf
  <2>2. 12 + 2 <= Len(raw)
    BY <2>1
  <2>3. w \in u16
    BY <2>2, WordOf
  <2> QED BY <2>1, <2>3, WordIs
<1>1. v \in Nat /\ v <= 65535 /\ v % 512 = w % 512 /\ v \div 4096 = 5
  <2> HIDE DEF w
  <2> DEFINE r == w % 4096
  <2>1. r \in Nat /\ r < 4096 /\ w % 512 = r % 512
    BY <1>0
  <2> HIDE DEF r
  <2>2. r + 5 * 4096 \in Nat /\ r + 5 * 4096 <= 65535 /\ (r + 5 * 4096) \div 4096 = 5
        /\ (r + 5 * 4096) % 512 = r % 512
    BY <2>1
  <2> QED BY <2>1, <2>2 DEF r
<1>2. set_data_offset(Transport("Tcp", raw), 5)
        = [raw |-> result, data |-> [data EXCEPT !.header_length = 5 * 4]]
  BY DEF set_data_offset, Transport
<1>3. v \in u16
  BY <1>1, WordIs
<1> HIDE DEF v
<1>4. /\ result \in Seq(Byte) /\ Len(result) = Len(raw) /\ read_u16(result, 12) = v
      /\ \A j \in {0, 2, 4, 6, 8, 10, 14} : read_u16(result, j) = read_u16(raw, j)
  BY <1>0, <1>3, OffsetWord
<1> HIDE DEF result
<1>5. TransportHeaderData("Tcp", result) = TcpData(ports, seq, ack, v, window)
  BY <1>4, TcpDataIs DEF read_u32
<1>6. data = TcpData(ports, seq, ack, w, window)
  BY TcpDataIs
<1> HIDE DEF ports, seq, ack, window, data
<1>7. TransportHeaderData("Tcp", result) = [data EXCEPT !.header_length = 5 * 4]
  <2> HIDE DEF w
  <2> DEFINE l == (w \div 4096) * 4
             f == w % 512
             k == 5 * 4
  <2>1. data = [protocol |-> "Tcp", source_port |-> ports[1], destination_port |-> ports[2],
                sequence_number |-> seq, acknowledgement_number |-> ack,
                header_length |-> l, flags |-> f, window |-> window]
    BY <1>6 DEF TcpData
  <2>2. v % 512 = f /\ (v \div 4096) * 4 = k
    BY <1>1 DEF w
  <2> HIDE DEF l, f, k
  <2>3. TransportHeaderData("Tcp", result)
          = [protocol |-> "Tcp", source_port |-> ports[1], destination_port |-> ports[2],
             sequence_number |-> seq, acknowledgement_number |-> ack,
             header_length |-> k, flags |-> f, window |-> window]
    BY <1>5, <2>2 DEF TcpData
  <2>4. TransportHeaderData("Tcp", result) = [data EXCEPT !.header_length = k]
    BY <2>1, <2>3
  <2> QED BY <2>4 DEF k
<1>8. set_data_offset(Transport("Tcp", raw), 5) = Transport("Tcp", result)
  <2> HIDE DEF w
  <2> QED BY <1>2, <1>7, Zenon DEF Transport
<1>9. /\ result \in Seq(Byte) /\ Len(result) = Len(raw) /\ read_u16(result, 12) \div 4096 = 5
      /\ read_u16(result, 0) = read_u16(raw, 0) /\ read_u16(result, 2) = read_u16(raw, 2)
  BY <1>1, <1>4
<1>10. t = result
  BY DEF NoOptions, result, v, w
<1> HIDE DEF v, w
<1> QED BY <1>8, <1>9, <1>10

\* The first bytes and the later ones.
LEMMA FirstBytes ==
  ASSUME NEW raw \in Seq(Byte), NEW n \in 0 .. Len(raw)
  PROVE  /\ \A i \in 1 .. n : bytes(raw, 0, n)[i] = raw[i]
         /\ \A j \in Nat : j + 2 <= n => read_u16(bytes(raw, 0, n), j) = read_u16(raw, j)
<1> DEFINE S == Byte
           p == SubSeq(raw, 1, n)
<1>1. p = bytes(raw, 0, n)
  BY DEF bytes
<1>2. raw \in Seq(S) /\ Len(raw) \in Nat /\ n \in Nat /\ n <= Len(raw)
  BY BytesOf
<1> HIDE DEF S
<1>3. \A i \in 1 .. n : raw[i] \in S
  BY <1>2, ElementOfSeq
<1>4. \A i \in 1 .. n : p[i] = raw[i]
  BY <1>2, <1>3, SubSeqProperties
<1> HIDE DEF p
<1>5. ASSUME NEW j \in Nat, j + 2 <= n PROVE read_u16(p, j) = read_u16(raw, j)
  <2>1. j + 1 \in 1 .. n /\ j + 2 \in 1 .. n
    BY <1>2, <1>5
  <2> QED BY <1>4, <2>1 DEF read_u16
<1> QED BY <1>1, <1>4, <1>5

\* The first bytes of a concatenation.
LEMMA ConcatFirst ==
  ASSUME NEW a \in Seq(Byte), NEW b \in Seq(Byte)
  PROVE  /\ a \o b \in Seq(Byte) /\ Len(a \o b) = Len(a) + Len(b)
         /\ \A i \in 1 .. Len(a) : (a \o b)[i] = a[i]
         /\ \A j \in Nat : j + 2 <= Len(a) => read_u16(a \o b, j) = read_u16(a, j)
         /\ bytes(a \o b, 0, Len(a)) = a /\ bytes(a \o b, Len(a), Len(a) + Len(b)) = b
<1> DEFINE S == Byte
           c == a \o b
           n == Len(a)
           m == Len(b)
<1>1. n \in Nat /\ m \in Nat /\ a \in Seq(S) /\ b \in Seq(S)
  BY BytesOf
<1>2. c \in Seq(Byte) /\ Len(c) = n + m
  BY ConcatProperties
<1> HIDE DEF S
<1>3. ASSUME NEW i \in 1 .. n PROVE c[i] = a[i]
  <2>1. i \in 1 .. n + m /\ i <= n
    BY <1>1
  <2> QED BY <1>1, <2>1, ConcatProperties
<1>4. ASSUME NEW j \in Nat, j + 2 <= n PROVE read_u16(c, j) = read_u16(a, j)
  <2>1. j + 1 \in 1 .. n /\ j + 2 \in 1 .. n
    BY <1>1, <1>4
  <2> HIDE DEF c
  <2> QED BY <1>3, <2>1 DEF read_u16
<1>5. SubSeq(c, 1, n) = a
  <2> DEFINE p == SubSeq(c, 1, n)
  <2>1. n <= Len(c) /\ Len(c) \in Nat
    BY <1>1, <1>2
  <2>2. c \in Seq(S)
    BY <1>1, ConcatProperties
  <2> HIDE DEF c, n
  <2>3. \A i \in 1 .. n : c[i] \in S
    BY <2>1, <2>2, <1>1, ElementOfSeq
  <2>4. p \in Seq(S) /\ Len(p) = n /\ \A i \in 1 .. n : p[i] = c[i]
    BY <1>1, <2>1, <2>2, <2>3, SubSeqProperties
  <2> HIDE DEF p
  <2>5. p = a
    BY <1>1, <1>3, <2>4, SeqEqual DEF n
  <2> QED BY <2>5 DEF p
<1>6. SubSeq(c, n + 1, n + m) = b
  <2> DEFINE f == n + 1
             l == n + m
             p == SubSeq(c, f, l)
  <2>1. Len(c) = l /\ l \in Nat /\ f \in Nat /\ f >= 1 /\ l = n + m /\ f = n + 1
    BY <1>1, <1>2
  <2>2. c \in Seq(S)
    BY <1>1, ConcatProperties
  <2>3. ASSUME NEW i \in 1 .. m PROVE c[f + i - 1] = b[i]
    <3>1. n + i \in 1 .. n + m /\ ~(n + i <= n) /\ (n + i) - n = i /\ f + i - 1 = n + i
      BY <1>1, <2>1
    <3>2. c[n + i] = b[(n + i) - n]
      BY <1>1, <3>1, ConcatProperties
    <3> QED BY <3>1, <3>2
  <2> HIDE DEF c, n, m, f, l
  <2>4. \A i \in f .. l : c[i] \in S
    <3>1. \A i \in 1 .. Len(c) : c[i] \in S
      BY <2>2, ElementOfSeq
    <3> QED BY <1>1, <2>1, <3>1
  <2>5. p \in Seq(S) /\ Len(p) = m /\ \A i \in 1 .. m : p[i] = c[f + i - 1]
    <3>1. (IF f <= l THEN l - f + 1 ELSE 0) = m
      BY <1>1, <2>1
    <3> QED BY <1>1, <2>1, <2>2, <2>4, <3>1, SubSeqProperties
  <2> HIDE DEF p
  <2>6. p = b
    BY <1>1, <2>3, <2>5, SeqEqual DEF m
  <2> QED BY <2>6 DEF p, f, l
<1>7. bytes(c, 0, n) = a /\ bytes(c, n, n + m) = b
  BY <1>5, <1>6 DEF bytes
<1> QED BY <1>2, <1>3, <1>4, <1>7

\* The headers of a packet, taken out of it, are parsed from their own bytes.
LEMMA NetworkOf ==
  ASSUME NEW raw, NEW r, \A i \in 1 .. 20 : r[i] = raw[i]
  PROVE  Ipv4HeaderData(r) = Ipv4HeaderData(raw)
<1>1. /\ r[1] = raw[1] /\ r[3] = raw[3] /\ r[4] = raw[4] /\ r[10] = raw[10]
      /\ r[13] = raw[13] /\ r[14] = raw[14] /\ r[15] = raw[15] /\ r[16] = raw[16]
      /\ r[17] = raw[17] /\ r[18] = raw[18] /\ r[19] = raw[19] /\ r[20] = raw[20]
  OBVIOUS
<1>2. /\ read_u16(r, 2) = read_u16(raw, 2)
      /\ read_u32(r, 12) = read_u32(raw, 12) /\ read_u32(r, 16) = read_u32(raw, 16)
  BY <1>1 DEF read_u16, read_u32
<1> QED BY <1>1, <1>2 DEF Ipv4HeaderData

LEMMA TransportOf ==
  ASSUME NEW protocol, NEW raw, NEW t, NEW n \in Nat, 4 <= n, protocol = "Tcp" => 16 <= n,
         \A j \in Nat : j + 2 <= n => read_u16(t, j) = read_u16(raw, j)
  PROVE  TransportHeaderData(protocol, t) = TransportHeaderData(protocol, raw)
<1>1. read_u16(t, 0) = read_u16(raw, 0) /\ read_u16(t, 2) = read_u16(raw, 2)
  <2>1. 0 + 2 <= n /\ 2 + 2 <= n
    OBVIOUS
  <2> QED BY <2>1
<1>2. ASSUME protocol = "Tcp" PROVE \A j \in {4, 6, 8, 10, 12, 14} : read_u16(t, j) = read_u16(raw, j)
  <2>1. \A j \in {4, 6, 8, 10, 12, 14} : j \in Nat /\ j + 2 <= n
    BY <1>2
  <2> QED BY <2>1
<1> QED BY <1>1, <1>2, SameTransport

LEMMA Shrinked ==
  ASSUME NEW full \in Seq(Byte), 20 <= Len(full)
  PROVE  \E t \in Seq(Byte) :
           /\ shrinked(Transport("Tcp", full)) = Transport("Tcp", t)
           /\ Len(t) = 20 /\ read_u16(t, 12) \div 4096 = 5
           /\ read_u16(t, 0) = read_u16(full, 0) /\ read_u16(t, 2) = read_u16(full, 2)
<1> DEFINE raw == bytes(full, 0, 20)
           t == NoOptions(raw)
           n == 20
<1>1. n \in 0 .. Len(full) /\ n \in Nat /\ n = 20
  BY BytesOf
<1>2. /\ bytes(full, 0, n) \in Seq(Byte) /\ Len(bytes(full, 0, n)) = n
      /\ \A j \in Nat : j + 2 <= n => read_u16(bytes(full, 0, n), j) = read_u16(full, j)
  <2> HIDE DEF n
  <2> QED BY <1>1, CutBytes, FirstBytes
<1>3. /\ raw \in Seq(Byte) /\ Len(raw) = 20
      /\ \A j \in Nat : j + 2 <= 20 => read_u16(raw, j) = read_u16(full, j)
  BY <1>2 DEF n
<1>4. [Transport("Tcp", full) EXCEPT !.raw = bytes(@, 0, 20)] = Transport("Tcp", raw)
  <2>1. TransportHeaderData("Tcp", raw) = TransportHeaderData("Tcp", full)
    <3> HIDE DEF raw
    <3> DEFINE m == 20
    <3>1. m \in Nat /\ 4 <= m /\ 16 <= m /\ \A j \in Nat : j + 2 <= m => read_u16(raw, j) = read_u16(full, j)
      BY <1>3
    <3> HIDE DEF m
    <3> QED BY <3>1, TransportOf
  <2> QED BY <2>1 DEF Transport
<1>5. shrinked(Transport("Tcp", full)) = set_data_offset(Transport("Tcp", raw), 5)
  BY <1>4 DEF shrinked, shrink_options
<1> HIDE DEF raw
<1>6. /\ set_data_offset(Transport("Tcp", raw), 5) = Transport("Tcp", t)
      /\ t \in Seq(Byte) /\ Len(t) = Len(raw) /\ read_u16(t, 12) \div 4096 = 5
      /\ read_u16(t, 0) = read_u16(raw, 0) /\ read_u16(t, 2) = read_u16(raw, 2)
  <2>1. raw \in Seq(Byte) /\ 20 <= Len(raw) /\ t = NoOptions(raw)
    BY <1>3
  <2> HIDE DEF t
  <2> QED BY <2>1, SetDataOffset
<1>7. read_u16(raw, 0) = read_u16(full, 0) /\ read_u16(raw, 2) = read_u16(full, 2)
  <2>1. 0 + 2 <= 20 /\ 2 + 2 <= 20
    OBVIOUS
  <2> QED BY <1>3, <2>1
<1> HIDE DEF t
<1> QED BY <1>3, <1>5, <1>6, <1>7

\* Packetizer::new() exchanges the ports.
LEMMA SwapPorts ==
  ASSUME NEW raw \in Seq(Byte), NEW protocol \in {"Tcp", "Udp"}, Len(raw) >= 4,
         protocol = "Tcp" => Len(raw) >= 20
  PROVE  LET result == swap_bytes(raw, 0, 2)
         IN  /\ swap_ports(Transport(protocol, raw)) = Transport(protocol, result)
             /\ result \in Seq(Byte) /\ Len(result) = Len(raw)
             /\ read_u16(result, 0) = read_u16(raw, 2) /\ read_u16(result, 2) = read_u16(raw, 0)
             /\ protocol = "Tcp" => read_u16(result, 12) = read_u16(raw, 12)
<1> DEFINE result == swap_bytes(raw, 0, 2)
           f == 0
           n == 2
<1>0. f \in Nat /\ n \in Nat /\ f + 2 * n <= Len(raw) /\ Len(raw) \in Nat
  BY BytesOf
<1>1. /\ result \in Seq(Byte) /\ Len(result) = Len(raw) /\ Len(raw) \in Nat
      /\ \A i \in 1 .. Len(raw) : result[i] =
           CASE i - 1 \in 0 .. 0 + 2 - 1 -> raw[i + 2]
             [] i - 1 \in 0 + 2 .. 0 + 2 * 2 - 1 -> raw[i - 2]
             [] OTHER -> raw[i]
  <2> DEFINE swapped == swap_bytes(raw, f, n)
  <2> HIDE DEF f, n
  <2>1. /\ swapped \in Seq(Byte) /\ Len(swapped) = Len(raw)
        /\ \A i \in 1 .. Len(raw) : swapped[i] =
             CASE i - 1 \in f .. f + n - 1 -> raw[i + n]
               [] i - 1 \in f + n .. f + 2 * n - 1 -> raw[i - n]
               [] OTHER -> raw[i]
    BY <1>0, SwapBytes
  <2> QED BY <1>0, <2>1, Zenon DEF f, n
<1> HIDE DEF result
<1>2. /\ \A i \in 1 .. 2 : result[i] = raw[i + 2]
      /\ \A i \in 3 .. 4 : result[i] = raw[i - 2]
      /\ \A i \in 5 .. Len(raw) : result[i] = raw[i]
  <2>1. ASSUME NEW i \in 1 .. 2 PROVE result[i] = raw[i + 2]
    <3>1. i \in 1 .. Len(raw) /\ i - 1 \in 0 .. 0 + 2 - 1
      BY <1>1
    <3> QED BY <1>1, <3>1
  <2>2. ASSUME NEW i \in 3 .. 4 PROVE result[i] = raw[i - 2]
    <3>1. i \in 1 .. Len(raw) /\ ~(i - 1 \in 0 .. 0 + 2 - 1) /\ i - 1 \in 0 + 2 .. 0 + 2 * 2 - 1
      BY <1>1
    <3> QED BY <1>1, <3>1
  <2>3. ASSUME NEW i \in 5 .. Len(raw) PROVE result[i] = raw[i]
    <3>1. i \in 1 .. Len(raw) /\ ~(i - 1 \in 0 .. 0 + 2 - 1) /\ ~(i - 1 \in 0 + 2 .. 0 + 2 * 2 - 1)
      BY <1>1
    <3> QED BY <1>1, <3>1
  <2> QED BY <2>1, <2>2, <2>3
<1>3. read_u16(result, 0) = read_u16(raw, 2) /\ read_u16(result, 2) = read_u16(raw, 0)
  <2>1. result[1] = raw[3] /\ result[2] = raw[4] /\ result[3] = raw[1] /\ result[4] = raw[2]
    BY <1>2
  <2> QED BY <2>1 DEF read_u16
<1>4. ASSUME protocol = "Tcp"
      PROVE  \A j \in {4, 6, 8, 10, 12, 14} : read_u16(result, j) = read_u16(raw, j)
  <2>1. ASSUME NEW j \in {4, 6, 8, 10, 12, 14} PROVE read_u16(result, j) = read_u16(raw, j)
    <3>1. j + 1 \in 5 .. Len(raw) /\ j + 2 \in 5 .. Len(raw)
      BY <1>1, <1>4
    <3> QED BY <1>2, <3>1 DEF read_u16
  <2> QED BY <2>1
<1>5. TransportHeaderData(protocol, result)
        = [TransportHeaderData(protocol, raw) EXCEPT
             !.source_port = TransportHeaderData(protocol, raw).destination_port,
             !.destination_port = TransportHeaderData(protocol, raw).source_port]
  <2> DEFINE a == read_u16(raw, 0)
             b == read_u16(raw, 2)
             data == TransportHeaderData(protocol, raw)
             half == [data EXCEPT !.source_port = b]
             s == read_u32(raw, 4)
             k == read_u32(raw, 8)
             l == (read_u16(raw, 12) \div 4096) * 4
             g == read_u16(raw, 12) % 512
             w == read_u16(raw, 14)
  <2>1. CASE protocol = "Tcp"
    <3>1. read_u32(result, 4) = s /\ read_u32(result, 8) = k /\ read_u16(result, 12) = read_u16(raw, 12)
          /\ read_u16(result, 14) = w
      BY <1>4, <2>1 DEF read_u32
    <3>2. /\ data = [protocol |-> "Tcp", source_port |-> a, destination_port |-> b,
                     sequence_number |-> s, acknowledgement_number |-> k,
                     header_length |-> l, flags |-> g, window |-> w]
          /\ TransportHeaderData(protocol, result) =
                    [protocol |-> "Tcp", source_port |-> b, destination_port |-> a,
                     sequence_number |-> s, acknowledgement_number |-> k,
                     header_length |-> l, flags |-> g, window |-> w]
      BY <1>3, <2>1, <3>1 DEF TransportHeaderData, TcpHeaderData
    <3> HIDE DEF a, b, data, s, k, l, g, w
    <3>3. half = [protocol |-> "Tcp", source_port |-> b, destination_port |-> b,
                  sequence_number |-> s, acknowledgement_number |-> k,
                  header_length |-> l, flags |-> g, window |-> w]
      BY <3>2
    <3>4. [data EXCEPT !.source_port = b, !.destination_port = a]
            = [half EXCEPT !.destination_port = a]
      BY <3>2
    <3> HIDE DEF half
    <3>5. [half EXCEPT !.destination_port = a] = TransportHeaderData(protocol, result)
      BY <3>2, <3>3
    <3>6. data.source_port = a /\ data.destination_port = b
      BY <3>2
    <3>7. TransportHeaderData(protocol, result)
            = [data EXCEPT !.source_port = data.destination_port,
                           !.destination_port = data.source_port]
      BY <3>4, <3>5, <3>6
    <3> QED BY <3>7 DEF data
  <2>2. CASE protocol = "Udp"
    <3>1. /\ data = [protocol |-> "Udp", source_port |-> a, destination_port |-> b,
                     header_length |-> UDP_HEADER_LENGTH]
          /\ TransportHeaderData(protocol, result) =
                    [protocol |-> "Udp", source_port |-> b, destination_port |-> a,
                     header_length |-> UDP_HEADER_LENGTH]
      BY <1>3, <2>2 DEF TransportHeaderData, UdpHeaderData
    <3> HIDE DEF a, b, data
    <3>2. half = [protocol |-> "Udp", source_port |-> b, destination_port |-> b,
                  header_length |-> UDP_HEADER_LENGTH]
      BY <3>1
    <3>3. [data EXCEPT !.source_port = b, !.destination_port = a]
            = [half EXCEPT !.destination_port = a]
      BY <3>1
    <3> HIDE DEF half
    <3>4. [half EXCEPT !.destination_port = a] = TransportHeaderData(protocol, result)
      BY <3>1, <3>2
    <3>5. data.source_port = a /\ data.destination_port = b
      BY <3>1
    <3>6. TransportHeaderData(protocol, result)
            = [data EXCEPT !.source_port = data.destination_port,
                           !.destination_port = data.source_port]
      BY <3>3, <3>4, <3>5
    <3> QED BY <3>6 DEF data
  <2> QED BY <2>1, <2>2
<1>6. swap_ports(Transport(protocol, raw)) = Transport(protocol, result)
  BY <1>5 DEF swap_ports, Transport, result
<1>7. protocol = "Tcp" => read_u16(result, 12) = read_u16(raw, 12)
  BY <1>4
<1> QED BY <1>1, <1>3, <1>6, <1>7 DEF result

-----------------------------------------------------------------------------
(***************************************************************************)
(* The checksums.                                                          *)
(***************************************************************************)
\* ipv4_update_checksum(): the words of the header add up to 0.
LEMMA Ipv4Sum ==
  ASSUME NEW raw \in Seq(Byte), 20 <= Len(raw), Len(raw) % 2 = 0,
         Ipv4HeaderData(raw).header_length = Len(raw)
  PROVE  \E result \in Seq(Byte) :
           /\ ipv4_update_checksum(Network(raw)) = Network(result)
           /\ Len(result) = Len(raw) /\ OnesSum(result) % 65535 = 0
           /\ \A j \in 1 .. Len(raw) : j \notin {11, 12} => result[j] = raw[j]
<1> DEFINE m == Len(raw) \div 2
           word == [i \in 0 .. m - 1 |-> read_u16(raw, 2 * i)]
           A == (0 .. 4) \cup (6 .. m - 1)
           sum == SumFunctionOnSet(word, A)
           c == complement(sum)
           result == write_u16(raw, 10, c)
           w == [i \in 0 .. m - 1 |-> read_u16(result, 2 * i)]
<1>1. Len(raw) \in Nat /\ m \in Nat /\ 2 * m = Len(raw) /\ 10 <= m
  BY BytesOf
<1>2. ipv4_update_checksum(Network(raw)) = [Network(raw) EXCEPT !.raw = write_u16(@, 10, c)]
  BY DEF ipv4_update_checksum, Network
<1>3. \A i \in 0 .. m - 1 : word[i] = read_u16(raw, 2 * i)
  OBVIOUS
<1>4. OnesSum(result) = IF Len(result) % 2 = 0 /\ Len(result) = Len(raw)
                     THEN SumFunctionOnSet(w, 0 .. m - 1) ELSE OnesSum(result)
  BY DEF OnesSum, SumFunction
<1>5. \A i \in 0 .. m - 1 : w[i] = read_u16(result, 2 * i)
  OBVIOUS
<1>6. IsFiniteSet(0 .. m - 1) /\ A \subseteq 0 .. m - 1 /\ (0 .. m - 1) \ {5} = A /\ 5 \in 0 .. m - 1
      /\ 5 \notin A
  <2>1. IsFiniteSet(0 .. m - 1)
    BY <1>1, FS_Interval
  <2> QED BY <1>1, <2>1
<1>7. IsFiniteSet(A)
  BY <1>6, FS_Subset
<1> HIDE DEF m, A, w, word
<1>8. ASSUME NEW i \in 0 .. m - 1 PROVE 2 * i \in Nat /\ 2 * i + 2 <= Len(raw)
  BY <1>1
<1>9. \A i \in A : word[i] \in Nat
  <2>1. ASSUME NEW i \in 0 .. m - 1 PROVE word[i] \in Nat
    <3>1. read_u16(raw, 2 * i) \in u16
      BY <1>8, WordOf
    <3> QED BY <1>3, <3>1, WordIs
  <2> QED BY <1>6, <2>1
<1>10. sum \in Nat
  BY <1>7, <1>9, SumOfNats
<1> HIDE DEF sum
<1>11. c \in u16 /\ (sum + c) % 65535 = 0
  BY <1>10, ComplementIs
<1> HIDE DEF c
<1>12. Written(result, raw, 10, c)
  <2>1. 10 + 2 <= Len(raw) /\ 10 \in Nat
    BY <1>1
  <2> QED BY <1>11, <2>1, WriteWord
<1>13. [Network(raw) EXCEPT !.raw = write_u16(@, 10, c)] = Network(result)
  <2>1. Len(raw) >= 20
    BY <1>1
  <2> QED BY <1>11, <2>1, Ipv4Checksum
<1> HIDE DEF result
<1>14. /\ \A j \in 1 .. Len(raw) : j \notin {10 + 1, 10 + 2} => result[j] = raw[j]
       /\ \A j \in Nat : j + 2 <= Len(raw) /\ (j + 2 <= 10 \/ 10 + 2 <= j) =>
            read_u16(result, j) = read_u16(raw, j)
       /\ result \in Seq(Byte) /\ Len(result) = Len(raw) /\ read_u16(result, 10) = c
  <2>1. 10 + 2 <= Len(raw) /\ 10 \in Nat
    BY <1>1
  <2>2. result \in Seq(Byte) /\ Len(result) = Len(raw) /\ read_u16(result, 10) = c
    BY <1>12 DEF Written
  <2> QED BY <1>12, <2>1, <2>2, WrittenElse
<1>15. \A i \in A : w[i] = word[i]
  <2>1. ASSUME NEW i \in 0 .. m - 1, i # 5 PROVE w[i] = word[i]
    <3>1. 2 * i + 2 <= 10 \/ 10 + 2 <= 2 * i
      BY <1>1, <2>1
    <3> QED BY <1>3, <1>5, <1>8, <1>14, <3>1
  <2> QED BY <1>6, <2>1
<1>16. w[5] = c
  <2>1. 2 * 5 = 10
    OBVIOUS
  <2> QED BY <1>5, <1>6, <1>14, <2>1
<1>17. SumFunctionOnSet(w, A) = sum
  BY <1>7, <1>15, SumSame DEF sum
<1>18. SumFunctionOnSet(w, 0 .. m - 1) = w[5] + SumFunctionOnSet(w, (0 .. m - 1) \ {5})
  <2>1. c \in Nat
    BY <1>11, WordIs
  <2>2. \A i \in 0 .. m - 1 : w[i] \in Nat
    <3>1. ASSUME NEW i \in 0 .. m - 1 PROVE w[i] \in Nat
      <4>1. CASE i = 5
        BY <1>16, <2>1, <4>1
      <4>2. CASE i # 5
        BY <1>6, <1>9, <1>15, <4>2
      <4> QED BY <4>1, <4>2
    <3> QED BY <3>1
  <2> DEFINE N == 0 .. m - 1
             k == 5
  <2>3. IsFiniteSet(N) /\ k \in N /\ \A i \in N : w[i] \in Nat
    BY <1>6, <2>2
  <2> HIDE DEF N, k
  <2>4. SumFunctionOnSet(w, N) = w[k] + SumFunctionOnSet(w, N \ {k})
    BY <2>3, SumOfNats
  <2> QED BY <2>4 DEF N, k
<1>19. OnesSum(result) = c + sum
  <2>1. OnesSum(result) = SumFunctionOnSet(w, 0 .. m - 1)
    BY <1>4, <1>14
  <2> QED BY <1>6, <1>16, <1>17, <1>18, <2>1
<1>20. c + sum = sum + c
  <2>1. c \in Nat
    BY <1>11, WordIs
  <2> QED BY <1>10, <2>1
<1>21. \A j \in 1 .. Len(raw) : j \notin {11, 12} => result[j] = raw[j]
  BY <1>14
<1> QED BY <1>2, <1>11, <1>13, <1>14, <1>19, <1>20, <1>21

\* One word less.
LEMMA SumWord ==
  ASSUME NEW s \in Seq(Byte), NEW u \in Seq(Byte), Len(u) = Len(s),
         NEW i \in Nat, i % 2 = 0, i + 2 <= Len(s), u[i + 1] = 0, u[i + 2] = 0,
         \A j \in 1 .. Len(s) : j \notin {i + 1, i + 2} => u[j] = s[j]
  PROVE  high_bytes(s) = high_bytes(u) + s[i + 1] /\ low_bytes(s) = low_bytes(u) + s[i + 2]
<1> DEFINE n == Len(s)
           P(r) == places(n, r)
<1>1. n \in Nat /\ i + 1 \in 1 .. n /\ i + 2 \in 1 .. n
  BY BytesOf
<1>2. \A r \in {0, 1} : IsFiniteSet(P(r)) /\ P(r) \subseteq 1 .. n
  BY <1>1, PlacesNext
<1>3. i + 1 \in P(1) /\ i + 2 \in P(0) /\ i + 2 \notin P(1) /\ i + 1 \notin P(0)
  <2>1. (i + 1) % 2 = 1 /\ (i + 2) % 2 = 0
    BY <1>1
  <2> QED BY <1>1, <2>1 DEF places
<1> HIDE DEF P, n
<1>4. ASSUME NEW r \in {0, 1}, NEW k \in {i + 1, i + 2}, k \in P(r),
             \A x \in {i + 1, i + 2} : x \in P(r) => x = k
      PROVE  SumFunctionOnSet(s, P(r)) = SumFunctionOnSet(u, P(r)) + s[k]
  <2>1. \A x \in P(r) : s[x] \in Nat /\ u[x] \in Nat
    BY <1>2, BytesOf DEF n
  <2>2. /\ SumFunctionOnSet(s, P(r)) = s[k] + SumFunctionOnSet(s, P(r) \ {k})
        /\ SumFunctionOnSet(u, P(r)) = u[k] + SumFunctionOnSet(u, P(r) \ {k})
    BY <1>2, <1>4, <2>1, SumOfNats
  <2>3. IsFiniteSet(P(r) \ {k})
    BY <1>2, FS_RemoveElement
  <2>4. \A x \in P(r) \ {k} : u[x] = s[x]
    BY <1>2, <1>4 DEF n
  <2>5. SumFunctionOnSet(u, P(r) \ {k}) = SumFunctionOnSet(s, P(r) \ {k})
    BY <2>3, <2>4, SumSame
  <2>6. SumFunctionOnSet(s, P(r) \ {k}) \in Nat
    BY <2>1, <2>3, SumOfNats
  <2>7. u[k] = 0
    BY <1>4
  <2>8. s[k] \in Nat
    BY <1>4, <2>1
  <2> QED BY <2>2, <2>5, <2>6, <2>7, <2>8
<1>5. SumFunctionOnSet(s, P(1)) = SumFunctionOnSet(u, P(1)) + s[i + 1]
  BY <1>3, <1>4
<1>6. SumFunctionOnSet(s, P(0)) = SumFunctionOnSet(u, P(0)) + s[i + 2]
  BY <1>3, <1>4
<1>7. /\ high_bytes(s) = SumFunctionOnSet(s, P(1)) /\ low_bytes(s) = SumFunctionOnSet(s, P(0))
      /\ high_bytes(u) = SumFunctionOnSet(u, P(1)) /\ low_bytes(u) = SumFunctionOnSet(u, P(0))
  BY HighLow DEF Every, P, n
<1> QED BY <1>5, <1>6, <1>7

\* The bytes of two values written to the same place.
LEMMA WrittenTwice ==
  ASSUME NEW raw \in Seq(Byte), NEW i \in Nat, i + 2 <= Len(raw), NEW v, NEW w, NEW result, NEW old,
         Written(result, raw, i, v), Written(old, raw, i, w)
  PROVE  /\ result[i + 1] = v \div 256 /\ result[i + 2] = v % 256
         /\ old[i + 1] = w \div 256 /\ old[i + 2] = w % 256
         /\ \A j \in 1 .. Len(raw) : j \notin {i + 1, i + 2} => old[j] = result[j]
<1>1. /\ result[i + 1] = v \div 256 /\ result[i + 2] = v % 256
      /\ \A j \in 1 .. Len(raw) : j \notin {i + 1, i + 2} => result[j] = raw[j]
  BY WrittenElse
<1>2. /\ old[i + 1] = w \div 256 /\ old[i + 2] = w % 256
      /\ \A j \in 1 .. Len(raw) : j \notin {i + 1, i + 2} => old[j] = raw[j]
  BY WrittenElse
<1> QED BY <1>1, <1>2

\* A number is its high-order and its low-order byte.
LEMMA HighAndLow ==
  ASSUME NEW n \in Nat
  PROVE  n = 256 * (n \div 256) + (n % 256) /\ n \div 256 \in Nat /\ (n % 256) \in Nat
         /\ (n <= 65535 => n \div 256 <= 255) /\ (n % 256) <= 255
<1> DEFINE d == n \div 256
           r == n % 256
<1>1. n = 256 * d + r /\ d \in Nat /\ r \in Nat /\ r <= 255
  OBVIOUS
<1> HIDE DEF d, r
<1>2. n <= 65535 => d <= 255
  BY <1>1
<1> QED BY <1>1, <1>2 DEF d, r

\* tcp_update_checksum(): with the pseudo header, the words of the segment add up to 0.
LEMMA TcpSum ==
  ASSUME NEW t \in Seq(Byte), 18 <= Len(t), Len(t) % 2 = 0, NEW payload \in Seq(Byte), NEW base \in Nat, NEW c,
         c = complement(base + low_bytes(write_u16(t, 16, 0)) + low_bytes(payload)
                          + (high_bytes(write_u16(t, 16, 0)) + high_bytes(payload)) * 256)
  PROVE  c \in u16 /\ (base + OnesSum(write_u16(t, 16, c) \o payload)) % 65535 = 0
<1> DEFINE reset == write_u16(t, 16, 0)
           result == write_u16(t, 16, c)
           sum == base + low_bytes(reset) + low_bytes(payload)
                    + (high_bytes(reset) + high_bytes(payload)) * 256
           i == 16
<1>1. i \in Nat /\ i + 2 <= Len(t) /\ i % 2 = 0 /\ 0 \in u16
  BY WordIs
<1>2. Written(reset, t, i, 0)
  <2> HIDE DEF i
  <2>1. Written(write_u16(t, i, 0), t, i, 0)
    BY <1>1, WriteWord
  <2> QED BY <2>1 DEF i
<1> HIDE DEF reset
<1>3. reset \in Seq(Byte) /\ Len(reset) = Len(t)
  BY <1>2 DEF Written
<1>4. sum \in Nat
  <2>1. /\ high_bytes(reset) \in Nat /\ low_bytes(reset) \in Nat
        /\ high_bytes(payload) \in Nat /\ low_bytes(payload) \in Nat
    BY <1>3, HighLow
  <2> QED BY <2>1
<1>5. c \in u16 /\ (sum + c) % 65535 = 0
  <2>1. c = complement(sum)
    BY DEF reset
  <2> HIDE DEF sum
  <2> QED BY <1>4, <2>1, ComplementIs
<1> HIDE DEF sum
<1>6. Written(result, t, i, c)
  <2> HIDE DEF i
  <2>1. c \in u16
    BY <1>5
  <2>2. Written(write_u16(t, i, c), t, i, c)
    BY <1>1, <2>1, WriteWord
  <2> QED BY <2>2 DEF i
<1> HIDE DEF result
<1>7. result \in Seq(Byte) /\ Len(result) = Len(t)
  BY <1>6 DEF Written
<1>8. /\ result[i + 1] = c \div 256 /\ result[i + 2] = (c % 256)
      /\ reset[i + 1] = 0 /\ reset[i + 2] = 0
      /\ \A j \in 1 .. Len(t) : j \notin {i + 1, i + 2} => reset[j] = result[j]
  <2> DEFINE z == 0
  <2>1. /\ i \in Nat /\ i + 2 <= Len(t) /\ Written(result, t, i, c) /\ Written(reset, t, i, z)
        /\ z \div 256 = 0 /\ z % 256 = 0
    BY <1>1, <1>2, <1>6
  <2> HIDE DEF i, z
  <2> QED BY <2>1, WrittenTwice
<1>9. high_bytes(result) = high_bytes(reset) + c \div 256 /\ low_bytes(result) = low_bytes(reset) + (c % 256)
  <2>1. /\ result \in Seq(Byte) /\ reset \in Seq(Byte) /\ Len(reset) = Len(result)
        /\ i \in Nat /\ i % 2 = 0 /\ i + 2 <= Len(result) /\ reset[i + 1] = 0 /\ reset[i + 2] = 0
        /\ \A j \in 1 .. Len(result) : j \notin {i + 1, i + 2} => reset[j] = result[j]
    BY <1>1, <1>3, <1>7, <1>8
  <2> HIDE DEF i
  <2>2. high_bytes(result) = high_bytes(reset) + result[i + 1] /\ low_bytes(result) = low_bytes(reset) + result[i + 2]
    BY <2>1, SumWord
  <2> QED BY <1>8, <2>2
<1>10. OnesSum(result \o payload) = 256 * (high_bytes(result) + high_bytes(payload))
                                    + (low_bytes(result) + low_bytes(payload))
  <2> DEFINE p == result \o payload
  <2>1. Len(result) % 2 = 0
    BY <1>7
  <2>2. p \in Seq(Byte) /\ Len(p) = Len(result) + Len(payload)
        /\ \A r \in {0, 1} : Every(p, Len(result) + Len(payload), r)
                               = Every(result, Len(result), r) + Every(payload, Len(payload), r)
    BY <1>7, <2>1, EveryConcat
  <2> HIDE DEF p
  <2>3. high_bytes(p) = high_bytes(result) + high_bytes(payload)
        /\ low_bytes(p) = low_bytes(result) + low_bytes(payload)
    BY <1>7, <2>2, HighLow
  <2>4. OnesSum(p) = 256 * high_bytes(p) + low_bytes(p)
    BY <2>2, OnesSumIs
  <2> QED BY <2>3, <2>4 DEF p
<1>11. base + OnesSum(result \o payload) = sum + c
  <2> DEFINE hr == high_bytes(reset)
             lr == low_bytes(reset)
             hp == high_bytes(payload)
             lp == low_bytes(payload)
  <2>1. hr \in Nat /\ lr \in Nat /\ hp \in Nat /\ lp \in Nat /\ c \in Nat
    BY <1>3, <1>5, HighLow, WordIs
  <2>2. c = 256 * (c \div 256) + (c % 256) /\ c \div 256 \in Nat /\ (c % 256) \in Nat
    <3>1. c \in Nat
      BY <2>1
    <3>2. \A n \in Nat : n = 256 * (n \div 256) + (n % 256) /\ n \div 256 \in Nat /\ (n % 256) \in Nat
      BY ONLY HighAndLow
    <3> QED BY ONLY <3>1, <3>2
  <2>3. /\ OnesSum(result \o payload) = 256 * ((hr + c \div 256) + hp) + ((lr + (c % 256)) + lp)
        /\ sum = base + lr + lp + (hr + hp) * 256
    BY <1>9, <1>10 DEF sum
  <2> DEFINE h == c \div 256
             l == c % 256
             one == OnesSum(result \o payload)
  <2>4. /\ one = 256 * ((hr + h) + hp) + ((lr + l) + lp) /\ sum = base + lr + lp + (hr + hp) * 256
        /\ c = 256 * h + l /\ h \in Nat /\ l \in Nat
    BY <2>2, <2>3
  <2> HIDE DEF hr, lr, hp, lp, h, l, one
  <2>5. base + one = sum + c
    BY <2>1, <2>4
  <2> QED BY <2>5 DEF one
<1> QED BY <1>5, <1>11 DEF result

\* The words of the pseudo header of a segment of n bytes, whose protocol is r[10].
PseudoSum(r, n) ==
  6 + read_u16(r, 12) + read_u16(r, 14) + read_u16(r, 16) + read_u16(r, 18) + n

\* tcp_update_checksum() of a header after the IPv4 header r.
LEMMA TcpChecksum ==
  ASSUME NEW r \in Seq(Byte), 20 <= Len(r), Ipv4HeaderData(r).header_length = Len(r),
         NEW t \in Seq(Byte), 18 <= Len(t), Len(t) % 2 = 0, NEW payload \in Seq(Byte),
         read_u16(r, 2) = Len(r) + Len(t) + Len(payload)
  PROVE  \E u \in Seq(Byte) :
           /\ tcp_update_checksum(Transport("Tcp", t), Ipv4HeaderData(r), payload) = Transport("Tcp", u)
           /\ Kept(u, t)
           /\ (PseudoSum(r, Len(t) + Len(payload)) + OnesSum(u \o payload)) % 65535 = 0
<1> DEFINE ip == Ipv4HeaderData(r)
           base == 6 + ip.source[1] + ip.source[2] + ip.destination[1] + ip.destination[2]
                     + (ip.total_length - ip.header_length)
           reset == write_u16(t, 16, 0)
           c == complement(base + low_bytes(reset) + low_bytes(payload)
                             + (high_bytes(reset) + high_bytes(payload)) * 256)
           u == write_u16(t, 16, c)
<1>1. Len(r) \in Nat /\ Len(t) \in Nat /\ Len(payload) \in Nat
  BY BytesOf
<1>2. base = PseudoSum(r, Len(t) + Len(payload)) /\ base \in Nat
  <2>1. /\ ip.source = <<read_u16(r, 12), read_u16(r, 14)>>
        /\ ip.destination = <<read_u16(r, 16), read_u16(r, 18)>>
        /\ ip.total_length = read_u16(r, 2) /\ ip.header_length = Len(r)
    BY DEF Ipv4HeaderData, read_u32
  <2> HIDE DEF ip
  <2>2. \A j \in {12, 14, 16, 18} : read_u16(r, j) \in Nat
    <3>1. ASSUME NEW j \in {12, 14, 16, 18} PROVE read_u16(r, j) \in Nat
      <4>1. j \in Nat /\ j + 2 <= Len(r)
        BY <1>1
      <4>2. read_u16(r, j) \in u16
        BY <4>1, WordOf
      <4> QED BY <4>2, WordIs
    <3> QED BY <3>1
  <2>3. ip.total_length - ip.header_length = Len(t) + Len(payload)
    BY <1>1, <2>1
  <2>4. base = 6 + read_u16(r, 12) + read_u16(r, 14) + read_u16(r, 16) + read_u16(r, 18)
                 + (ip.total_length - ip.header_length)
    BY <2>1
  <2>5. base = PseudoSum(r, Len(t) + Len(payload))
    BY ONLY <2>3, <2>4 DEF PseudoSum
  <2>6. /\ read_u16(r, 12) \in Nat /\ read_u16(r, 14) \in Nat
        /\ read_u16(r, 16) \in Nat /\ read_u16(r, 18) \in Nat /\ Len(t) + Len(payload) \in Nat
    BY ONLY <1>1, <2>2
  <2>7. base \in Nat
    BY ONLY <2>3, <2>4, <2>6
  <2> QED BY ONLY <2>5, <2>7
<1>3. tcp_update_checksum(Transport("Tcp", t), ip, payload)
        = [Transport("Tcp", t) EXCEPT !.raw = write_u16(@, 16, c)]
  <2> HIDE DEF ip
  <2>1. [Transport("Tcp", t) EXCEPT !.raw = write_u16(@, 16, 0)].raw = reset
    BY DEF Transport
  <2> HIDE DEF reset
  <2>2. tcp_checksum([Transport("Tcp", t) EXCEPT !.raw = write_u16(@, 16, 0)], ip, payload) = c
    BY <2>1 DEF tcp_checksum
  <2> HIDE DEF c
  <2> QED BY <2>2 DEF tcp_update_checksum
<1> HIDE DEF base, ip
<1>4. c \in u16 /\ (base + OnesSum(u \o payload)) % 65535 = 0
  BY <1>2, TcpSum
<1> HIDE DEF c
<1>5. c \in u16
  BY <1>4
<1> DEFINE i == 16
<1>6. i \in {4, 6, 16} /\ i + 2 <= Len(t) /\ i = 16
  BY <1>1
<1>7. /\ [Transport("Tcp", t) EXCEPT !.raw = write_u16(@, i, c)] = Transport("Tcp", write_u16(t, i, c))
      /\ Kept(write_u16(t, i, c), t)
  <2> HIDE DEF i
  <2> QED BY <1>5, <1>6, Unparsed
<1>8. /\ [Transport("Tcp", t) EXCEPT !.raw = write_u16(@, 16, c)] = Transport("Tcp", u)
      /\ Kept(u, t)
  BY <1>7 DEF i
<1> HIDE DEF u
<1>9. u \in Seq(Byte)
  BY <1>8 DEF Kept
<1>10. tcp_update_checksum(Transport("Tcp", t), Ipv4HeaderData(r), payload) = Transport("Tcp", u)
  BY ONLY <1>3, <1>8 DEF ip
<1>11. (PseudoSum(r, Len(t) + Len(payload)) + OnesSum(u \o payload)) % 65535 = 0
  BY ONLY <1>2, <1>4
<1> QED BY ONLY <1>8, <1>9, <1>10, <1>11

\* A sum of one value more.
LEMMA SumNext ==
  ASSUME NEW w, NEW k \in Nat, \A i \in 0 .. k : w[i] \in Nat
  PROVE  SumFunctionOnSet(w, 0 .. k) = SumFunctionOnSet(w, 0 .. k - 1) + w[k]
<1> DEFINE S == 0 .. k - 1
           T == 0 .. k
<1>1. S \cup {k} = T /\ k \notin S /\ \A i \in T : w[i] \in Nat
  OBVIOUS
<1>2. IsFiniteSet(S)
  BY FS_Interval
<1> HIDE DEF S, T
<1>3. SumFunctionOnSet(w, S \cup {k}) = SumFunctionOnSet(w, S) + w[k]
  BY <1>1, <1>2, SumMore
<1> QED BY <1>1, <1>3 DEF S, T

\* The receiver's sum of the pseudo header is the one that the sender adds.
LEMMA PseudoHeaderSum ==
  ASSUME NEW raw \in Seq(Byte), 20 <= Len(raw), raw[10] = 6, NEW n \in u16
  PROVE  OnesSum(PseudoHeader(raw, n)) = PseudoSum(raw, n)
<1> DEFINE a == bytes(raw, 12, 20)
           h == n \div 256
           l == n % 256
           b == <<0, raw[10], h, l>>
           s == a \o b
           w == [i \in 0 .. 5 |-> read_u16(s, 2 * i)]
<1>1. n \in Nat /\ n <= 65535 /\ n = 256 * h + l /\ h \in Nat /\ l \in Nat /\ h <= 255 /\ l <= 255
      /\ Len(raw) \in Nat
  <2>1. n \in Nat /\ n <= 65535
    BY WordIs
  <2>2. \A k \in Nat : k = 256 * (k \div 256) + (k % 256) /\ k \div 256 \in Nat /\ (k % 256) \in Nat
                      /\ (k <= 65535 => k \div 256 <= 255) /\ (k % 256) <= 255
    BY ONLY HighAndLow
  <2>3. Len(raw) \in Nat
    BY BytesOf
  <2> QED BY ONLY <2>1, <2>2, <2>3
<1>2. Len(a) = 8 /\ a \in Seq(Byte) /\ \A i \in 1 .. 8 : a[i] = raw[12 + i]
  <2> DEFINE S == Byte
             f == 13
             m == 20
             p == SubSeq(raw, f, m)
  <2>1. raw \in Seq(S) /\ f \in Nat /\ m \in Nat /\ f = 13 /\ m = 20 /\ m <= Len(raw) /\ 12 + 1 = f
    BY <1>1
  <2>2. a = p
    BY DEF bytes
  <2> HIDE DEF S, f, m
  <2>3. \A i \in f .. m : raw[i] \in S
    <3>1. \A i \in 1 .. Len(raw) : raw[i] \in S
      BY <2>1, ElementOfSeq
    <3> QED BY <1>1, <2>1, <3>1
  <2>4. /\ p \in Seq(S) /\ Len(p) = (IF f <= m THEN m - f + 1 ELSE 0)
        /\ \A i \in 1 .. m - f + 1 : p[i] = raw[f + i - 1]
    BY <2>1, <2>3, SubSeqProperties
  <2> HIDE DEF p, a
  <2>5. \A i \in 1 .. 8 : i \in 1 .. m - f + 1 /\ f + i - 1 = 12 + i
    BY <2>1
  <2>6. Len(p) = 8
    BY <2>1, <2>4
  <2> QED BY <2>2, <2>4, <2>5, <2>6 DEF S
<1> HIDE DEF a, h, l
<1>3. b \in Seq(Byte) /\ Len(b) = 4 /\ b[1] = 0 /\ b[2] = 6 /\ b[3] = h /\ b[4] = l
  <2>1. 0 \in Byte /\ 6 \in Byte
    BY DEF Byte
  <2>2. h \in Byte /\ l \in Byte
    BY ONLY <1>1, ByteIs
  <2> QED BY <2>1, <2>2
<1> HIDE DEF b
<1>4. Len(s) = 12 /\ s \in Seq(Byte)
      /\ \A i \in 1 .. 12 : s[i] = IF i <= 8 THEN a[i] ELSE b[i - 8]
  <2>1. /\ Len(a \o b) = Len(a) + Len(b) /\ a \o b \in Seq(Byte)
        /\ \A i \in 1 .. Len(a) + Len(b) : (a \o b)[i] = IF i <= Len(a) THEN a[i] ELSE b[i - Len(a)]
    <3>1. a \in Seq(Byte) /\ b \in Seq(Byte)
      BY <1>2, <1>3
    <3> QED BY ONLY <3>1, ConcatProperties
  <2>2. s = a \o b /\ Len(a) + Len(b) = 12
    BY <1>2, <1>3
  <2> HIDE DEF s
  <2>3. ASSUME NEW i \in 1 .. 12 PROVE s[i] = IF i <= 8 THEN a[i] ELSE b[i - 8]
    BY <1>2, <2>1, <2>2
  <2> QED BY <2>1, <2>2, <2>3
<1> HIDE DEF s
<1>5. /\ s[1] = raw[13] /\ s[2] = raw[14] /\ s[3] = raw[15] /\ s[4] = raw[16]
      /\ s[5] = raw[17] /\ s[6] = raw[18] /\ s[7] = raw[19] /\ s[8] = raw[20]
      /\ s[9] = 0 /\ s[10] = 6 /\ s[11] = h /\ s[12] = l
  <2>1. \A i \in 1 .. 8 : s[i] = raw[12 + i]
    <3>1. ASSUME NEW i \in 1 .. 8 PROVE s[i] = raw[12 + i]
      <4>1. i \in 1 .. 12 /\ i <= 8
        OBVIOUS
      <4>2. s[i] = a[i]
        BY ONLY <1>4, <4>1
      <4>3. a[i] = raw[12 + i]
        BY <1>2
      <4> QED BY ONLY <4>2, <4>3
    <3> QED BY ONLY <3>1
  <2>2. s[9] = b[1] /\ s[10] = b[2] /\ s[11] = b[3] /\ s[12] = b[4]
    BY ONLY <1>4
  <2>3. /\ s[1] = raw[13] /\ s[2] = raw[14] /\ s[3] = raw[15] /\ s[4] = raw[16]
        /\ s[5] = raw[17] /\ s[6] = raw[18] /\ s[7] = raw[19] /\ s[8] = raw[20]
    BY ONLY <2>1
  <2> QED BY ONLY <1>3, <2>2, <2>3
<1>6. /\ read_u16(s, 0) = read_u16(raw, 12) /\ read_u16(s, 2) = read_u16(raw, 14)
      /\ read_u16(s, 4) = read_u16(raw, 16) /\ read_u16(s, 6) = read_u16(raw, 18)
      /\ read_u16(s, 8) = 6 /\ read_u16(s, 10) = n
  <2> DEFINE word(x, y) == x * 256 + y
  <2>1. /\ read_u16(s, 0) = word(s[1], s[2]) /\ read_u16(s, 2) = word(s[3], s[4])
        /\ read_u16(s, 4) = word(s[5], s[6]) /\ read_u16(s, 6) = word(s[7], s[8])
        /\ read_u16(s, 8) = word(s[9], s[10]) /\ read_u16(s, 10) = word(s[11], s[12])
    BY DEF read_u16
  <2>2. /\ read_u16(raw, 12) = word(raw[13], raw[14]) /\ read_u16(raw, 14) = word(raw[15], raw[16])
        /\ read_u16(raw, 16) = word(raw[17], raw[18]) /\ read_u16(raw, 18) = word(raw[19], raw[20])
    BY DEF read_u16
  <2>3. word(0, 6) = 6 /\ word(h, l) = n
    BY ONLY <1>1
  <2> HIDE DEF word
  <2> QED BY ONLY <1>5, <2>1, <2>2, <2>3
<1>7. /\ w[0] = read_u16(raw, 12) /\ w[1] = read_u16(raw, 14)
      /\ w[2] = read_u16(raw, 16) /\ w[3] = read_u16(raw, 18)
      /\ w[4] = 6 /\ w[5] = n
  BY <1>6
<1>8. OnesSum(s) = SumFunctionOnSet(w, 0 .. 5)
  <2>1. 12 % 2 = 0 /\ 12 \div 2 - 1 = 5
    OBVIOUS
  <2>2. OnesSum(s) = SumFunction([i \in 0 .. 5 |-> read_u16(s, 2 * i)])
    BY ONLY <1>4, <2>1 DEF OnesSum
  <2>3. DOMAIN w = 0 .. 5
    OBVIOUS
  <2> QED BY ONLY <2>2, <2>3 DEF SumFunction, w
<1> HIDE DEF w
<1>9. w[0] \in Nat /\ w[1] \in Nat /\ w[2] \in Nat /\ w[3] \in Nat /\ w[4] \in Nat /\ w[5] \in Nat
  <2>1. \A j \in {12, 14, 16, 18} : read_u16(raw, j) \in Nat
    <3>1. ASSUME NEW j \in {12, 14, 16, 18} PROVE read_u16(raw, j) \in Nat
      <4>1. j \in Nat /\ j + 2 <= Len(raw)
        BY <1>1
      <4>2. read_u16(raw, j) \in u16
        BY <4>1, WordOf
      <4> QED BY <4>2, WordIs
    <3> QED BY <3>1
  <2>2. /\ read_u16(raw, 12) \in Nat /\ read_u16(raw, 14) \in Nat
        /\ read_u16(raw, 16) \in Nat /\ read_u16(raw, 18) \in Nat
    BY ONLY <2>1
  <2> QED BY ONLY <1>1, <1>7, <2>2
<1> DEFINE W(k) == SumFunctionOnSet(w, 0 .. k)
<1>10. ASSUME NEW k \in 0 .. 5 PROVE W(k) = W(k - 1) + w[k]
  <2>1. ASSUME NEW i \in 0 .. k PROVE w[i] \in Nat
    <3>1. i \in {0, 1, 2, 3, 4, 5}
      OBVIOUS
    <3> QED BY ONLY <1>9, <3>1
  <2>2. k \in Nat
    OBVIOUS
  <2> QED BY <2>1, <2>2, SumNext
<1>11. W(-1) = 0
  <2>1. 0 .. -1 = {}
    OBVIOUS
  <2> QED BY <2>1, SumNone
<1> HIDE DEF W
<1> DEFINE before == W(-1)
<1>12. /\ W(0) = before + w[0] /\ W(1) = W(0) + w[1] /\ W(2) = W(1) + w[2]
       /\ W(3) = W(2) + w[3] /\ W(4) = W(3) + w[4] /\ W(5) = W(4) + w[5]
  <2>1. 0 - 1 = -1 /\ 1 - 1 = 0 /\ 2 - 1 = 1 /\ 3 - 1 = 2 /\ 4 - 1 = 3 /\ 5 - 1 = 4
    OBVIOUS
  <2> QED BY <1>10, <2>1
<1>13. W(5) = w[0] + w[1] + w[2] + w[3] + w[4] + w[5]
  <2>1. before = 0
    BY <1>11
  <2> HIDE DEF before
  <2>2. W(0) = w[0]
    BY ONLY <1>9, <1>12, <2>1
  <2>3. W(1) = w[0] + w[1]
    BY ONLY <1>9, <1>12, <2>2
  <2>4. W(2) = w[0] + w[1] + w[2]
    BY ONLY <1>9, <1>12, <2>3
  <2>5. W(3) = w[0] + w[1] + w[2] + w[3]
    BY ONLY <1>9, <1>12, <2>4
  <2> QED BY ONLY <1>9, <1>12, <2>5
<1>14. PseudoHeader(raw, n) = s
  BY DEF PseudoHeader, s, a, b, h, l
<1>15. OnesSum(s) = PseudoSum(raw, n)
  <2>1. OnesSum(s) = w[0] + w[1] + w[2] + w[3] + w[4] + w[5]
    BY ONLY <1>8, <1>13 DEF W
  <2>2. PseudoSum(raw, n) = w[4] + w[0] + w[1] + w[2] + w[3] + w[5]
    BY ONLY <1>7 DEF PseudoSum
  <2> QED BY ONLY <1>9, <2>1, <2>2
<1> QED BY <1>14, <1>15

-----------------------------------------------------------------------------
(***************************************************************************)
(* A packet, parsed again.                                                 *)
(***************************************************************************)
\* A packet in its three parts.
Parts(q, r, t, payload) ==
  [ipv4_header |-> Network(r), transport_header |-> Transport(q, t), payload |-> payload]

\* The length of a header fits in 6 bits.
LEMMA HeaderLength ==
  ASSUME NEW raw \in Seq(Byte), 20 <= Len(raw)
  PROVE  /\ Ipv4HeaderData(raw).header_length \in Nat /\ Ipv4HeaderData(raw).header_length <= 60
         /\ Ipv4HeaderData(raw).header_length % 4 = 0 /\ Ipv4HeaderData(raw).header_length % 2 = 0
<1> DEFINE x == raw[1]
           d == x % 16
<1>1. x \in Nat
  <2>1. 1 \in 1 .. Len(raw)
    BY BytesOf
  <2> QED BY <2>1, BytesOf
<1>2. Ipv4HeaderData(raw).header_length = d * 4
  BY DEF Ipv4HeaderData
<1> HIDE DEF x
<1>3. d \in Nat /\ d <= 15
  BY <1>1
<1> HIDE DEF d
<1>4. d * 4 \in Nat /\ d * 4 <= 60 /\ (d * 4) % 4 = 0 /\ (d * 4) % 2 = 0
  BY <1>3
<1> QED BY <1>2, <1>4

Again(raw, q, r, t, payload, rest) ==
  /\ Ipv4Packet(raw) = Parts(q, r, t, payload)
  /\ raw = r \o rest /\ raw \in Seq(Byte)
  /\ Len(raw) = Len(r) + (Len(t) + Len(payload)) /\ Len(rest) = Len(t) + Len(payload)
  /\ Ipv4HeaderData(raw) = Ipv4HeaderData(r) /\ \A i \in 1 .. 20 : raw[i] = r[i]
  /\ bytes(raw, 0, Len(r)) = r /\ bytes(raw, Len(r), Len(raw)) = rest
  /\ \A j \in Nat : j + 2 <= Len(t) => read_u16(rest, j) = read_u16(t, j)

LEMMA TransportFront ==
  ASSUME NEW t \in Seq(Byte), NEW payload \in Seq(Byte), NEW q, 4 <= Len(t), q = "Tcp" => 16 <= Len(t)
  PROVE  TransportHeaderData(q, t \o payload) = TransportHeaderData(q, t)
<1> DEFINE n == Len(t)
           rest == t \o payload
<1>1. n \in Nat /\ 4 <= n /\ (q = "Tcp" => 16 <= n)
  BY BytesOf
<1>2. \A j \in Nat : j + 2 <= n => read_u16(rest, j) = read_u16(t, j)
  BY ConcatFirst
<1> HIDE DEF n, rest
<1>3. TransportHeaderData(q, rest) = TransportHeaderData(q, t)
  BY <1>1, <1>2, TransportOf
<1> QED BY <1>3 DEF rest

\* Headers whose lengths are those of their bytes.
Consistent(q, r, t, payload) ==
  /\ q \in {"Tcp", "Udp"} /\ r \in Seq(Byte) /\ t \in Seq(Byte) /\ payload \in Seq(Byte)
  /\ 20 <= Len(r) /\ Ipv4HeaderData(r).header_length = Len(r) /\ Ipv4HeaderData(r).protocol = q
  /\ read_u16(r, 2) = Len(r) + Len(t) + Len(payload)
  /\ Len(t) = AnswerHeader(q) /\ (q = "Tcp" => read_u16(t, 12) \div 4096 = 5)

\* Headers and a payload, one after the other, are parsed into these parts again.
LEMMA ParsedAgain ==
  ASSUME NEW r, NEW t, NEW payload, NEW q, Consistent(q, r, t, payload)
  PROVE  Again((r \o t) \o payload, q, r, t, payload, t \o payload)
<1> DEFINE rest == t \o payload
           raw == r \o rest
           ip == Ipv4HeaderData(r)
<1>0. /\ q \in {"Tcp", "Udp"} /\ r \in Seq(Byte) /\ t \in Seq(Byte) /\ payload \in Seq(Byte)
      /\ 20 <= Len(r) /\ Ipv4HeaderData(r).header_length = Len(r) /\ Ipv4HeaderData(r).protocol = q
      /\ read_u16(r, 2) = Len(r) + Len(t) + Len(payload)
      /\ Len(t) = AnswerHeader(q) /\ (q = "Tcp" => read_u16(t, 12) \div 4096 = 5)
  BY DEF Consistent
<1> USE <1>0
<1>1. (r \o t) \o payload = raw
  <2>1. Groups(r, t, payload)
    BY Grouped
  <2> QED BY <2>1 DEF Groups
<1>2. /\ rest \in Seq(Byte) /\ Len(rest) = Len(t) + Len(payload)
      /\ \A j \in Nat : j + 2 <= Len(t) => read_u16(rest, j) = read_u16(t, j)
      /\ bytes(rest, 0, Len(t)) = t /\ bytes(rest, Len(t), Len(rest)) = payload
  BY ConcatFirst
<1> HIDE DEF rest
<1>3. /\ raw \in Seq(Byte) /\ Len(raw) = Len(r) + Len(rest)
      /\ \A i \in 1 .. Len(r) : raw[i] = r[i]
      /\ bytes(raw, 0, Len(r)) = r /\ bytes(raw, Len(r), Len(raw)) = rest
  <2>1. /\ raw \in Seq(Byte) /\ Len(raw) = Len(r) + Len(rest)
        /\ \A i \in 1 .. Len(r) : raw[i] = r[i]
        /\ bytes(raw, 0, Len(r)) = r /\ bytes(raw, Len(r), Len(r) + Len(rest)) = rest
    <3>1. rest \in Seq(Byte)
      BY <1>2
    <3> QED BY <3>1, ConcatFirst
  <2> QED BY <2>1
<1> HIDE DEF raw
<1>4. Len(r) \in Nat /\ Len(t) \in Nat /\ Len(payload) \in Nat /\ Len(rest) \in Nat
  BY <1>2, BytesOf
<1>5. \A i \in 1 .. 20 : raw[i] = r[i]
  <2>1. ASSUME NEW i \in 1 .. 20 PROVE raw[i] = r[i]
    <3>1. i \in 1 .. Len(r)
      BY <1>4
    <3> QED BY <1>3, <3>1
  <2> QED BY <2>1
<1>6. Ipv4HeaderData(raw) = ip
  <2> HIDE DEF ip
  <2> QED BY <1>5, NetworkOf DEF ip
<1>7. ip.header_length = Len(r) /\ ip.protocol = q /\ ip.total_length = Len(raw)
  <2>1. ip.total_length = read_u16(r, 2)
    BY DEF Ipv4HeaderData
  <2> QED BY <1>2, <1>3, <1>4, <2>1
<1> HIDE DEF ip
<1>8. TransportHeaderData(q, rest) = TransportHeaderData(q, t)
  <2>1. 4 <= Len(t) /\ (q = "Tcp" => 16 <= Len(t))
    BY <1>4 DEF AnswerHeader, UDP_HEADER_LENGTH
  <2> QED BY <2>1, TransportFront DEF rest
<1>9. TransportHeaderData(q, t).header_length = Len(t)
  <2>1. CASE q = "Tcp"
    <3>1. TransportHeaderData(q, t).header_length = (read_u16(t, 12) \div 4096) * 4
      BY <2>1 DEF TransportHeaderData, TcpHeaderData
    <3>2. read_u16(t, 12) \div 4096 = 5 /\ Len(t) = 20
      BY <2>1 DEF AnswerHeader
    <3> QED BY <3>1, <3>2
  <2>2. CASE q = "Udp"
    BY <2>2 DEF TransportHeaderData, UdpHeaderData, AnswerHeader
  <2> QED BY <2>1, <2>2
<1>10. Ipv4Packet(raw) = [ipv4_header |-> [raw |-> r, data |-> ip],
                          transport_header |-> [raw |-> t, data |-> TransportHeaderData(q, t)],
                          payload |-> payload]
  <2> DEFINE data == TransportHeaderData(q, rest)
             n == ip.header_length
             m == data.header_length
  <2>1. bytes(raw, n, ip.total_length) = rest /\ bytes(raw, 0, n) = r
    BY <1>3, <1>7
  <2>2. Ipv4Packet(raw) = [ipv4_header |-> [raw |-> bytes(raw, 0, n), data |-> ip],
                           transport_header |-> [raw |-> bytes(rest, 0, m), data |-> data],
                           payload |-> bytes(rest, m, Len(rest))]
    <3> HIDE DEF rest, ip
    <3> QED BY <1>6, <1>7, <2>1 DEF Ipv4Packet
  <2>3. bytes(rest, 0, m) = t /\ bytes(rest, m, Len(rest)) = payload
    BY <1>2, <1>8, <1>9
  <2> HIDE DEF n, m, data
  <2>4. data = TransportHeaderData(q, t)
    BY <1>8 DEF data
  <2> QED BY <2>1, <2>2, <2>3, <2>4
<1>11. Ipv4Packet(raw) = Parts(q, r, t, payload)
  BY <1>10 DEF Parts, Network, Transport, ip
<1>12. /\ Len(raw) = Len(r) + (Len(t) + Len(payload)) /\ raw = r \o rest
  BY <1>2, <1>3 DEF raw
<1>13. Len(raw) = Len(r) + (Len(t) + Len(payload))
  BY <1>12
<1>14. raw \in Seq(Byte) /\ Ipv4HeaderData(raw) = Ipv4HeaderData(r) /\ raw = r \o rest
  BY <1>3, <1>6, <1>12 DEF ip
<1>15. Again(raw, q, r, t, payload, rest)
  <2>1. Len(rest) = Len(t) + Len(payload)
        /\ \A j \in Nat : j + 2 <= Len(t) => read_u16(rest, j) = read_u16(t, j)
    BY <1>2
  <2>2. bytes(raw, 0, Len(r)) = r /\ bytes(raw, Len(r), Len(raw)) = rest
    BY <1>3
  <2> QED BY ONLY <1>5, <1>11, <1>13, <1>14, <2>1, <2>2 DEF Again
<1>16. Again((r \o t) \o payload, q, r, t, payload, rest)
  BY <1>1, <1>15
<1> QED BY <1>16 DEF rest

\* What follows the IPv4 header.
Behind(raw) == bytes(raw, Ipv4HeaderData(raw).header_length, Len(raw))

\* A packet that may create a connection.
Referred(raw) ==
  /\ raw \in Seq(Byte) /\ WellFormed(raw) /\ is_valid(raw)
  /\ \A payload \in Payloads : Answerable(raw, payload)

LEMMA ReferenceIs ==
  ASSUME NEW raw, Referred(raw)
  PROVE  LET q == Ipv4HeaderData(raw).protocol
             n == Ipv4HeaderData(raw).header_length
         IN  /\ q \in {"Tcp", "Udp"} /\ raw \in Seq(Byte) /\ 20 <= Len(raw)
             /\ n \in 0 .. Len(raw) /\ 20 <= n /\ n <= 60 /\ n % 2 = 0
             /\ Behind(raw) \in Seq(Byte) /\ AnswerHeader(q) <= Len(Behind(raw))
             /\ TransportHeaderData(q, Behind(raw)).header_length \in AnswerHeader(q) .. Len(Behind(raw))
<1> DEFINE ip == Ipv4HeaderData(raw)
           q == ip.protocol
           n == ip.header_length
           rest == Behind(raw)
<1>1. /\ raw \in Seq(Byte) /\ 20 <= Len(raw) /\ 20 <= n /\ n <= Len(raw)
      /\ rest = bytes(raw, n, Len(raw)) /\ q # "Other"
  <2>1. raw \in Seq(Byte) /\ Len(raw) \in Nat
    BY BytesOf DEF Referred
  <2> QED BY <2>1 DEF Referred, WellFormed, is_valid, Behind
<1>2. q \in {"Tcp", "Udp"}
  BY <1>1 DEF Ipv4HeaderData, Protocol
<1>3. n \in Nat /\ n <= 60 /\ n % 2 = 0
  BY <1>1, HeaderLength
<1>4. n \in 0 .. Len(raw) /\ Len(raw) \in Nat
  BY <1>1, <1>3, BytesOf
<1>5. AnswerHeader(q) <= Len(rest) /\ (q = "Tcp" => TcpHeaderData(rest).header_length \in 20 .. Len(rest))
  BY <1>1 DEF Referred, WellFormed, Behind
<1> HIDE DEF n
<1>6. rest \in Seq(Byte)
  BY <1>1, <1>4, CutBytes
<1>7. TransportHeaderData(q, rest).header_length \in AnswerHeader(q) .. Len(rest)
  <2> HIDE DEF q, rest
  <2>1. CASE q = "Tcp"
    BY <1>5, <2>1 DEF TransportHeaderData, AnswerHeader
  <2>2. CASE q = "Udp"
    <3>1. TransportHeaderData(q, rest).header_length = 8 /\ AnswerHeader(q) = 8
      BY <2>2 DEF TransportHeaderData, UdpHeaderData, AnswerHeader, UDP_HEADER_LENGTH
    <3>2. Len(rest) \in Nat /\ 8 <= Len(rest)
      BY <1>5, <1>6, <3>1, BytesOf
    <3> QED BY <3>1, <3>2
  <2> QED BY <1>2, <2>1, <2>2
<1> QED BY <1>1, <1>2, <1>3, <1>4, <1>5, <1>6, <1>7 DEF n

\* The packet that creates a connection, in its parts.
LEMMA ReferenceParts ==
  ASSUME NEW raw, Referred(raw)
  PROVE  LET q == Ipv4HeaderData(raw).protocol
             n == Ipv4HeaderData(raw).header_length
             m == TransportHeaderData(q, Behind(raw)).header_length
         IN  Ipv4Packet(raw) = Parts(q, bytes(raw, 0, n), bytes(Behind(raw), 0, m),
                                     bytes(Behind(raw), m, Len(Behind(raw))))
<1> DEFINE ip == Ipv4HeaderData(raw)
           q == ip.protocol
           n == ip.header_length
           rest == Behind(raw)
           data == TransportHeaderData(q, rest)
           m == data.header_length
           r == bytes(raw, 0, n)
           t == bytes(rest, 0, m)
<1>1. /\ q \in {"Tcp", "Udp"} /\ raw \in Seq(Byte) /\ 20 <= Len(raw)
      /\ n \in 0 .. Len(raw) /\ 20 <= n
      /\ rest \in Seq(Byte) /\ m \in AnswerHeader(q) .. Len(rest)
  BY ReferenceIs
<1>2. rest = bytes(raw, n, ip.total_length)
  BY DEF Referred, WellFormed, Behind
<1>3. Ipv4Packet(raw) = [ipv4_header |-> [raw |-> r, data |-> ip],
                         transport_header |-> [raw |-> t, data |-> data],
                         payload |-> bytes(rest, m, Len(rest))]
  <2> HIDE DEF rest
  <2> QED BY <1>2 DEF Ipv4Packet
<1> HIDE DEF ip, n, rest, data, m
<1>4. Ipv4HeaderData(r) = ip
  <2>1. \A i \in 1 .. n : r[i] = raw[i]
    BY <1>1, FirstBytes
  <2>2. \A i \in 1 .. 20 : i \in 1 .. n
    BY <1>1
  <2>3. \A i \in 1 .. 20 : r[i] = raw[i]
    BY <2>1, <2>2
  <2> HIDE DEF r
  <2> QED BY <2>3, NetworkOf DEF ip
<1>5. TransportHeaderData(q, t) = data
  <2>1. m \in 0 .. Len(rest) /\ m \in Nat /\ 4 <= m /\ (q = "Tcp" => 16 <= m)
    BY <1>1, BytesOf DEF AnswerHeader, UDP_HEADER_LENGTH
  <2>2. \A j \in Nat : j + 2 <= m => read_u16(t, j) = read_u16(rest, j)
    BY <1>1, <2>1, FirstBytes
  <2> HIDE DEF t, q
  <2> QED BY <2>1, <2>2, TransportOf DEF data
<1>6. Ipv4Packet(raw) = Parts(q, r, t, bytes(rest, m, Len(rest)))
  BY <1>3, <1>4, <1>5 DEF Parts, Network, Transport
<1> QED BY <1>6 DEF ip, n, m, data, rest

-----------------------------------------------------------------------------
(***************************************************************************)
(* The headers of an answer.                                               *)
(***************************************************************************)
\* The headers of an answer to a packet ref: what they take from it.
MirrorsNetwork(ref, r) ==
  /\ r \in Seq(Byte) /\ Len(r) = Ipv4HeaderData(ref).header_length
  /\ r[1] = ref[1] /\ r[10] = ref[10]
  /\ read_u32(r, 12) = read_u32(ref, 16) /\ read_u32(r, 16) = read_u32(ref, 12)
MirrorsTransport(q, rest, t) ==
  /\ t \in Seq(Byte) /\ Len(t) = AnswerHeader(q)
  /\ read_u16(t, 0) = read_u16(rest, 2) /\ read_u16(t, 2) = read_u16(rest, 0)
  /\ q = "Tcp" => read_u16(t, 12) \div 4096 = 5

\* A packet of the relay: its lengths and its checksums.
BuiltFrom(q, r, t, payload) ==
  /\ read_u16(r, 2) = Len(r) + Len(t) + Len(payload)
  /\ OnesSum(r) % 65535 = 0
  /\ IF q = "Tcp" THEN (PseudoSum(r, Len(t) + Len(payload)) + OnesSum(t \o payload)) % 65535 = 0
     ELSE read_u16(t, 6) = 0 /\ read_u16(t, 4) = 8 + Len(payload)

LEMMA MirroredNetwork ==
  ASSUME NEW ref, Referred(ref), NEW r, MirrorsNetwork(ref, r)
  PROVE  /\ r \in Seq(Byte) /\ 20 <= Len(r) /\ Len(r) <= 60 /\ Len(r) % 2 = 0
         /\ Ipv4HeaderData(r).header_length = Len(r)
         /\ Ipv4HeaderData(r).protocol = Ipv4HeaderData(ref).protocol
         /\ Ipv4HeaderData(r).source = Ipv4HeaderData(ref).destination
         /\ Ipv4HeaderData(r).destination = Ipv4HeaderData(ref).source
<1>1. /\ Ipv4HeaderData(ref).header_length >= 20 /\ Ipv4HeaderData(ref).header_length <= 60
      /\ Ipv4HeaderData(ref).header_length % 2 = 0
  BY ReferenceIs
<1>2. /\ r \in Seq(Byte) /\ Len(r) = Ipv4HeaderData(ref).header_length
      /\ r[1] = ref[1] /\ r[10] = ref[10]
      /\ read_u32(r, 12) = read_u32(ref, 16) /\ read_u32(r, 16) = read_u32(ref, 12)
  BY DEF MirrorsNetwork
<1>3. r \in Seq(Byte) /\ 20 <= Len(r) /\ Len(r) <= 60 /\ Len(r) % 2 = 0
  BY ONLY <1>1, <1>2
<1>4. /\ Ipv4HeaderData(r).header_length = Ipv4HeaderData(ref).header_length
      /\ Ipv4HeaderData(r).protocol = Ipv4HeaderData(ref).protocol
      /\ Ipv4HeaderData(r).source = Ipv4HeaderData(ref).destination
      /\ Ipv4HeaderData(r).destination = Ipv4HeaderData(ref).source
  BY ONLY <1>2 DEF Ipv4HeaderData
<1> QED BY ONLY <1>2, <1>3, <1>4

\* The total length and the checksum are not among these.
LEMMA NetworkKept ==
  ASSUME NEW ref, NEW r, MirrorsNetwork(ref, r), 20 <= Len(r), NEW result \in Seq(Byte), Len(result) = Len(r),
         \A j \in 1 .. Len(r) : j \notin {3, 4, 11, 12} => result[j] = r[j]
  PROVE  MirrorsNetwork(ref, result)
<1>1. Len(r) \in Nat
  BY BytesOf DEF MirrorsNetwork
<1>2. /\ result[1] = r[1] /\ result[10] = r[10]
      /\ result[13] = r[13] /\ result[14] = r[14] /\ result[15] = r[15] /\ result[16] = r[16]
      /\ result[17] = r[17] /\ result[18] = r[18] /\ result[19] = r[19] /\ result[20] = r[20]
  <2>1. \A j \in {1, 10, 13, 14, 15, 16, 17, 18, 19, 20} : j \in 1 .. Len(r) /\ j \notin {3, 4, 11, 12}
    BY <1>1
  <2>2. \A j \in {1, 10, 13, 14, 15, 16, 17, 18, 19, 20} : result[j] = r[j]
    BY <2>1
  <2> QED BY ONLY <2>2
<1>3. read_u32(result, 12) = read_u32(r, 12) /\ read_u32(result, 16) = read_u32(r, 16)
  BY ONLY <1>2 DEF read_u32, read_u16
<1> QED BY <1>2, <1>3 DEF MirrorsNetwork

LEMMA TransportKept ==
  ASSUME NEW q \in {"Tcp", "Udp"}, NEW rest, NEW t, MirrorsTransport(q, rest, t), NEW result, Kept(result, t)
  PROVE  MirrorsTransport(q, rest, result)
<1>1. q = "Tcp" => read_u16(result, 12) \div 4096 = read_u16(t, 12) \div 4096
  BY DEF MirrorsTransport, Kept, AnswerHeader
<1>2. result \in Seq(Byte) /\ Len(result) = Len(t) /\ read_u16(result, 0) = read_u16(t, 0)
      /\ read_u16(result, 2) = read_u16(t, 2)
  BY DEF Kept
<1> QED BY <1>1, <1>2 DEF MirrorsTransport

\* A header tells its own protocol.
LEMMA ProtocolOf ==
  ASSUME NEW q \in {"Tcp", "Udp"}, NEW t
  PROVE  Transport(q, t).data.protocol = q /\ Transport(q, t).data = TransportHeaderData(q, t)
         /\ Transport(q, t).raw = t
  BY DEF Transport, TransportHeaderData, TcpHeaderData, UdpHeaderData

\* The bytes of the headers of ref, in front of what it carries.
LEMMA ReferenceBytes ==
  ASSUME NEW ref, Referred(ref)
  PROVE  LET q == Ipv4HeaderData(ref).protocol
             r == bytes(ref, 0, Ipv4HeaderData(ref).header_length)
             m == TransportHeaderData(q, Behind(ref)).header_length
             t == bytes(Behind(ref), 0, m)
         IN  /\ r \in Seq(Byte) /\ Len(r) = Ipv4HeaderData(ref).header_length /\ 20 <= Len(r)
             /\ \A i \in 1 .. 20 : r[i] = ref[i]
             /\ t \in Seq(Byte) /\ Len(t) = m /\ AnswerHeader(q) <= Len(t) /\ (q = "Udp" => Len(t) = 8)
             /\ read_u16(t, 0) = read_u16(Behind(ref), 0) /\ read_u16(t, 2) = read_u16(Behind(ref), 2)
<1> DEFINE q == Ipv4HeaderData(ref).protocol
           n == Ipv4HeaderData(ref).header_length
           rest == Behind(ref)
           m == TransportHeaderData(q, rest).header_length
           r == bytes(ref, 0, n)
           t == bytes(rest, 0, m)
<1>1. /\ q \in {"Tcp", "Udp"} /\ ref \in Seq(Byte) /\ n \in 0 .. Len(ref) /\ 20 <= n
      /\ rest \in Seq(Byte) /\ m \in AnswerHeader(q) .. Len(rest)
  BY ReferenceIs
<1>2. q = "Udp" => m = 8
  BY DEF TransportHeaderData, UdpHeaderData, UDP_HEADER_LENGTH
<1>3. AnswerHeader(q) \in Nat /\ AnswerHeader(q) >= 8
  BY DEF AnswerHeader, UDP_HEADER_LENGTH
<1> HIDE DEF q, n, rest, m
<1>4. r \in Seq(Byte) /\ Len(r) = n /\ 20 <= Len(r) /\ \A i \in 1 .. n : r[i] = ref[i]
  BY <1>1, CutBytes, FirstBytes
<1>5. m \in 0 .. Len(rest) /\ AnswerHeader(q) <= m /\ 8 <= m /\ m \in Nat
  BY <1>1, <1>3, BytesOf
<1>6. t \in Seq(Byte) /\ Len(t) = m /\ \A j \in Nat : j + 2 <= m => read_u16(t, j) = read_u16(rest, j)
  BY <1>1, <1>5, CutBytes, FirstBytes
<1> HIDE DEF r, t
<1>7. \A i \in 1 .. 20 : r[i] = ref[i]
  <2>1. ASSUME NEW i \in 1 .. 20 PROVE r[i] = ref[i]
    <3>1. i \in 1 .. n
      BY <1>1
    <3> QED BY <1>4, <3>1
  <2> QED BY ONLY <2>1
<1>8. read_u16(t, 0) = read_u16(rest, 0) /\ read_u16(t, 2) = read_u16(rest, 2)
  <2>1. 0 + 2 <= m /\ 2 + 2 <= m
    BY <1>5
  <2> QED BY <1>6, <2>1
<1>9. /\ r \in Seq(Byte) /\ Len(r) = n /\ 20 <= Len(r)
      /\ t \in Seq(Byte) /\ Len(t) = m /\ AnswerHeader(q) <= Len(t) /\ (q = "Udp" => Len(t) = 8)
  BY ONLY <1>2, <1>4, <1>5, <1>6
<1> QED BY ONLY <1>7, <1>8, <1>9 DEF r, t, q, n, rest, m

\* The headers of a connection, mirrored.
Mirrored(ref, q, p, payload) ==
  \E r, t \in Seq(Byte) : /\ MirrorsNetwork(ref, r) /\ MirrorsTransport(q, Behind(ref), t)
                          /\ p = Parts(q, r, t, payload)

\* The headers of ref, without options of TCP.
CopyOf(ref, q, r, t) ==
  /\ Len(r) = Ipv4HeaderData(ref).header_length /\ 20 <= Len(r) /\ \A i \in 1 .. 20 : r[i] = ref[i]
  /\ Len(t) = AnswerHeader(q) /\ (q = "Tcp" => read_u16(t, 12) \div 4096 = 5)
  /\ read_u16(t, 0) = read_u16(Behind(ref), 0) /\ read_u16(t, 2) = read_u16(Behind(ref), 2)

\* Packetizer::new() mirrors the headers of a packet without options.
LEMMA NewMirrors ==
  ASSUME NEW ref, Referred(ref), NEW q, q = Ipv4HeaderData(ref).protocol, NEW r \in Seq(Byte),
         NEW t \in Seq(Byte), CopyOf(ref, q, r, t), NEW payload
  PROVE  Mirrored(ref, q, new(Parts(q, r, t, payload)), << >>)
<1> DEFINE s == swap_bytes(r, 12, 4)
           u == swap_bytes(t, 0, 2)
           rest == Behind(ref)
<1>1. q \in {"Tcp", "Udp"}
  BY ReferenceIs
<1>2. /\ swap_addresses(Network(r)) = Network(s)
      /\ s \in Seq(Byte) /\ Len(s) = Len(r) /\ \A j \in 1 .. 12 : s[j] = r[j]
      /\ read_u32(s, 12) = read_u32(r, 16) /\ read_u32(s, 16) = read_u32(r, 12)
  <2>1. r \in Seq(Byte) /\ Len(r) >= 20
    BY DEF CopyOf
  <2> QED BY ONLY <2>1, SwapAddresses DEF s
<1>3. Len(t) >= 8 /\ (q = "Tcp" => Len(t) >= 20) /\ Len(t) \in Nat
  BY <1>1, BytesOf DEF AnswerHeader, UDP_HEADER_LENGTH, CopyOf
<1>4. /\ swap_ports(Transport(q, t)) = Transport(q, u)
      /\ u \in Seq(Byte) /\ Len(u) = Len(t)
      /\ read_u16(u, 0) = read_u16(t, 2) /\ read_u16(u, 2) = read_u16(t, 0)
      /\ q = "Tcp" => read_u16(u, 12) = read_u16(t, 12)
  <2>1. Len(t) >= 4
    BY <1>3
  <2> QED BY <1>1, <1>3, <2>1, SwapPorts
<1> HIDE DEF s, u, rest
<1>5. /\ r[1] = ref[1] /\ r[10] = ref[10] /\ s[1] = r[1] /\ s[10] = r[10]
      /\ read_u32(r, 12) = read_u32(ref, 12) /\ read_u32(r, 16) = read_u32(ref, 16)
  <2>1. s[1] = r[1] /\ s[10] = r[10]
    BY <1>2
  <2>2. /\ r[1] = ref[1] /\ r[10] = ref[10]
        /\ r[13] = ref[13] /\ r[14] = ref[14] /\ r[15] = ref[15] /\ r[16] = ref[16]
        /\ r[17] = ref[17] /\ r[18] = ref[18] /\ r[19] = ref[19] /\ r[20] = ref[20]
    BY DEF CopyOf
  <2>3. read_u32(r, 12) = read_u32(ref, 12) /\ read_u32(r, 16) = read_u32(ref, 16)
    BY ONLY <2>2 DEF read_u32, read_u16
  <2> QED BY ONLY <2>1, <2>2, <2>3
<1>6. MirrorsNetwork(ref, s)
  BY <1>2, <1>5 DEF MirrorsNetwork, CopyOf
<1>7. MirrorsTransport(q, rest, u)
  BY <1>4 DEF MirrorsTransport, CopyOf, rest
<1>8. new(Parts(q, r, t, payload)) = Parts(q, s, u, << >>)
  BY <1>2, <1>4 DEF new, Parts
<1> QED BY <1>2, <1>4, <1>6, <1>7, <1>8 DEF Mirrored, rest

\* create() mirrors the headers of the first packet of a connection.
Created(ref) ==
  LET p == Ipv4Packet(ref)
  IN  IF p.transport_header.data.protocol = "Tcp"
      THEN new([p EXCEPT !.transport_header = shrinked(@)]) ELSE new(p)

LEMMA CreateMirrors ==
  ASSUME NEW ref, Referred(ref)
  PROVE  Mirrored(ref, Ipv4HeaderData(ref).protocol, Created(ref), << >>)
<1> DEFINE q == Ipv4HeaderData(ref).protocol
           rest == Behind(ref)
           m == TransportHeaderData(q, rest).header_length
           r == bytes(ref, 0, Ipv4HeaderData(ref).header_length)
           t == bytes(rest, 0, m)
           payload == bytes(rest, m, Len(rest))
           p == Ipv4Packet(ref)
<1>1. /\ r \in Seq(Byte) /\ Len(r) = Ipv4HeaderData(ref).header_length /\ 20 <= Len(r)
      /\ \A i \in 1 .. 20 : r[i] = ref[i]
      /\ t \in Seq(Byte) /\ AnswerHeader(q) <= Len(t) /\ (q = "Udp" => Len(t) = 8)
      /\ read_u16(t, 0) = read_u16(rest, 0) /\ read_u16(t, 2) = read_u16(rest, 2)
  BY ReferenceBytes
<1>2. p = Parts(q, r, t, payload)
  BY ReferenceParts
<1>3. q \in {"Tcp", "Udp"}
  BY ReferenceIs
<1> HIDE DEF rest, m, r, t, payload, p, q
<1>4. p.transport_header = Transport(q, t) /\ p.transport_header.data.protocol = q
  BY <1>2, <1>3, ProtocolOf DEF Parts
<1>5. CASE q = "Tcp"
  <2>1. 20 <= Len(t)
    BY <1>1, <1>5 DEF AnswerHeader
  <2>2. PICK u \in Seq(Byte) :
           /\ shrinked(Transport("Tcp", t)) = Transport("Tcp", u)
           /\ Len(u) = 20 /\ read_u16(u, 12) \div 4096 = 5
           /\ read_u16(u, 0) = read_u16(t, 0) /\ read_u16(u, 2) = read_u16(t, 2)
    BY <1>1, <2>1, Shrinked
  <2>3. [p EXCEPT !.transport_header = shrinked(@)] = Parts(q, r, u, payload)
    BY <1>2, <1>5, <2>2 DEF Parts
  <2>4. Created(ref) = new(Parts(q, r, u, payload))
    BY <1>4, <1>5, <2>3 DEF Created, p
  <2>5. CopyOf(ref, q, r, u) /\ q = Ipv4HeaderData(ref).protocol /\ r \in Seq(Byte)
    BY <1>1, <1>5, <2>2 DEF AnswerHeader, rest, q, CopyOf
  <2>6. Mirrored(ref, q, new(Parts(q, r, u, payload)), << >>)
    BY <2>5, NewMirrors
  <2> QED BY <2>4, <2>6 DEF q
<1>6. CASE q = "Udp"
  <2>1. Created(ref) = new(Parts(q, r, t, payload))
    BY <1>2, <1>4, <1>6 DEF Created, p
  <2>2. CopyOf(ref, q, r, t) /\ q = Ipv4HeaderData(ref).protocol
        /\ r \in Seq(Byte) /\ t \in Seq(Byte)
    BY <1>1, <1>6 DEF AnswerHeader, UDP_HEADER_LENGTH, rest, q, CopyOf
  <2>3. Mirrored(ref, q, new(Parts(q, r, t, payload)), << >>)
    BY <2>2, NewMirrors
  <2> QED BY <2>1, <2>3 DEF q
<1> QED BY <1>3, <1>5, <1>6

Updated(u, r, t, old, seq, ack, flags) ==
  Kept(u, t) /\ update_headers(Parts("Tcp", r, t, old), seq, ack, flags) = Parts("Tcp", r, u, old)

\* update_headers() keeps what the header of the transport mirrors.
LEMMA UpdateMirrors ==
  ASSUME NEW r, NEW t \in Seq(Byte), 20 <= Len(t), NEW old,
         NEW seq \in u16 \X u16, NEW ack \in u16 \X u16, NEW flags \in FlagBits
  PROVE  \E u : Updated(u, r, t, old, seq, ack, flags)
<1> DEFINE a == write_u32(t, 4, seq)
           b == write_u32(a, 8, ack)
           u == WithFlags(b, flags)
<1>1. set_sequence_number(Transport("Tcp", t), seq) = Transport("Tcp", a) /\ Kept(a, t)
  BY SetSequenceNumber
<1> HIDE DEF a
<1>2. a \in Seq(Byte) /\ Len(a) = Len(t) /\ 20 <= Len(a)
  BY <1>1 DEF Kept
<1>3. set_acknowledgement_number(Transport("Tcp", a), ack) = Transport("Tcp", b) /\ Kept(b, a)
  BY <1>2, SetAcknowledgementNumber
<1> HIDE DEF b
<1>4. b \in Seq(Byte) /\ Len(b) = Len(a) /\ 20 <= Len(b)
  BY <1>2, <1>3 DEF Kept
<1>5. set_flags(Transport("Tcp", b), flags) = Transport("Tcp", u) /\ Kept(u, b)
  BY <1>4, SetFlags
<1> HIDE DEF u
<1>6. Kept(u, t)
  BY <1>1, <1>2, <1>3, <1>4, <1>5 DEF Kept
<1>7. update_headers(Parts("Tcp", r, t, old), seq, ack, flags) = Parts("Tcp", r, u, old)
  BY <1>1, <1>3, <1>5 DEF update_headers, Parts
<1>8. Updated(u, r, t, old, seq, ack, flags)
  BY ONLY <1>6, <1>7 DEF Updated
<1> QED BY ONLY <1>8

\* set_payload_length() and udp_update_checksum(): the words 4 and 6 of a UDP header.
LEMMA UdpWords ==
  ASSUME NEW t \in Seq(Byte), Len(t) = 8, NEW n \in Nat, 8 + n <= 65535
  PROVE  \E u : /\ udp_update_checksum(set_payload_length(Transport("Udp", t), n)) = Transport("Udp", u)
                /\ Kept(u, t) /\ read_u16(u, 6) = 0 /\ read_u16(u, 4) = 8 + n
<1> DEFINE i == 4
           j == 6
           v == 8 + n
           z == 0
           s == write_u16(t, i, v)
           u == write_u16(s, j, z)
<1>1. /\ i \in {4, 6, 16} /\ i \in Nat /\ i + 2 <= Len(t) /\ j \in {4, 6, 16} /\ j \in Nat /\ j + 2 <= Len(t)
      /\ i + 2 <= j
  OBVIOUS
<1>2. v \in u16 /\ z \in u16
  BY WordIs
<1>3. set_payload_length(Transport("Udp", t), n) = [Transport("Udp", t) EXCEPT !.raw = write_u16(@, i, v)]
  <2>1. Transport("Udp", t).data.protocol = "Udp"
    BY ProtocolOf
  <2> QED BY <2>1 DEF set_payload_length, UDP_HEADER_LENGTH
<1>4. \A h : udp_update_checksum(h) = [h EXCEPT !.raw = write_u16(@, j, z)]
  BY DEF udp_update_checksum
<1> HIDE DEF i, j, v, z
<1>5. [Transport("Udp", t) EXCEPT !.raw = write_u16(@, i, v)] = Transport("Udp", s) /\ Kept(s, t)
  <2> DEFINE q == "Udp"
  <2>1. t \in Seq(Byte) /\ i \in {4, 6, 16} /\ i + 2 <= Len(t) /\ v \in u16 /\ q # "Tcp"
    BY <1>1, <1>2
  <2> HIDE DEF q
  <2>2. [Transport(q, t) EXCEPT !.raw = write_u16(@, i, v)] = Transport(q, write_u16(t, i, v))
        /\ Kept(write_u16(t, i, v), t)
    BY ONLY <2>1, Unparsed
  <2> QED BY <2>2 DEF q
<1>6. Written(s, t, i, v)
  <2>1. t \in Seq(Byte) /\ i \in Nat /\ i + 2 <= Len(t) /\ v \in u16
    BY <1>1, <1>2
  <2> QED BY ONLY <2>1, WriteWord DEF s
<1> HIDE DEF s
<1>7. s \in Seq(Byte) /\ Len(s) = Len(t) /\ read_u16(s, i) = v
  BY <1>6 DEF Written
<1>8. [Transport("Udp", s) EXCEPT !.raw = write_u16(@, j, z)] = Transport("Udp", u) /\ Kept(u, s)
  <2> DEFINE q == "Udp"
  <2>1. s \in Seq(Byte) /\ j \in {4, 6, 16} /\ j + 2 <= Len(s) /\ z \in u16 /\ q # "Tcp"
    BY <1>1, <1>2, <1>7
  <2> HIDE DEF q
  <2>2. [Transport(q, s) EXCEPT !.raw = write_u16(@, j, z)] = Transport(q, write_u16(s, j, z))
        /\ Kept(write_u16(s, j, z), s)
    BY ONLY <2>1, Unparsed
  <2> QED BY <2>2 DEF q
<1>9. Written(u, s, j, z)
  <2>1. s \in Seq(Byte) /\ j \in Nat /\ j + 2 <= Len(s) /\ z \in u16
    BY <1>1, <1>2, <1>7
  <2> QED BY ONLY <2>1, WriteWord DEF u
<1> HIDE DEF u
<1>10. read_u16(u, j) = z /\ read_u16(u, i) = v
  <2>1. read_u16(u, j) = z
    BY <1>9 DEF Written
  <2>2. s \in Seq(Byte) /\ j \in Nat /\ j + 2 <= Len(s) /\ i \in Nat /\ i + 2 <= Len(s) /\ i + 2 <= j
    BY <1>1, <1>7
  <2>3. read_u16(u, i) = read_u16(s, i)
    BY ONLY <1>9, <2>2, WrittenElse
  <2> QED BY <1>7, <2>1, <2>3
<1>11. Kept(u, t)
  <2>1. Len(t) < 20 /\ Len(s) = Len(t)
    BY <1>7
  <2> QED BY <1>5, <1>8, <2>1 DEF Kept
<1>12. udp_update_checksum(set_payload_length(Transport("Udp", t), n)) = Transport("Udp", u)
  BY <1>3, <1>4, <1>5, <1>8
<1> QED BY <1>10, <1>11, <1>12 DEF i, j, v, z

LEMMA SamePseudo ==
  ASSUME NEW r, NEW s, NEW n, \A k \in {13, 14, 15, 16, 17, 18, 19, 20} : s[k] = r[k]
  PROVE  PseudoSum(s, n) = PseudoSum(r, n)
<1>1. /\ s[13] = r[13] /\ s[14] = r[14] /\ s[15] = r[15] /\ s[16] = r[16]
      /\ s[17] = r[17] /\ s[18] = r[18] /\ s[19] = r[19] /\ s[20] = r[20]
  OBVIOUS
<1>2. /\ read_u16(s, 12) = read_u16(r, 12) /\ read_u16(s, 14) = read_u16(r, 14)
      /\ read_u16(s, 16) = read_u16(r, 16) /\ read_u16(s, 18) = read_u16(r, 18)
  BY ONLY <1>1 DEF read_u16
<1> QED BY ONLY <1>2 DEF PseudoSum

\* A packet whose headers mirror ref, with its lengths and its checksums.
AnswerParts(ref, q, p, raw, r, t, payload) ==
  /\ MirrorsNetwork(ref, r) /\ MirrorsTransport(q, Behind(ref), t) /\ BuiltFrom(q, r, t, payload)
  /\ p = Parts(q, r, t, payload) /\ raw = (r \o t) \o payload
Answering(ref, q, p, raw) ==
  \E r, t, payload \in Seq(Byte) : AnswerParts(ref, q, p, raw, r, t, payload)

NetworkParts(ref, r, v, a, s) ==
  /\ set_total_length(Network(r), v) = Network(a) /\ MirrorsNetwork(ref, a)
  /\ Len(a) = Len(r) /\ read_u16(a, 2) = v
  /\ ipv4_update_checksum(Network(a)) = Network(s) /\ MirrorsNetwork(ref, s)
  /\ Len(s) = Len(r) /\ read_u16(s, 2) = v /\ OnesSum(s) % 65535 = 0
  /\ \A n : PseudoSum(s, n) = PseudoSum(a, n)

\* set_total_length(), then the checksum of the IPv4 header.
LEMMA NetworkBuilt ==
  ASSUME NEW ref, Referred(ref), NEW r, MirrorsNetwork(ref, r), NEW v \in u16
  PROVE  \E a, s \in Seq(Byte) : NetworkParts(ref, r, v, a, s)
<1> DEFINE i == 2
           a == write_u16(r, i, v)
<1>1. r \in Seq(Byte) /\ 20 <= Len(r) /\ Len(r) \in Nat /\ Len(r) >= 20
  BY MirroredNetwork, BytesOf
<1>2. set_total_length(Network(r), v) = Network(a)
  BY <1>1, SetTotalLength
<1>3. i \in Nat /\ i + 2 <= Len(r) /\ i + 1 = 3 /\ i + 2 = 4 /\ i = 2
  BY <1>1
<1> HIDE DEF i
<1>4. Written(a, r, i, v)
  BY <1>1, <1>3, WriteWord
<1> HIDE DEF a
<1>5. a \in Seq(Byte) /\ Len(a) = Len(r) /\ read_u16(a, 2) = v
  BY <1>3, <1>4 DEF Written
<1>6. \A j \in 1 .. Len(r) : j \notin {3, 4} => a[j] = r[j]
  BY <1>1, <1>3, <1>4, WrittenElse
<1>7. MirrorsNetwork(ref, a)
  <2>1. \A j \in 1 .. Len(r) : j \notin {3, 4, 11, 12} => a[j] = r[j]
    BY <1>6
  <2> QED BY <1>1, <1>5, <2>1, NetworkKept
<1>8. 20 <= Len(a) /\ Len(a) % 2 = 0 /\ Ipv4HeaderData(a).header_length = Len(a)
  BY <1>7, MirroredNetwork
<1>9. PICK s \in Seq(Byte) :
         /\ ipv4_update_checksum(Network(a)) = Network(s)
         /\ Len(s) = Len(a) /\ OnesSum(s) % 65535 = 0
         /\ \A j \in 1 .. Len(a) : j \notin {11, 12} => s[j] = a[j]
  BY <1>5, <1>8, Ipv4Sum
<1>10. MirrorsNetwork(ref, s)
  <2>1. \A j \in 1 .. Len(a) : j \notin {3, 4, 11, 12} => s[j] = a[j]
    BY <1>9
  <2> QED BY <1>7, <1>8, <1>9, <2>1, NetworkKept
<1>11. \A j \in {3, 4, 13, 14, 15, 16, 17, 18, 19, 20} : s[j] = a[j]
  <2>1. \A j \in {3, 4, 13, 14, 15, 16, 17, 18, 19, 20} : j \in 1 .. Len(a) /\ j \notin {11, 12}
    BY <1>1, <1>5
  <2> QED BY <1>9, <2>1
<1>12. read_u16(s, 2) = read_u16(a, 2)
  <2>1. s[3] = a[3] /\ s[4] = a[4]
    BY <1>11
  <2> QED BY ONLY <2>1 DEF read_u16
<1>13. \A n : PseudoSum(s, n) = PseudoSum(a, n)
  <2>1. \A k \in {13, 14, 15, 16, 17, 18, 19, 20} : s[k] = a[k]
    BY <1>11
  <2> QED BY ONLY <2>1, SamePseudo
<1>14. NetworkParts(ref, r, v, a, s)
  BY ONLY <1>2, <1>5, <1>7, <1>9, <1>10, <1>12, <1>13 DEF NetworkParts
<1> QED BY <1>5, <1>14

\* build(): the lengths, then the checksums.
LEMMA BuildAnswers ==
  ASSUME NEW ref, Referred(ref), NEW q, q = Ipv4HeaderData(ref).protocol,
         NEW r, MirrorsNetwork(ref, r), NEW t, MirrorsTransport(q, Behind(ref), t), NEW old,
         NEW payload \in Seq(Byte), Answerable(ref, payload)
  PROVE  Answering(ref, q, build(Parts(q, r, t, old), payload),
                   raw_of(build(Parts(q, r, t, old), payload)))
<1> DEFINE n == Len(payload)
           v == Len(r) + Len(t) + n
           p == Parts(q, r, t, old)
<1>1. q \in {"Tcp", "Udp"}
  BY ReferenceIs
<1>2. /\ r \in Seq(Byte) /\ 20 <= Len(r) /\ Len(r) = Ipv4HeaderData(ref).header_length /\ Len(r) \in Nat
      /\ t \in Seq(Byte) /\ Len(t) = AnswerHeader(q) /\ Len(t) \in Nat /\ n \in Nat
  BY MirroredNetwork, BytesOf DEF MirrorsNetwork, MirrorsTransport
<1>3. v \in Nat /\ v <= 65535 /\ (Len(r) + Len(t) + n) % 65536 = v
  <2>1. v <= 65535
    <3>1. Ipv4HeaderData(ref).header_length + AnswerHeader(q) + Len(payload) <= 65535
      BY DEF Answerable
    <3> QED BY ONLY <1>2, <3>1
  <2>2. v \in Nat
    BY ONLY <1>2
  <2> HIDE DEF v
  <2>3. v % 65536 = v
    BY ONLY <2>1, <2>2
  <2> QED BY <2>1, <2>2, <2>3 DEF v
<1>4. v \in u16
  BY <1>3, WordIs
<1>5. PICK a \in Seq(Byte), s \in Seq(Byte) : NetworkParts(ref, r, v, a, s)
  <2> HIDE DEF v
  <2>1. Referred(ref) /\ MirrorsNetwork(ref, r) /\ v \in u16
    BY <1>4
  <2> QED BY ONLY <2>1, NetworkBuilt
<1>6. /\ set_total_length(Network(r), v) = Network(a) /\ MirrorsNetwork(ref, a)
           /\ Len(a) = Len(r) /\ read_u16(a, 2) = v
           /\ ipv4_update_checksum(Network(a)) = Network(s) /\ MirrorsNetwork(ref, s)
           /\ Len(s) = Len(r) /\ read_u16(s, 2) = v /\ OnesSum(s) % 65535 = 0
           /\ \A k : PseudoSum(s, k) = PseudoSum(a, k)
  BY <1>5 DEF NetworkParts
<1>7. build(p, payload) =
        compute_checksums([ipv4_header |-> Network(a),
                           transport_header |-> set_payload_length(Transport(q, t), n),
                           payload |-> payload])
  BY <1>3, <1>6 DEF build, total_length, Parts, Network, Transport
<1>8. ASSUME NEW u, MirrorsTransport(q, Behind(ref), u), build(p, payload) = Parts(q, s, u, payload),
             IF q = "Tcp" THEN (PseudoSum(s, Len(u) + n) + OnesSum(u \o payload)) % 65535 = 0
             ELSE read_u16(u, 6) = 0 /\ read_u16(u, 4) = 8 + n
      PROVE  Answering(ref, q, build(p, payload), raw_of(build(p, payload)))
  <2>1. u \in Seq(Byte) /\ Len(u) = Len(t)
    BY <1>2, <1>8 DEF MirrorsTransport
  <2>2. BuiltFrom(q, s, u, payload)
    BY <1>6, <1>8, <2>1 DEF BuiltFrom
  <2>3. raw_of(build(p, payload)) = (s \o u) \o payload
    <3>1. raw_of(Parts(q, s, u, payload)) = (s \o u) \o payload
      BY ONLY TRUE DEF raw_of, Parts, Network, Transport
    <3> QED BY ONLY <1>8, <3>1
  <2> HIDE DEF p
  <2>4. payload \in Seq(Byte) /\ s \in Seq(Byte) /\ MirrorsNetwork(ref, s)
    BY <1>6
  <2>5. AnswerParts(ref, q, build(p, payload), raw_of(build(p, payload)), s, u, payload)
    BY ONLY <1>8, <2>2, <2>3, <2>4 DEF AnswerParts
  <2> QED BY ONLY <2>1, <2>4, <2>5 DEF Answering
<1>9. CASE q = "Tcp"
  <2>1. set_payload_length(Transport(q, t), n) = Transport(q, t) /\ Transport(q, t).data.protocol = "Tcp"
    BY <1>1, <1>9, ProtocolOf DEF set_payload_length
  <2>2. /\ a \in Seq(Byte) /\ 20 <= Len(a) /\ Ipv4HeaderData(a).header_length = Len(a)
        /\ 18 <= Len(t) /\ Len(t) % 2 = 0 /\ read_u16(a, 2) = Len(a) + Len(t) + Len(payload)
    BY <1>2, <1>6, <1>9, MirroredNetwork DEF AnswerHeader
  <2>3. PICK u \in Seq(Byte) :
           /\ tcp_update_checksum(Transport("Tcp", t), Ipv4HeaderData(a), payload) = Transport("Tcp", u)
           /\ Kept(u, t)
           /\ (PseudoSum(a, Len(t) + Len(payload)) + OnesSum(u \o payload)) % 65535 = 0
    <3>1. t \in Seq(Byte) /\ payload \in Seq(Byte)
      BY <1>2
    <3> QED BY ONLY <2>2, <3>1, TcpChecksum
  <2>4. build(p, payload) = Parts(q, s, u, payload)
    <3>1. /\ Network(a).data = Ipv4HeaderData(a)
          /\ ipv4_update_checksum(Network(a)) = Network(s)
      BY <1>6 DEF Network
    <3>2. compute_checksums([ipv4_header |-> Network(a), transport_header |-> Transport(q, t),
                             payload |-> payload])
            = [ipv4_header |-> Network(s), transport_header |-> Transport(q, u), payload |-> payload]
      BY <1>9, <2>1, <2>3, <3>1 DEF compute_checksums
    <3> QED BY <1>7, <2>1, <3>2 DEF Parts
  <2>5. MirrorsTransport(q, Behind(ref), u)
    BY <1>1, <2>3, TransportKept
  <2>6. (PseudoSum(s, Len(u) + n) + OnesSum(u \o payload)) % 65535 = 0
    <3>1. Len(u) = Len(t) /\ PseudoSum(s, Len(t) + Len(payload)) = PseudoSum(a, Len(t) + Len(payload))
      BY <1>6, <2>3 DEF Kept
    <3> QED BY <2>3, <3>1
  <2> QED BY <1>8, <1>9, <2>4, <2>5, <2>6
<1>10. CASE q = "Udp"
  <2>1. Len(t) = 8 /\ 8 + n <= 65535
    BY <1>2, <1>3, <1>10 DEF AnswerHeader, UDP_HEADER_LENGTH
  <2>2. PICK u : /\ udp_update_checksum(set_payload_length(Transport("Udp", t), n)) = Transport("Udp", u)
                 /\ Kept(u, t) /\ read_u16(u, 6) = 0 /\ read_u16(u, 4) = 8 + n
    BY <1>2, <2>1, UdpWords
  <2>3. set_payload_length(Transport(q, t), n).data.protocol = "Udp"
    <3>1. Transport(q, t).data.protocol = "Udp"
      BY <1>1, <1>10, ProtocolOf
    <3> QED BY <3>1 DEF set_payload_length, Transport
  <2>4. build(p, payload) = Parts(q, s, u, payload)
    <3>1. compute_checksums([ipv4_header |-> Network(a),
                             transport_header |-> set_payload_length(Transport(q, t), n),
                             payload |-> payload])
            = [ipv4_header |-> Network(s), transport_header |-> Transport(q, u), payload |-> payload]
      BY <1>6, <1>10, <2>2, <2>3 DEF compute_checksums
    <3> QED BY <1>7, <3>1 DEF Parts
  <2>5. MirrorsTransport(q, Behind(ref), u)
    BY <1>1, <2>2, TransportKept
  <2> QED BY <1>8, <1>10, <2>2, <2>4, <2>5
<1> QED BY <1>1, <1>9, <1>10

-----------------------------------------------------------------------------
\* The packetizer holds the mirrored headers of the reference, and the last packet it built.
Heads ==
  IF reference = << >> THEN out = << >>
  ELSE /\ Referred(reference)
       /\ \/ /\ out = << >>
             /\ Mirrored(reference, Ipv4HeaderData(reference).protocol, packetizer, << >>)
          \/ Answering(reference, Ipv4HeaderData(reference).protocol, packetizer, out)

\* A delivered packet is one of the device.
LEMMA DeliveredIs ==
  ASSUME Delivery, NEW raw \in Range(delivered), is_valid(raw)
  PROVE  Referred(raw) /\ raw # << >>
<1>1. PICK left \in Seq(Seq(Byte)) : sent = delivered \o left
  BY DEF Delivery, Framed
<1>2. PICK i \in 1 .. Len(delivered) : raw = delivered[i]
  <2>1. delivered \in Seq(Seq(Byte))
    BY DEF Delivery
  <2>2. DOMAIN delivered = 1 .. Len(delivered)
    BY <2>1
  <2> QED BY <2>2 DEF Range
<1>3. sent[i] = delivered[i] /\ i \in 1 .. Len(sent)
  <2>1. delivered \in Seq(Seq(Byte)) /\ Len(delivered) \in Nat /\ Len(left) \in Nat
    BY DEF Delivery
  <2>2. Len(sent) = Len(delivered) + Len(left)
    BY <1>1, <2>1
  <2>3. i \in 1 .. Len(delivered) + Len(left) /\ i <= Len(delivered)
    BY <2>1
  <2>4. (delivered \o left)[i] = delivered[i]
    BY <2>1, <2>3, ConcatProperties
  <2> QED BY <1>1, <2>2, <2>3, <2>4
<1>4. raw \in Seq(Byte) /\ WellFormed(raw) /\ \A payload \in Payloads : Answerable(raw, payload)
  BY <1>2, <1>3, SentIs DEF Delivery
<1>5. raw # << >>
  BY <1>4 DEF WellFormed
<1> QED BY <1>4, <1>5 DEF Referred

LEMMA CreateHeads ==
  ASSUME Delivery, Heads, NEW raw \in Range(delivered), create(raw)
  PROVE  Heads'
<1>1. is_valid(raw) /\ reference = << >> /\ reference' = raw /\ out' = out
  BY DEF create
<1>2. packetizer' = Created(raw)
  BY DEF create, Created
<1>3. out' = << >>
  BY <1>1 DEF Heads
<1>4. Referred(raw) /\ raw # << >>
  BY <1>1, DeliveredIs
<1>5. Mirrored(raw, Ipv4HeaderData(raw).protocol, Created(raw), << >>)
  BY <1>4, CreateMirrors
<1> QED BY <1>1, <1>2, <1>3, <1>4, <1>5 DEF Heads

LEMMA HeadsMirror ==
  ASSUME Heads, reference # << >>
  PROVE  /\ Referred(reference)
         /\ \E r, t, old : /\ MirrorsNetwork(reference, r)
                           /\ MirrorsTransport(Ipv4HeaderData(reference).protocol, Behind(reference), t)
                           /\ packetizer = Parts(Ipv4HeaderData(reference).protocol, r, t, old)
<1> DEFINE q == Ipv4HeaderData(reference).protocol
<1>1. Referred(reference)
  BY DEF Heads
<1> HIDE DEF q
<1>2. Mirrored(reference, q, packetizer, << >>) \/ Answering(reference, q, packetizer, out)
  BY DEF Heads, q
<1>3. CASE Mirrored(reference, q, packetizer, << >>)
  BY <1>1, <1>3 DEF Mirrored, q
<1>4. CASE Answering(reference, q, packetizer, out)
  <2>1. PICK r, t, payload \in Seq(Byte) : AnswerParts(reference, q, packetizer, out, r, t, payload)
    BY <1>4 DEF Answering
  <2> QED BY <1>1, <2>1 DEF AnswerParts, q
<1> QED BY <1>2, <1>3, <1>4

\* The protocol that the answers of a packetizer test.
LEMMA ProtocolIs ==
  ASSUME NEW q \in {"Tcp", "Udp"}, NEW r, NEW t, NEW old, packetizer = Parts(q, r, t, old)
  PROVE  (IsTcp => q = "Tcp") /\ (IsUdp => q = "Udp")
<1>1. packetizer.transport_header.data.protocol = q
  BY ProtocolOf DEF Parts
<1> QED BY <1>1 DEF IsTcp, IsUdp

LEMMA BuiltHeads ==
  ASSUME reference # << >>, Referred(reference), NEW r, MirrorsNetwork(reference, r),
         NEW t, MirrorsTransport(Ipv4HeaderData(reference).protocol, Behind(reference), t), NEW old,
         NEW payload \in Seq(Byte), Answerable(reference, payload),
         Built(Parts(Ipv4HeaderData(reference).protocol, r, t, old), payload)
  PROVE  Heads'
<1> DEFINE q == Ipv4HeaderData(reference).protocol
           p == build(Parts(q, r, t, old), payload)
<1>1. Answering(reference, q, p, raw_of(p))
  BY BuildAnswers
<1>2. packetizer' = p /\ out' = raw_of(packetizer') /\ reference' = reference
  BY DEF Built
<1> HIDE DEF p
<1> QED BY <1>1, <1>2 DEF Heads

LEMMA EmptyPayload ==
  ASSUME NEW ref, Referred(ref)
  PROVE  << >> \in Seq(Byte) /\ Answerable(ref, << >>)
<1>1. Ipv4HeaderData(ref).header_length <= 60 /\ Ipv4HeaderData(ref).protocol \in {"Tcp", "Udp"}
      /\ Ipv4HeaderData(ref).header_length \in Nat
  BY ReferenceIs
<1>2. AnswerHeader(Ipv4HeaderData(ref).protocol) \in {8, 20}
  BY <1>1 DEF AnswerHeader, UDP_HEADER_LENGTH
<1>3. Len(<< >>) = 0 /\ << >> \in Seq(Byte)
  OBVIOUS
<1> QED BY ONLY <1>1, <1>2, <1>3 DEF Answerable

LEMMA TcpHeads ==
  ASSUME Heads, IsTcp, NEW payload \in Seq(Byte), Answerable(reference, payload),
         NEW seq \in Numbers, NEW ack \in Numbers, NEW flags \in Flags,
         Built(update_headers(packetizer, seq, ack, flags), payload)
  PROVE  Heads'
<1> DEFINE q == Ipv4HeaderData(reference).protocol
<1>1. reference # << >> /\ Referred(reference)
  BY HeadsMirror DEF IsTcp
<1>2. PICK r, t, old : /\ MirrorsNetwork(reference, r) /\ MirrorsTransport(q, Behind(reference), t)
                       /\ packetizer = Parts(q, r, t, old)
  BY <1>1, HeadsMirror
<1>3. q \in {"Tcp", "Udp"}
  BY <1>1, ReferenceIs
<1> HIDE DEF q
<1>4. q = "Tcp"
  BY <1>2, <1>3, ProtocolIs
<1>5. t \in Seq(Byte) /\ 20 <= Len(t)
  BY <1>2, <1>4 DEF MirrorsTransport, AnswerHeader
<1>6. seq \in u16 \X u16 /\ ack \in u16 \X u16 /\ flags \in FlagBits
  BY PathAssumption DEF FlagBits
<1>7. PICK u : Updated(u, r, t, old, seq, ack, flags)
  BY ONLY <1>5, <1>6, UpdateMirrors
<1>8. MirrorsTransport(q, Behind(reference), u)
  BY <1>2, <1>3, <1>7, TransportKept DEF Updated
<1>9. Built(Parts(q, r, u, old), payload)
  BY <1>2, <1>4, <1>7 DEF Updated
<1> QED BY <1>1, <1>2, <1>8, <1>9, BuiltHeads DEF q

LEMMA UdpHeads ==
  ASSUME Heads, IsUdp, NEW payload \in Seq(Byte), Answerable(reference, payload),
         Built(packetizer, payload)
  PROVE  Heads'
<1> DEFINE q == Ipv4HeaderData(reference).protocol
<1>1. reference # << >> /\ Referred(reference)
  BY HeadsMirror DEF IsUdp
<1>2. PICK r, t, old : /\ MirrorsNetwork(reference, r) /\ MirrorsTransport(q, Behind(reference), t)
                       /\ packetizer = Parts(q, r, t, old)
  BY <1>1, HeadsMirror
<1>3. Built(Parts(q, r, t, old), payload)
  BY <1>2
<1> QED BY <1>1, <1>2, <1>3, BuiltHeads

LEMMA AnswerHeads ==
  ASSUME Heads, Answer
  PROVE  Heads'
<1>1. reference # << >> => Referred(reference)
  BY HeadsMirror
<1>2. ASSUME reference # << >>, NEW payload \in Payloads
      PROVE  payload \in Seq(Byte) /\ Answerable(reference, payload)
  BY <1>1, <1>2, PathAssumption DEF Referred
<1>3. ASSUME NEW payload \in Payloads, NEW seq \in Numbers, NEW ack \in Numbers, NEW flags \in Flags,
             packetize_read(payload, seq, ack, flags)
      PROVE  Heads'
  <2>1. IsTcp /\ reference # << >> /\ Built(update_headers(packetizer, seq, ack, flags), payload)
    BY <1>3 DEF packetize_read, IsTcp
  <2>2. payload \in Seq(Byte) /\ Answerable(reference, payload)
    BY <1>2, <2>1
  <2> QED BY <2>1, <2>2, TcpHeads
<1>4. ASSUME NEW seq \in Numbers, NEW ack \in Numbers, NEW flags \in Flags,
             packetize_empty_payload(seq, ack, flags)
      PROVE  Heads'
  <2>1. IsTcp /\ reference # << >> /\ Built(update_headers(packetizer, seq, ack, flags), << >>)
    BY <1>4 DEF packetize_empty_payload, IsTcp
  <2>2. << >> \in Seq(Byte) /\ Answerable(reference, << >>)
    BY <1>1, <2>1, EmptyPayload
  <2> QED BY <2>1, <2>2, TcpHeads
<1>5. ASSUME NEW payload \in Payloads, packetize(payload)
      PROVE  Heads'
  <2>1. IsUdp /\ reference # << >> /\ Built(packetizer, payload)
    BY <1>5 DEF packetize, IsUdp
  <2>2. payload \in Seq(Byte) /\ Answerable(reference, payload)
    BY <1>2, <2>1
  <2> QED BY <2>1, <2>2, UdpHeads
<1> QED BY <1>3, <1>4, <1>5 DEF Answer

\* The inductive invariant: what was delivered, and the headers made of it.
PathInv == Delivery /\ Heads /\ closed \in BOOLEAN

LEMMA InitPath == Init => PathInv
  BY InitDelivery DEF PathInv, Heads, Init

LEMMA StepPath == PathInv /\ [Next]_vars => PathInv'
<1> SUFFICES ASSUME Delivery, Heads, closed \in BOOLEAN, [Next]_vars
             PROVE  Delivery' /\ Heads' /\ closed' \in BOOLEAN
  BY DEF PathInv
<1>1. Delivery'
  BY StepDelivery
<1>2. CASE Receive
  <2>1. UNCHANGED <<reference, packetizer, out>> /\ closed' \in BOOLEAN
    BY <1>2 DEF Receive, process_receive
  <2> QED BY <1>1, <2>1 DEF Heads
<1>3. CASE Create
  <2>1. closed' = closed
    BY <1>3 DEF Create, create
  <2>2. Heads'
    BY <1>3, CreateHeads DEF Create
  <2> QED BY <1>1, <2>1, <2>2
<1>4. CASE Answer
  <2>1. closed' = closed
    BY <1>4 DEF Answer, packetize_read, packetize_empty_payload, packetize, Built
  <2>2. Heads'
    BY <1>4, AnswerHeads
  <2> QED BY <1>1, <2>1, <2>2
<1>5. CASE UNCHANGED vars
  BY <1>1, <1>5 DEF vars, Heads
<1> QED BY <1>2, <1>3, <1>4, <1>5 DEF Next

\* The last packet built, in its parts.
LEMMA LastBuilt ==
  ASSUME Heads, out # << >>
  PROVE  /\ reference # << >> /\ Referred(reference)
         /\ \E r, t, payload \in Seq(Byte) :
              AnswerParts(reference, Ipv4HeaderData(reference).protocol, packetizer, out, r, t, payload)
<1>1. reference # << >> /\ Referred(reference)
      /\ Answering(reference, Ipv4HeaderData(reference).protocol, packetizer, out)
  BY DEF Heads
<1> QED BY <1>1 DEF Answering

LEMMA LastParsed ==
  ASSUME NEW ref, Referred(ref), NEW q, q = Ipv4HeaderData(ref).protocol, NEW p, NEW raw,
         NEW r, NEW t, NEW payload \in Seq(Byte), AnswerParts(ref, q, p, raw, r, t, payload)
  PROVE  /\ Again(raw, q, r, t, payload, t \o payload) /\ q \in {"Tcp", "Udp"} /\ p = Parts(q, r, t, payload)
         /\ Consistent(q, r, t, payload) /\ BuiltFrom(q, r, t, payload)
<1>1. /\ MirrorsNetwork(ref, r) /\ MirrorsTransport(q, Behind(ref), t) /\ BuiltFrom(q, r, t, payload)
      /\ p = Parts(q, r, t, payload) /\ raw = (r \o t) \o payload
  BY DEF AnswerParts
<1>2. q \in {"Tcp", "Udp"}
  BY ReferenceIs
<1>3. /\ r \in Seq(Byte) /\ 20 <= Len(r) /\ Ipv4HeaderData(r).header_length = Len(r)
      /\ Ipv4HeaderData(r).protocol = q
  BY <1>1, MirroredNetwork
<1>4. /\ t \in Seq(Byte) /\ Len(t) = AnswerHeader(q) /\ (q = "Tcp" => read_u16(t, 12) \div 4096 = 5)
  BY <1>1 DEF MirrorsTransport
<1>5. read_u16(r, 2) = Len(r) + Len(t) + Len(payload)
  BY <1>1 DEF BuiltFrom
<1>6. Consistent(q, r, t, payload)
  BY <1>2, <1>3, <1>4, <1>5 DEF Consistent
<1>7. Again((r \o t) \o payload, q, r, t, payload, t \o payload)
  BY <1>6, ParsedAgain
<1> QED BY <1>1, <1>2, <1>6, <1>7

LEMMA PathTypeOK == PathInv => TypeOK
<1> SUFFICES ASSUME Delivery, Heads, closed \in BOOLEAN PROVE TypeOK
  BY DEF PathInv
<1>1. Len(buf) <= MAX_PACKET_LENGTH
  BY RoomForMore
<1>2. out \in Seq(Byte)
  <2>1. CASE out = << >>
    BY <2>1
  <2>2. CASE out # << >>
    <3>1. PICK r, t, payload \in Seq(Byte) :
             AnswerParts(reference, Ipv4HeaderData(reference).protocol, packetizer, out, r, t, payload)
      BY <2>2, LastBuilt
    <3>2. out = (r \o t) \o payload
      BY <3>1 DEF AnswerParts
    <3>3. r \o t \in Seq(Byte)
      BY ConcatFirst
    <3> QED BY <3>2, <3>3, ConcatFirst
  <2> QED BY <2>1, <2>2
<1> QED BY <1>1, <1>2 DEF TypeOK, Delivery

LEMMA HeadsMatch == Heads => DataMatchesRaw
<1> SUFFICES ASSUME Heads, reference # << >>
             PROVE  /\ packetizer.ipv4_header.data = Ipv4HeaderData(packetizer.ipv4_header.raw)
                    /\ packetizer.transport_header.data =
                         TransportHeaderData(packetizer.transport_header.data.protocol,
                                             packetizer.transport_header.raw)
  BY DEF DataMatchesRaw
<1> DEFINE q == Ipv4HeaderData(reference).protocol
<1>1. Referred(reference)
  BY HeadsMirror
<1>2. PICK r, t, old : packetizer = Parts(q, r, t, old)
  BY HeadsMirror
<1>3. q \in {"Tcp", "Udp"}
  BY <1>1, ReferenceIs
<1> HIDE DEF q
<1>4. packetizer.ipv4_header = Network(r) /\ packetizer.transport_header = Transport(q, t)
  BY <1>2 DEF Parts
<1>5. Transport(q, t).data.protocol = q /\ Transport(q, t).data = TransportHeaderData(q, t)
      /\ Transport(q, t).raw = t
  BY <1>3, ProtocolOf
<1> QED BY <1>4, <1>5 DEF Network

\* What a receiver verifies.
LEMMA PacketVerifies ==
  ASSUME NEW raw, NEW q, NEW r, NEW t, NEW payload, Consistent(q, r, t, payload),
         Again(raw, q, r, t, payload, t \o payload), BuiltFrom(q, r, t, payload)
  PROVE  LET ip == Ipv4HeaderData(raw).header_length
             rest == bytes(raw, ip, Len(raw))
         IN /\ OnesSum(bytes(raw, 0, ip)) % 65535 = 0
            /\ IF raw[10] = 6
               THEN (OnesSum(PseudoHeader(raw, Len(rest))) + OnesSum(rest)) % 65535 = 0
               ELSE read_u16(rest, 6) = 0
<1> DEFINE tail == t \o payload
           n == Len(t) + Len(payload)
<1>0. /\ q \in {"Tcp", "Udp"} /\ r \in Seq(Byte) /\ t \in Seq(Byte) /\ payload \in Seq(Byte)
      /\ 20 <= Len(r) /\ Ipv4HeaderData(r).header_length = Len(r) /\ Ipv4HeaderData(r).protocol = q
      /\ Len(t) = AnswerHeader(q)
  BY DEF Consistent
<1> USE <1>0
<1>1. /\ raw \in Seq(Byte) /\ Len(raw) = Len(r) + n /\ Len(tail) = n
      /\ Ipv4HeaderData(raw) = Ipv4HeaderData(r)
      /\ bytes(raw, 0, Len(r)) = r /\ bytes(raw, Len(r), Len(raw)) = tail
  BY DEF Again
<1>2. /\ \A i \in 1 .. 20 : raw[i] = r[i]
      /\ \A j \in Nat : j + 2 <= Len(t) => read_u16(tail, j) = read_u16(t, j)
  BY DEF Again
<1>3. Len(r) \in Nat /\ Len(t) \in Nat /\ Len(payload) \in Nat /\ n \in Nat
  BY BytesOf
<1>4. Ipv4HeaderData(raw).header_length = Len(r) /\ Protocol(raw[10]) = q
  <2>1. Protocol(raw[10]) = Ipv4HeaderData(raw).protocol
    BY DEF Ipv4HeaderData
  <2> QED BY <1>1, <2>1
<1>5. OnesSum(r) % 65535 = 0
  BY DEF BuiltFrom
<1> HIDE DEF tail, n
<1>6. CASE q = "Tcp"
  <2>1. raw[10] = 6
    BY ONLY <1>4, <1>6 DEF Protocol
  <2>2. n \in u16
    <3>1. read_u16(r, 2) = Len(r) + Len(t) + Len(payload)
      BY DEF BuiltFrom
    <3>2. read_u16(r, 2) \in u16
      <4>1. 2 \in Nat /\ 2 + 2 <= Len(r)
        BY <1>3
      <4> QED BY <4>1, WordOf
    <3>3. n <= 65535
      BY <1>3, <3>1, <3>2, WordIs DEF n
    <3> QED BY <1>3, <3>3, WordIs
  <2>3. OnesSum(PseudoHeader(raw, n)) = PseudoSum(raw, n)
    <3>1. raw \in Seq(Byte) /\ 20 <= Len(raw)
      BY <1>1, <1>3
    <3> QED BY ONLY <2>1, <2>2, <3>1, PseudoHeaderSum
  <2>4. PseudoSum(raw, n) = PseudoSum(r, n)
    <3>1. \A k \in {13, 14, 15, 16, 17, 18, 19, 20} : k \in 1 .. 20
      OBVIOUS
    <3>2. \A k \in {13, 14, 15, 16, 17, 18, 19, 20} : raw[k] = r[k]
      BY ONLY <1>2, <3>1
    <3> QED BY ONLY <3>2, SamePseudo
  <2>5. (PseudoSum(r, n) + OnesSum(tail)) % 65535 = 0
    BY <1>6 DEF BuiltFrom, n, tail
  <2>6. (OnesSum(PseudoHeader(raw, Len(tail))) + OnesSum(tail)) % 65535 = 0
    BY ONLY <1>1, <2>3, <2>4, <2>5
  <2> QED BY ONLY <1>1, <1>4, <1>5, <2>1, <2>6
<1>7. CASE q = "Udp"
  <2>1. raw[10] # 6
    BY ONLY <1>4, <1>7 DEF Protocol
  <2>2. read_u16(t, 6) = 0
    BY <1>7 DEF BuiltFrom
  <2>3. 6 \in Nat /\ 6 + 2 <= Len(t)
    BY <1>7 DEF AnswerHeader, UDP_HEADER_LENGTH
  <2>4. read_u16(tail, 6) = 0
    BY ONLY <1>2, <2>2, <2>3
  <2> QED BY ONLY <1>1, <1>4, <1>5, <2>1, <2>4
<1> QED BY <1>6, <1>7

LEMMA HeadsVerify == Heads => ChecksumsVerify
<1> SUFFICES ASSUME Heads, out # << >>
             PROVE  LET ip == Ipv4HeaderData(out).header_length
                        rest == bytes(out, ip, Len(out))
                    IN /\ OnesSum(bytes(out, 0, ip)) % 65535 = 0
                       /\ IF out[10] = 6
                          THEN (OnesSum(PseudoHeader(out, Len(rest))) + OnesSum(rest)) % 65535 = 0
                          ELSE read_u16(rest, 6) = 0
  BY DEF ChecksumsVerify
<1> DEFINE q == Ipv4HeaderData(reference).protocol
<1>1. Referred(reference) /\ q = Ipv4HeaderData(reference).protocol
  BY LastBuilt
<1>2. PICK r, t, payload \in Seq(Byte) : AnswerParts(reference, q, packetizer, out, r, t, payload)
  BY LastBuilt
<1> HIDE DEF q
<1>3. /\ Again(out, q, r, t, payload, t \o payload)
      /\ Consistent(q, r, t, payload) /\ BuiltFrom(q, r, t, payload)
  BY <1>1, <1>2, LastParsed
<1> QED BY <1>3, PacketVerifies

\* The packet, parsed, and the one it answers.
LEMMA HeadsAnswer == Heads => AnswersTheReference
<1> SUFFICES ASSUME Heads, out # << >> PROVE AnswersTheReference
  BY DEF AnswersTheReference
<1> DEFINE q == Ipv4HeaderData(reference).protocol
           a == Ipv4Packet(out)
           b == Ipv4Packet(reference)
           rest == Behind(reference)
           m == TransportHeaderData(q, rest).header_length
           br == bytes(reference, 0, Ipv4HeaderData(reference).header_length)
           bt == bytes(rest, 0, m)
           bp == bytes(rest, m, Len(rest))
<1>1. reference # << >> /\ Referred(reference) /\ q = Ipv4HeaderData(reference).protocol
  BY LastBuilt
<1>2. PICK r, t, payload \in Seq(Byte) : AnswerParts(reference, q, packetizer, out, r, t, payload)
  BY LastBuilt
<1>3. /\ Again(out, q, r, t, payload, t \o payload) /\ q \in {"Tcp", "Udp"}
      /\ packetizer = Parts(q, r, t, payload) /\ BuiltFrom(q, r, t, payload)
      /\ Len(r) \in Nat /\ Len(t) \in Nat /\ Len(payload) \in Nat
  <2> HIDE DEF q, a, b, rest, m, br, bt, bp
  <2>1. Again(out, q, r, t, payload, t \o payload) /\ Consistent(q, r, t, payload)
    BY <1>1, <1>2, LastParsed
  <2>2. packetizer = Parts(q, r, t, payload) /\ BuiltFrom(q, r, t, payload)
    BY <1>2 DEF AnswerParts
  <2> QED BY <2>1, <2>2, BytesOf DEF Consistent
<1>4. b = Parts(q, br, bt, bp)
  BY <1>1, ReferenceParts
<1>5. /\ \A i \in 1 .. 20 : br[i] = reference[i]
      /\ read_u16(bt, 0) = read_u16(rest, 0) /\ read_u16(bt, 2) = read_u16(rest, 2)
  BY <1>1, ReferenceBytes
<1>6. /\ Ipv4HeaderData(r).source = Ipv4HeaderData(reference).destination
      /\ Ipv4HeaderData(r).destination = Ipv4HeaderData(reference).source
  BY <1>1, <1>2, MirroredNetwork DEF AnswerParts
<1>7. /\ read_u16(t, 0) = read_u16(rest, 2) /\ read_u16(t, 2) = read_u16(rest, 0)
      /\ q = "Tcp" => read_u16(t, 12) \div 4096 = 5
  BY <1>2 DEF AnswerParts, MirrorsTransport
<1> HIDE DEF q, a, b, rest, m, br, bt, bp
<1>8. a = Parts(q, r, t, payload) /\ Len(out) = Len(r) + (Len(t) + Len(payload))
  BY <1>3 DEF Again, a
<1>9. Ipv4HeaderData(br) = Ipv4HeaderData(reference)
  BY <1>5, NetworkOf
<1>10. /\ a.ipv4_header.data = Ipv4HeaderData(r) /\ b.ipv4_header.data = Ipv4HeaderData(reference)
       /\ a.transport_header.data = TransportHeaderData(q, t) /\ a.transport_header.raw = t
       /\ b.transport_header.data = TransportHeaderData(q, bt)
       /\ a.payload = payload /\ packetizer.payload = payload
       /\ packetizer.transport_header.data.protocol = q
  BY <1>3, <1>4, <1>8, <1>9, ProtocolOf DEF Parts, Network, Transport
<1>11. a.ipv4_header.data.total_length = Len(out)
  <2>1. Ipv4HeaderData(r).total_length = read_u16(r, 2)
    BY DEF Ipv4HeaderData
  <2>2. read_u16(r, 2) = Len(r) + Len(t) + Len(payload)
    BY <1>3 DEF BuiltFrom
  <2> QED BY <1>3, <1>8, <1>10, <2>1, <2>2
<1>12. \A s : /\ TransportHeaderData(q, s).source_port = read_u16(s, 0)
              /\ TransportHeaderData(q, s).destination_port = read_u16(s, 2)
              /\ TransportHeaderData(q, s).protocol = q
              /\ q = "Tcp" => TransportHeaderData(q, s).header_length = (read_u16(s, 12) \div 4096) * 4
  BY <1>3 DEF TransportHeaderData, TcpHeaderData, UdpHeaderData
<1>13. /\ a.transport_header.data.protocol = b.transport_header.data.protocol
       /\ a.transport_header.data.source_port = b.transport_header.data.destination_port
       /\ a.transport_header.data.destination_port = b.transport_header.data.source_port
  BY <1>5, <1>7, <1>10, <1>12
<1>14. IsTcp => a.transport_header.data.header_length = 20
  <2>1. IsTcp => q = "Tcp"
    BY <1>10 DEF IsTcp
  <2> QED BY <1>7, <1>10, <1>12, <2>1
<1>15. IsUdp => read_u16(a.transport_header.raw, 4) = 8 + Len(a.payload)
  <2>1. IsUdp => q = "Udp"
    BY <1>10 DEF IsUdp
  <2>2. q = "Udp" => read_u16(t, 4) = 8 + Len(payload)
    BY <1>3 DEF BuiltFrom
  <2> QED BY <1>10, <2>1, <2>2
<1> QED BY <1>6, <1>10, <1>11, <1>13, <1>14, <1>15 DEF AnswersTheReference, a, b

LEMMA PathIs == Spec => []PathInv
<1>1. Init => PathInv
  BY InitPath
<1>2. PathInv /\ [Next]_vars => PathInv'
  BY StepPath
<1> QED BY <1>1, <1>2, PTL DEF Spec

\* The variables keep their types: the buffer of the tunnel never holds more than the
\* longest packet, and what is built is made of bytes.
THEOREM PathTypes == Spec => []TypeOK
<1>1. PathInv => TypeOK
  BY PathTypeOK
<1> QED BY <1>1, PathIs, PTL

\* The parsed values that the code keeps beside the bytes of a header are those of the
\* bytes, after every creation, setter and build.
THEOREM StoredIsParsed == Spec => []DataMatchesRaw
<1>1. PathInv => DataMatchesRaw
  BY HeadsMatch DEF PathInv
<1> QED BY <1>1, PathIs, PTL

\* A receiver that sums the 16-bit words of a packet of the relay accepts its checksums,
\* whatever the headers, the options and the payload, of odd length too.
THEOREM ReceiverAcceptsChecksums == Spec => []ChecksumsVerify
<1>1. PathInv => ChecksumsVerify
  BY HeadsVerify DEF PathInv
<1> QED BY <1>1, PathIs, PTL

\* A packet of the relay, parsed again, answers the packet that created the connection:
\* addresses and ports exchanged, its own lengths, no option of TCP, the payload given.
THEOREM AnswerIsMirrored == Spec => []AnswersTheReference
<1>1. PathInv => AnswersTheReference
  BY HeadsAnswer DEF PathInv
<1> QED BY <1>1, PathIs, PTL
=============================================================================
