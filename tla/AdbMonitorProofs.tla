-------------------------- MODULE AdbMonitorProofs ---------------------------
(***************************************************************************)
(* The adb monitor keeps in step with the lists of the adb server, for     *)
(* every finite set of devices, every size of the header and of the buffer,*)
(* and any number of changes and faults.                                   *)
(***************************************************************************)
EXTENDS AdbMonitor, Lemmas

Mark == {"OKAY", "FAIL"}
State == {"absent", "offline", "device"}

\* The cells of the packets, and those of the statuses with them.
Data == {<<"length", n, i>> : n \in Nat, i \in Nat}
          \cup {<<"line", d, state>> : d \in Devices, state \in State}
          \cup {<< "message" >>}
Cell == Data \cup {<<s, i>> : s \in Mark, i \in Nat}

\* What the server may send as a list.
Lists == {DeviceList(att) : att \in [Devices -> State]}

Packets(lists) == [i \in DOMAIN lists |-> Packet(lists[i])]
Sent == FlattenSeq(Packets(inflight))

\* What the monitor holds and has still to read is h and the lists in flight; only a
\* connection that ended may have lost the end of it.
Flow(h) == \E lost \in Seq(Cell) : /\ (buf \o stream) \o lost = h \o Sent
                                   /\ ended = "no" => lost = << >>

\* The buffer holds no status OKAY where consume_okay() would look for one.
Leftover(b) == \A i \in Nat : i % HEADER = 0 /\ i + HEADER <= Len(b) => b[i + 1] # <<"OKAY", 1>>

Reply(s) == IF s = "OKAY" THEN Status(s) ELSE Status(s) \o Packet(<< << "message" >> >>)

\* Before the status: what an older connection left, and then the reply.  The monitor
\* reads more only when that is less than a header.
Awaits(old, s) == /\ Leftover(old) /\ Len(old) <= Len(buf)
                  /\ Len(old) < Len(buf) => Len(old) < HEADER
                  /\ Flow(old \o Reply(s))
                  /\ s = "FAIL" => ended # "no"

StreamTypes == buf \in Seq(Cell) /\ stream \in Seq(Cell) /\ inflight \in Seq(Lists)

Streams == /\ StreamTypes
           /\ pc \in {"connect", "repair"} => Leftover(buf)
           /\ pc = "status" => \E old \in Seq(Cell), s \in Mark : Awaits(old, s)
           /\ pc = "packets" => Flow(<< >>)

-----------------------------------------------------------------------------
(***************************************************************************)
(* Lists and packets.                                                      *)
(***************************************************************************)
\* A finite set is the range of the sequence that SetToSeq() makes of it.
LEMMA SeqOfSet ==
  ASSUME NEW T, IsFiniteSet(T)
  PROVE  /\ SetToSeq(T) \in Seq(T)
         /\ \A x \in T : \E i \in DOMAIN SetToSeq(T) : SetToSeq(T)[i] = x
<1> DEFINE n == Cardinality(T)
           f == SetToSeq(T)
<1>1. n \in Nat /\ ExistsBijection(1 .. n, T)
  BY FS_CardinalityType
<1>2. PICK g : g \in Bijection(1 .. n, T)
  BY <1>1 DEF ExistsBijection
<1>3. g \in [1 .. n -> T] /\ IsInjective(g)
  BY <1>2 DEF Bijection, Injection
<1>4. f \in [1 .. n -> T] /\ IsInjective(f)
  BY <1>3, Zenon DEF SetToSeq
<1> HIDE DEF f
<1>5. f \in Injection(1 .. n, T)
  BY <1>4 DEF Injection
<1>6. IsFiniteSet(1 .. n) /\ Cardinality(1 .. n) = n
  <2>1. n \in Nat => Cardinality(1 .. n) = n
    BY FS_Interval
  <2> QED BY <1>1, <2>1, FS_Interval
<1>7. f \in Surjection(1 .. n, T)
  BY <1>5, <1>6, FS_Injection
<1>8. \A x \in T : \E i \in 1 .. n : f[i] = x
  BY <1>7 DEF Surjection
<1>9. f \in Seq(T) /\ DOMAIN f = 1 .. n
  BY <1>1, <1>4, SeqDef
<1> QED BY <1>8, <1>9 DEF f

\* A list has a line for each device that is attached, which parse_connected_devices()
\* reads back.
LEMMA ListIs ==
  ASSUME NEW att \in [Devices -> State]
  PROVE  /\ DeviceList(att) \in Seq(Data)
         /\ parse_connected_devices(DeviceList(att)) = {d \in Devices : att[d] = "device"}
<1> DEFINE T == {d \in Devices : att[d] # "absent"}
           seen == SetToSeq(T)
           list == DeviceList(att)
<1>1. IsFiniteSet(T)
  BY AdbAssumption, FS_Subset
<1>2. seen \in Seq(T) /\ \A x \in T : \E i \in DOMAIN seen : seen[i] = x
  <2> HIDE DEF T
  <2> QED BY <1>1, SeqOfSet
<1>3. list = [i \in DOMAIN seen |-> Line(seen[i], att[seen[i]])]
  BY DEF DeviceList
<1> HIDE DEF seen, list
<1>4. /\ Len(seen) \in Nat /\ DOMAIN seen = 1 .. Len(seen)
      /\ \A i \in 1 .. Len(seen) : seen[i] \in T
  BY <1>2, LenProperties, ElementOfSeq
<1>5. ASSUME NEW i \in 1 .. Len(seen) PROVE list[i] \in Data
  BY <1>3, <1>4, <1>5 DEF Data, Line, State
<1>6. list \in Seq(Data)
  <2>1. list \in [1 .. Len(seen) -> Data]
    BY <1>3, <1>4, <1>5
  <2> QED BY <1>4, <2>1, SeqDef
<1>7. ASSUME NEW d \in Devices
      PROVE  (\E i \in DOMAIN list : list[i] = Line(d, "device")) <=> att[d] = "device"
  <2>1. DOMAIN list = 1 .. Len(seen)
    BY <1>3, <1>4
  <2>2. ASSUME NEW i \in DOMAIN list, list[i] = Line(d, "device") PROVE att[d] = "device"
    <3>1. Line(seen[i], att[seen[i]]) = Line(d, "device")
      BY <1>3, <2>1, <2>2, <1>4
    <3>2. seen[i] = d /\ att[seen[i]] = "device"
      BY <3>1 DEF Line
    <3> QED BY <3>2
  <2>3. ASSUME att[d] = "device" PROVE \E i \in DOMAIN list : list[i] = Line(d, "device")
    <3>1. d \in T
      BY <2>3
    <3>2. PICK i \in DOMAIN seen : seen[i] = d
      BY <1>2, <3>1
    <3> QED BY <1>3, <2>3, <3>2
  <2> QED BY <2>2, <2>3
<1>8. parse_connected_devices(list) = {d \in Devices : att[d] = "device"}
  BY <1>7 DEF parse_connected_devices
<1> QED BY <1>6, <1>8 DEF list

LEMMA ListsAre == Lists \subseteq Seq(Data) /\ Data \subseteq Cell
BY ListIs DEF Lists, Cell

LEMMA Header == HEADER \in Nat /\ HEADER >= 1 /\ BUFFER_SIZE \in Nat /\ BUFFER_SIZE >= HEADER
BY AdbAssumption

\* A packet is a length of HEADER cells and the list.
LEMMA PacketIs ==
  ASSUME NEW list \in Seq(Data)
  PROVE  /\ Packet(list) \in Seq(Data) /\ Len(Packet(list)) = HEADER + Len(list)
         /\ Len(list) \in Nat
         /\ \A i \in 1 .. HEADER : Packet(list)[i] = <<"length", Len(list), i>>
         /\ \A i \in 1 .. Len(list) : Packet(list)[HEADER + i] = list[i]
<1> DEFINE n == Len(list)
           header == Length(n)
<1>1. n \in Nat
  BY LenProperties
<1> HIDE DEF n
<1>2. header \in [1 .. HEADER -> Data] /\ \A i \in 1 .. HEADER : header[i] = <<"length", n, i>>
  BY <1>1, Header DEF Length, Data
<1>3. header \in Seq(Data) /\ Len(header) = HEADER
  BY <1>2, Header, SeqDef, LenProperties
<1> HIDE DEF header
<1>4. /\ header \o list \in Seq(Data) /\ Len(header \o list) = HEADER + n
      /\ \A i \in 1 .. HEADER + n : (header \o list)[i] =
           IF i <= HEADER THEN header[i] ELSE list[i - HEADER]
  BY <1>3, ConcatProperties DEF n
<1>5. Packet(list) = header \o list
  BY DEF Packet, n, header
<1>6. ASSUME NEW i \in 1 .. n PROVE (header \o list)[HEADER + i] = list[i]
  <2>1. HEADER + i \in 1 .. HEADER + n /\ ~(HEADER + i <= HEADER) /\ (HEADER + i) - HEADER = i
    BY <1>1, Header
  <2> QED BY <1>4, <2>1
<1>7. ASSUME NEW i \in 1 .. HEADER PROVE (header \o list)[i] = <<"length", n, i>>
  <2>1. i \in 1 .. HEADER + n /\ i <= HEADER
    BY <1>1, Header
  <2> QED BY <1>2, <1>4, <2>1
<1> QED BY <1>1, <1>4, <1>5, <1>6, <1>7 DEF n

\* The packets of lists, one more at the end or one less at the start.
LEMMA PacketsAre ==
  ASSUME NEW lists \in Seq(Lists)
  PROVE  /\ Packets(lists) \in Seq(Seq(Data)) /\ Len(Packets(lists)) = Len(lists)
         /\ \A i \in 1 .. Len(lists) : Packets(lists)[i] = Packet(lists[i])
<1>1. /\ Len(lists) \in Nat /\ DOMAIN lists = 1 .. Len(lists)
      /\ \A i \in 1 .. Len(lists) : lists[i] \in Lists
  BY LenProperties, ElementOfSeq
<1>2. ASSUME NEW i \in 1 .. Len(lists) PROVE Packet(lists[i]) \in Seq(Data)
  <2>1. lists[i] \in Seq(Data)
    BY <1>1, <1>2, ListsAre
  <2> QED BY <2>1, PacketIs
<1> DEFINE X == Seq(Data)
<1>3. Packets(lists) \in [1 .. Len(lists) -> X]
  BY <1>1, <1>2 DEF Packets
<1> HIDE DEF X
<1>4. Packets(lists) \in Seq(X) /\ Len(Packets(lists)) = Len(lists)
  BY <1>1, <1>3, SeqDef, LenProperties
<1> QED BY <1>1, <1>4 DEF Packets, X

LEMMA PacketsAppend ==
  ASSUME NEW lists \in Seq(Lists), NEW e \in Lists
  PROVE  /\ Append(lists, e) \in Seq(Lists)
         /\ Packets(Append(lists, e)) = Append(Packets(lists), Packet(e))
<1> DEFINE a == Append(lists, e)
           X == Seq(Data)
           p == Packet(e)
<1>1. /\ a \in Seq(Lists) /\ Len(a) = Len(lists) + 1 /\ Len(lists) \in Nat
      /\ \A i \in 1 .. Len(lists) : a[i] = lists[i]
      /\ a[Len(lists) + 1] = e
  BY AppendProperties, LenProperties
<1> HIDE DEF a
<1>2. p \in X
  BY ListsAre, PacketIs
<1>3. /\ Packets(a) \in Seq(X) /\ Len(Packets(a)) = Len(lists) + 1
      /\ \A i \in 1 .. Len(lists) + 1 : Packets(a)[i] = Packet(a[i])
  BY <1>1, PacketsAre
<1>4. /\ Packets(lists) \in Seq(X) /\ Len(Packets(lists)) = Len(lists)
      /\ \A i \in 1 .. Len(lists) : Packets(lists)[i] = Packet(lists[i])
  BY PacketsAre
<1> DEFINE b == Append(Packets(lists), p)
<1> HIDE DEF X, p
<1>5. /\ b \in Seq(X) /\ Len(b) = Len(lists) + 1
      /\ \A i \in 1 .. Len(lists) : b[i] = Packets(lists)[i]
      /\ b[Len(lists) + 1] = p
  BY <1>2, <1>4, AppendProperties
<1> HIDE DEF b
<1>6. ASSUME NEW i \in 1 .. Len(Packets(a)) PROVE Packets(a)[i] = b[i]
  <2>1. i \in 1 .. Len(lists) + 1 /\ (i \in 1 .. Len(lists) \/ i = Len(lists) + 1)
    BY <1>1, <1>3
  <2>2. Packets(a)[i] = Packet(a[i])
    BY <1>3, <2>1
  <2> QED BY <1>1, <1>4, <1>5, <2>1, <2>2 DEF p
<1>7. Packets(a) = b
  BY <1>3, <1>5, <1>6, SeqEqual
<1> QED BY <1>1, <1>7 DEF a, b, p

LEMMA PacketsTail ==
  ASSUME NEW lists \in Seq(Lists), lists # << >>
  PROVE  /\ Head(lists) \in Lists /\ Tail(lists) \in Seq(Lists)
         /\ Packets(lists) # << >>
         /\ Head(Packets(lists)) = Packet(Head(lists))
         /\ Tail(Packets(lists)) = Packets(Tail(lists))
<1> DEFINE X == Seq(Data)
           p == Packets(lists)
           u == Tail(lists)
<1>1. /\ Len(lists) \in Nat /\ Len(lists) # 0 /\ Head(lists) = lists[1] /\ Head(lists) \in Lists
      /\ u \in Seq(Lists) /\ Len(u) = Len(lists) - 1
      /\ \A i \in 1 .. Len(u) : u[i] = lists[i + 1]
  BY EmptySeq, HeadTailProperties
<1> HIDE DEF u
<1>2. /\ p \in Seq(X) /\ Len(p) = Len(lists)
      /\ \A i \in 1 .. Len(lists) : p[i] = Packet(lists[i])
  BY PacketsAre
<1>3. /\ Packets(u) \in Seq(X) /\ Len(Packets(u)) = Len(u)
      /\ \A i \in 1 .. Len(u) : Packets(u)[i] = Packet(u[i])
  BY <1>1, PacketsAre
<1> HIDE DEF X, p
<1>4. p # << >>
  BY <1>1, <1>2, EmptySeq
<1>5. /\ Head(p) = p[1] /\ Tail(p) \in Seq(X) /\ Len(Tail(p)) = Len(p) - 1
      /\ \A i \in 1 .. Len(Tail(p)) : Tail(p)[i] = p[i + 1]
  BY <1>2, <1>4, HeadTailProperties
<1>6. 1 \in 1 .. Len(lists) /\ Len(u) \in Nat /\ Len(Tail(p)) = Len(u)
  BY <1>1, <1>2, <1>5
<1>7. ASSUME NEW i \in 1 .. Len(Tail(p)) PROVE Tail(p)[i] = Packets(u)[i]
  <2>1. i \in 1 .. Len(u) /\ i + 1 \in 1 .. Len(lists)
    BY <1>1, <1>6
  <2>2. p[i + 1] = Packet(lists[i + 1])
    BY <1>2, <2>1
  <2> QED BY <1>1, <1>3, <1>5, <2>1, <2>2
<1>8. Tail(p) = Packets(u)
  BY <1>3, <1>5, <1>6, <1>7, SeqEqual
<1>9. Head(p) = Packet(Head(lists))
  BY <1>1, <1>2, <1>5, <1>6
<1> QED BY <1>1, <1>4, <1>8, <1>9 DEF p, u

LEMMA SentIs ==
  ASSUME inflight \in Seq(Lists)
  PROVE  Sent \in Seq(Data) /\ Sent \in Seq(Cell)
<1>1. Packets(inflight) \in Seq(Seq(Data))
  BY PacketsAre
<1>2. Sent \in Seq(Data)
  BY <1>1, FlattenWhole DEF Sent
<1> QED BY <1>2, ListsAre, SeqMonotonic

\* No cell of a packet is one of the status OKAY.
LEMMA DataIs ==
  ASSUME NEW c \in Data
  PROVE  c # <<"OKAY", 1>>
BY DEF Data

LEMMA StatusIs ==
  ASSUME NEW s \in Mark
  PROVE  /\ Status(s) \in Seq(Cell) /\ Len(Status(s)) = HEADER
         /\ \A i \in 1 .. HEADER : Status(s)[i] = <<s, i>>
<1>1. Status(s) \in [1 .. HEADER -> Cell]
  BY Header DEF Status, Cell
<1>2. Status(s) \in Seq(Cell) /\ Len(Status(s)) = HEADER
  BY <1>1, Header, SeqDef, LenProperties
<1> QED BY <1>2 DEF Status

\* The reply to a request is a status and, after a refusal, a message.
LEMMA ReplyIs ==
  ASSUME NEW s \in Mark
  PROVE  \E message \in Seq(Data) : /\ Reply(s) = Status(s) \o message
                                    /\ s = "OKAY" => message = << >>
<1>1. CASE s = "OKAY"
  <2>1. Status(s) \o << >> = Status(s)
    BY StatusIs, ConcatEmptySeq
  <2>2. << >> \in Seq(Data)
    BY EmptySeq
  <2> QED BY <1>1, <2>1, <2>2 DEF Reply
<1>2. CASE s # "OKAY"
  <2> DEFINE line == << << "message" >> >>
  <2>1. line \in Seq(Data)
    BY DEF Data
  <2> HIDE DEF line
  <2>2. Packet(line) \in Seq(Data)
    BY <2>1, PacketIs
  <2>3. Reply(s) = Status(s) \o Packet(line)
    BY <1>2 DEF Reply, line
  <2> QED BY <1>2, <2>2, <2>3
<1> QED BY <1>1, <1>2

-----------------------------------------------------------------------------
(***************************************************************************)
(* What the server sends, and what the reads make of it.                   *)
(***************************************************************************)
\* The server adds a list to a stream that did not end.
LEMMA FlowAppend ==
  ASSUME StreamTypes, NEW h \in Seq(Cell), Flow(h), ended = "no", NEW e \in Lists,
         stream' = stream \o Packet(e), inflight' = Append(inflight, e),
         UNCHANGED <<buf, ended>>
  PROVE  StreamTypes' /\ Flow(h)'
<1> DEFINE p == Packet(e)
<1>1. p \in Seq(Data) /\ p \in Seq(Cell)
  <2>1. e \in Seq(Data)
    BY ListsAre
  <2>2. p \in Seq(Data)
    BY <2>1, PacketIs
  <2> HIDE DEF p
  <2> QED BY <2>2, ListsAre, SeqMonotonic
<1>2. buf \in Seq(Cell) /\ stream \in Seq(Cell) /\ inflight \in Seq(Lists) /\ Sent \in Seq(Cell)
  BY SentIs DEF StreamTypes
<1>3. inflight' \in Seq(Lists) /\ Packets(inflight') = Append(Packets(inflight), p)
  BY <1>2, PacketsAppend
<1>4. Sent' = Sent \o p
  <2>1. Packets(inflight) \in Seq(Seq(Data))
    BY <1>2, PacketsAre
  <2> HIDE DEF p
  <2>2. FlattenSeq(Append(Packets(inflight), p)) = FlattenSeq(Packets(inflight)) \o p
    BY <1>1, <2>1, FlattenAppend
  <2> QED BY <1>3, <2>2 DEF Sent
<1> DEFINE b == buf \o stream
<1>5. b = h \o Sent /\ b \in Seq(Cell)
  <2>1. b \in Seq(Cell)
    BY <1>2, ConcatProperties
  <2>2. b \o << >> = h \o Sent
    BY DEF Flow
  <2> HIDE DEF b
  <2>3. b \o << >> = b
    BY <2>1, ConcatEmptySeq
  <2> QED BY <2>1, <2>2, <2>3
<1>6. stream' \in Seq(Cell)
  <2> HIDE DEF p
  <2>1. stream' = stream \o p
    BY DEF p
  <2> QED BY <1>1, <1>2, <2>1, ConcatProperties
<1>7. buf' \o stream' = h \o Sent'
  <2> HIDE DEF p
  <2>0. stream' = stream \o p /\ buf' = buf
    BY DEF p
  <2>1. (buf \o stream) \o p = buf \o (stream \o p)
    <3>1. Groups(buf, stream, p)
      BY <1>1, <1>2, Grouped
    <3> QED BY <3>1 DEF Groups
  <2>2. (h \o Sent) \o p = h \o (Sent \o p)
    <3>1. Groups(h, Sent, p)
      BY <1>1, <1>2, Grouped
    <3> QED BY <3>1 DEF Groups
  <2> QED BY <1>4, <1>5, <2>0, <2>1, <2>2
<1>8. (buf' \o stream') \o << >> = h \o Sent' /\ << >> \in Seq(Cell)
  <2>1. buf' \o stream' \in Seq(Cell)
    BY <1>2, <1>6, ConcatProperties
  <2>2. (buf' \o stream') \o << >> = buf' \o stream'
    BY <2>1, ConcatEmptySeq
  <2> QED BY <1>7, <2>2, EmptySeq
<1>9. \E lost \in Seq(Cell) : /\ (buf' \o stream') \o lost = h \o Sent'
                              /\ ended' = "no" => lost = << >>
  <2> HIDE DEF b
  <2> QED BY <1>8
<1>10. Flow(h)'
  BY <1>9 DEF Flow
<1> QED BY <1>2, <1>3, <1>6, <1>10 DEF StreamTypes

\* The server dies: what it sent last is lost from any cell on.
LEMMA FlowCut ==
  ASSUME StreamTypes, NEW h \in Seq(Cell), Flow(h), ended = "no", NEW n \in 0 .. Len(stream),
         stream' = SubSeq(stream, 1, n), ended' # "no", UNCHANGED <<buf, inflight>>
  PROVE  StreamTypes' /\ Flow(h)'
<1> DEFINE a == SubSeq(stream, 1, n)
           z == SubSeq(stream, n + 1, Len(stream))
<1>1. buf \in Seq(Cell) /\ stream \in Seq(Cell) /\ inflight \in Seq(Lists)
  BY DEF StreamTypes
<1>2. a \in Seq(Cell) /\ z \in Seq(Cell) /\ a \o z = stream
  BY <1>1, CutAt
<1>3. stream' = a
  OBVIOUS
<1> HIDE DEF a, z
<1>4. (buf \o a) \o z = buf \o stream
  <2>1. (buf \o a) \o z = buf \o (a \o z)
    <3>1. Groups(buf, a, z)
      BY <1>1, <1>2, Grouped
    <3> QED BY <3>1 DEF Groups
  <2> QED BY <1>2, <2>1
<1>5. buf \o stream = h \o Sent
  <2>1. (buf \o stream) \o << >> = h \o Sent
    BY DEF Flow
  <2>2. buf \o stream \in Seq(Cell)
    BY <1>1, ConcatProperties
  <2>3. (buf \o stream) \o << >> = buf \o stream
    BY <2>2, ConcatEmptySeq
  <2> QED BY <2>1, <2>3
<1>6. Sent' = Sent
  BY DEF Sent
<1>7. (buf' \o stream') \o z = h \o Sent'
  BY <1>3, <1>4, <1>5, <1>6
<1>8. Flow(h)'
  BY <1>2, <1>7 DEF Flow
<1> QED BY <1>1, <1>2, <1>3, <1>8 DEF StreamTypes

\* A read moves cells from the stream to the buffer.
LEMMA FlowRead ==
  ASSUME StreamTypes, NEW n \in 0 .. Len(stream), read_from(n)
  PROVE  /\ StreamTypes' /\ buf' \o stream' = buf \o stream /\ Sent' = Sent
         /\ Len(buf') = Len(buf) + n /\ Len(buf) \in Nat
<1> DEFINE a == SubSeq(stream, 1, n)
           z == SubSeq(stream, n + 1, Len(stream))
<1>1. buf \in Seq(Cell) /\ stream \in Seq(Cell) /\ inflight \in Seq(Lists)
  BY DEF StreamTypes
<1>2. a \in Seq(Cell) /\ z \in Seq(Cell) /\ a \o z = stream /\ Len(a) = n
  BY <1>1, CutAt
<1>3. buf' = buf \o a /\ stream' = z /\ inflight' = inflight
  BY DEF read_from
<1> HIDE DEF a, z
<1>4. (buf \o a) \o z = buf \o stream
  <2>1. (buf \o a) \o z = buf \o (a \o z)
    <3>1. Groups(buf, a, z)
      BY <1>1, <1>2, Grouped
    <3> QED BY <3>1 DEF Groups
  <2> QED BY <1>2, <2>1
<1>5. buf' \in Seq(Cell) /\ Len(buf') = Len(buf) + n /\ Len(buf) \in Nat
  BY <1>1, <1>2, <1>3, ConcatProperties, LenProperties
<1>6. Sent' = Sent
  BY <1>3 DEF Sent
<1> QED BY <1>1, <1>2, <1>3, <1>4, <1>5, <1>6 DEF StreamTypes

\* A cell of the buffer is the cell of what was sent at its place.
LEMMA FlowCells ==
  ASSUME StreamTypes, NEW h \in Seq(Cell), Flow(h)
  PROVE  /\ Len(buf) \in Nat /\ Len(h) \in Nat /\ Len(Sent) \in Nat
         /\ Len(buf) <= Len(h) + Len(Sent)
         /\ \A i \in 1 .. Len(buf) :
              buf[i] = IF i <= Len(h) THEN h[i] ELSE Sent[i - Len(h)]
<1>1. PICK lost \in Seq(Cell) : (buf \o stream) \o lost = h \o Sent
  BY DEF Flow
<1>2. buf \in Seq(Cell) /\ stream \in Seq(Cell) /\ inflight \in Seq(Lists) /\ Sent \in Seq(Cell)
  BY SentIs DEF StreamTypes
<1> DEFINE c == stream \o lost
<1>3. c \in Seq(Cell) /\ buf \o c = h \o Sent
  <2>1. (buf \o stream) \o lost = buf \o (stream \o lost)
    <3>1. Groups(buf, stream, lost)
      BY <1>1, <1>2, Grouped
    <3> QED BY <3>1 DEF Groups
  <2> QED BY <1>1, <1>2, <2>1, ConcatProperties
<1> HIDE DEF c
<1>4. /\ Len(buf) \in Nat /\ Len(h) \in Nat /\ Len(Sent) \in Nat /\ Len(c) \in Nat
  BY <1>2, <1>3, LenProperties
<1>5. /\ Len(buf \o c) = Len(buf) + Len(c)
      /\ \A i \in 1 .. Len(buf) + Len(c) :
           (buf \o c)[i] = IF i <= Len(buf) THEN buf[i] ELSE c[i - Len(buf)]
  BY <1>2, <1>3, ConcatProperties
<1>6. /\ Len(h \o Sent) = Len(h) + Len(Sent)
      /\ \A i \in 1 .. Len(h) + Len(Sent) :
           (h \o Sent)[i] = IF i <= Len(h) THEN h[i] ELSE Sent[i - Len(h)]
  BY <1>2, ConcatProperties
<1>7. Len(buf) + Len(c) = Len(h) + Len(Sent)
  BY <1>3, <1>5, <1>6
<1>8. ASSUME NEW i \in 1 .. Len(buf)
      PROVE  buf[i] = IF i <= Len(h) THEN h[i] ELSE Sent[i - Len(h)]
  <2>1. i \in 1 .. Len(buf) + Len(c) /\ i \in 1 .. Len(h) + Len(Sent) /\ i <= Len(buf)
    BY <1>4, <1>7
  <2>2. (buf \o c)[i] = buf[i]
    BY <1>5, <2>1
  <2> QED BY <1>3, <1>6, <2>1, <2>2
<1> QED BY <1>4, <1>7, <1>8

\* A step that moves no cell keeps the streams in order.
LEMMA StreamsKept ==
  ASSUME Streams, UNCHANGED <<buf, stream, inflight, ended, pc>>
  PROVE  Streams'
BY DEF Streams, StreamTypes, Awaits, Flow, Sent

\* A reply consists of cells.
LEMMA ReplyCells ==
  ASSUME NEW s \in Mark, NEW old \in Seq(Cell)
  PROVE  Reply(s) \in Seq(Cell) /\ old \o Reply(s) \in Seq(Cell)
<1>1. PICK message \in Seq(Data) : Reply(s) = Status(s) \o message
  BY ReplyIs
<1>2. message \in Seq(Cell)
  BY <1>1, ListsAre, SeqMonotonic
<1>3. Status(s) \in Seq(Cell)
  BY StatusIs
<1>4. Reply(s) \in Seq(Cell)
  BY <1>1, <1>2, <1>3, ConcatProperties
<1> QED BY <1>4, ConcatProperties

\* A device changes: the list reaches a connection that is open.
LEMMA ChangeStreams ==
  ASSUME Streams, attached' \in [Devices -> State], NEW d \in Devices, NEW state, Change(d, state)
  PROVE  Streams'
<1>1. UNCHANGED <<buf, ended, pc>>
  BY DEF Change
<1>2. CASE ~Connected
  <2>1. UNCHANGED <<stream, inflight>>
    BY <1>2 DEF Change
  <2> QED BY <1>1, <2>1, StreamsKept
<1>3. CASE Connected
  <2> DEFINE e == DeviceList(attached')
  <2>1. /\ stream' = stream \o Packet(e) /\ inflight' = Append(inflight, e)
        /\ ended = "no" /\ pc \in {"status", "packets"}
    BY <1>3 DEF Change, Connected
  <2>2. e \in Lists
    BY DEF Lists
  <2> HIDE DEF e
  <2>3. ASSUME NEW h \in Seq(Cell), Flow(h) PROVE StreamTypes' /\ Flow(h)'
    BY <1>1, <2>1, <2>2, <2>3, FlowAppend DEF Streams
  <2>4. CASE pc = "status"
    <3>1. PICK old \in Seq(Cell), s \in Mark : Awaits(old, s)
      BY <2>4 DEF Streams
    <3>2. old \o Reply(s) \in Seq(Cell) /\ Flow(old \o Reply(s))
      BY <3>1, ReplyCells DEF Awaits
    <3>3. StreamTypes' /\ Flow(old \o Reply(s))'
      BY <2>3, <3>2
    <3>4. Awaits(old, s)'
      BY <1>1, <3>1, <3>3 DEF Awaits
    <3> QED BY <1>1, <2>4, <3>3, <3>4 DEF Streams
  <2>5. CASE pc = "packets"
    <3>1. StreamTypes' /\ Flow(<< >>)'
      BY <2>3, <2>5, EmptySeq DEF Streams
    <3> QED BY <1>1, <2>5, <3>1 DEF Streams
  <2> QED BY <2>1, <2>4, <2>5
<1> QED BY <1>2, <1>3

\* The server dies.
LEMMA CrashStreams ==
  ASSUME Streams, NEW n \in 0 .. Len(stream), NEW how \in {"eof", "reset"}, Crash(n, how)
  PROVE  Streams'
<1>1. UNCHANGED <<buf, inflight, pc>>
  BY DEF Crash
<1>2. CASE ~Connected
  <2>1. UNCHANGED <<stream, ended>>
    BY <1>2 DEF Crash
  <2> QED BY <1>1, <2>1, StreamsKept
<1>3. CASE Connected
  <2>1. /\ stream' = SubSeq(stream, 1, n) /\ ended' # "no"
        /\ ended = "no" /\ pc \in {"status", "packets"}
    BY <1>3 DEF Crash, Connected
  <2>2. ASSUME NEW h \in Seq(Cell), Flow(h) PROVE StreamTypes' /\ Flow(h)'
    BY <1>1, <2>1, <2>2, FlowCut DEF Streams
  <2>3. CASE pc = "status"
    <3>1. PICK old \in Seq(Cell), s \in Mark : Awaits(old, s)
      BY <2>3 DEF Streams
    <3>2. old \o Reply(s) \in Seq(Cell) /\ Flow(old \o Reply(s))
      BY <3>1, ReplyCells DEF Awaits
    <3>3. StreamTypes' /\ Flow(old \o Reply(s))'
      BY <2>2, <3>2
    <3>4. Awaits(old, s)'
      BY <1>1, <2>1, <3>1, <3>3 DEF Awaits
    <3> QED BY <1>1, <2>3, <3>3, <3>4 DEF Streams
  <2>4. CASE pc = "packets"
    <3>1. StreamTypes' /\ Flow(<< >>)'
      BY <2>2, <2>4, EmptySeq DEF Streams
    <3> QED BY <1>1, <2>4, <3>1 DEF Streams
  <2> QED BY <2>1, <2>3, <2>4
<1> QED BY <1>2, <1>3

\* With an empty stream nothing is in flight; with one list its packet is.
LEMMA SentFirst ==
  /\ Packets(<< >>) = << >> /\ FlattenSeq(<< >>) = << >>
  /\ \A e \in Lists : FlattenSeq(Packets(<<e>>)) = Packet(e)
<1>1. Packets(<< >>) = << >> /\ FlattenSeq(<< >>) = << >>
  BY DEF Packets, FlattenSeq
<1>2. ASSUME NEW e \in Lists PROVE FlattenSeq(Packets(<<e>>)) = Packet(e)
  <2> DEFINE p == Packet(e)
  <2>1. p \in Seq(Data)
    BY ListsAre, PacketIs
  <2>2. Packets(<<e>>) = <<p>>
    BY DEF Packets
  <2> HIDE DEF p
  <2>3. FlattenSeq(<<p>>) = p
    BY DEF FlattenSeq
  <2> QED BY <2>2, <2>3 DEF p
<1> QED BY <1>1, <1>2

\* A request starts a stream behind what the buffer holds.
LEMMA TrackStreams ==
  ASSUME Streams, attached \in [Devices -> State], NEW status \in Mark, track_devices(status)
  PROVE  Streams'
<1>1. pc = "connect" /\ buf' = buf /\ Leftover(buf) /\ StreamTypes
  BY DEF track_devices, Streams
<1>2. CASE ~up
  <2>1. pc' = "repair" /\ UNCHANGED <<stream, ended, inflight>>
    BY <1>2 DEF track_devices
  <2> QED BY <1>1, <2>1 DEF Streams, StreamTypes
<1>3. CASE up
  <2> DEFINE r == Reply(status)
             e == DeviceList(attached)
  <2>1. r \in Seq(Cell) /\ buf \in Seq(Cell) /\ buf \o r \in Seq(Cell)
    BY <1>1, ReplyCells DEF StreamTypes
  <2>2. e \in Lists
    BY DEF Lists
  <2>3. Packet(e) \in Seq(Cell)
    <3>1. e \in Seq(Data)
      BY <2>2, ListsAre
    <3>2. Packet(e) \in Seq(Data)
      BY <3>1, PacketIs
    <3> QED BY <3>2, ListsAre, SeqMonotonic
  <2>4. CASE status = "OKAY"
    <3>1. /\ pc' = "status" /\ stream' = r \o Packet(e) /\ inflight' = <<e>> /\ ended' = "no"
      BY <1>3, <2>4 DEF track_devices, Reply
    <3> HIDE DEF r, e
    <3>2. Sent' = Packet(e)
      BY <2>2, <3>1, SentFirst DEF Sent
    <3>3. stream' \in Seq(Cell) /\ inflight' \in Seq(Lists)
      BY <2>1, <2>2, <2>3, <3>1, ConcatProperties
    <3>4. buf \o (r \o Packet(e)) = (buf \o r) \o Packet(e)
      <4>1. Groups(buf, r, Packet(e))
        BY <2>1, <2>3, Grouped
      <4> QED BY <4>1 DEF Groups
    <3>5. buf \o stream' \in Seq(Cell) /\ (buf \o stream') \o << >> = buf \o stream'
      <4>1. buf \o stream' \in Seq(Cell)
        BY <2>1, <3>3, ConcatProperties
      <4> QED BY <4>1, ConcatEmptySeq
    <3>6. (buf' \o stream') \o << >> = (buf \o r) \o Sent'
      BY <1>1, <3>1, <3>2, <3>4, <3>5
    <3>7. Awaits(buf, status)'
      <4>1. Flow(buf \o r)'
        BY <1>1, <3>6, EmptySeq DEF Flow
      <4>2. Len(buf) \in Nat
        BY <2>1, LenProperties
      <4> QED BY <1>1, <2>4, <4>1, <4>2 DEF Awaits, r
    <3> QED BY <1>1, <2>1, <3>1, <3>3, <3>7 DEF Streams, StreamTypes
  <2>5. CASE status = "FAIL"
    <3>1. /\ pc' = "status" /\ stream' = r /\ inflight' = << >> /\ ended' = "eof"
      BY <1>3, <2>5 DEF track_devices, Reply
    <3> HIDE DEF r, e
    <3>2. Sent' = << >>
      BY <3>1, SentFirst DEF Sent
    <3>3. << >> \in Seq(Cell) /\ << >> \in Seq(Lists)
      BY EmptySeq
    <3>4. (buf' \o stream') \o << >> = (buf \o r) \o Sent'
      BY <1>1, <3>1, <3>2
    <3>5. Awaits(buf, status)'
      <4>1. Flow(buf \o r)'
        BY <1>1, <3>1, <3>3, <3>4 DEF Flow
      <4>2. Len(buf) \in Nat
        BY <2>1, LenProperties
      <4> QED BY <1>1, <3>1, <4>1, <4>2 DEF Awaits, r
    <3> QED BY <1>1, <2>1, <3>1, <3>3, <3>5 DEF Streams, StreamTypes
  <2> QED BY <2>4, <2>5 DEF Mark
<1> QED BY <1>2, <1>3

\* Leftovers of which a header was dropped are leftovers.
LEMMA LeftoverDrop ==
  ASSUME NEW b \in Seq(Cell), Leftover(b), Len(b) >= HEADER
  PROVE  Leftover(SubSeq(b, HEADER + 1, Len(b)))
<1> DEFINE r == SubSeq(b, HEADER + 1, Len(b))
<1>1. /\ Len(b) \in Nat /\ HEADER \in Nat \ {0} /\ HEADER \in 0 .. Len(b)
      /\ \A i \in 1 .. Len(b) : b[i] \in Cell
  BY Header, LenProperties, ElementOfSeq
<1>2. /\ Len(r) = Len(b) - HEADER
      /\ \A i \in 1 .. Len(b) - HEADER : r[i] = b[HEADER + i]
  BY <1>1, SubSeqProperties
<1> HIDE DEF r
<1>3. ASSUME NEW i \in Nat, i % HEADER = 0, i + HEADER <= Len(r) PROVE r[i + 1] # <<"OKAY", 1>>
  <2>1. (i + HEADER) % HEADER = 0
    <3>1. i \in Int /\ HEADER \in Int /\ HEADER \in Nat /\ HEADER < HEADER + HEADER
      BY <1>1
    <3>2. ((i % HEADER) + HEADER) % HEADER = (i + HEADER) % HEADER
      BY <1>1, <3>1, ModPlus
    <3>3. HEADER % HEADER = HEADER - HEADER
      BY <1>1, <3>1, ModOnce
    <3>4. (i % HEADER) + HEADER = HEADER
      BY <1>3, <3>1
    <3> QED BY <3>1, <3>2, <3>3, <3>4
  <2>2. i + HEADER \in Nat /\ (i + HEADER) + HEADER <= Len(b) /\ i + 1 \in 1 .. Len(b) - HEADER
    BY <1>1, <1>2, <1>3
  <2>3. b[(i + HEADER) + 1] # <<"OKAY", 1>>
    BY <2>1, <2>2 DEF Leftover
  <2>4. r[i + 1] = b[HEADER + (i + 1)] /\ HEADER + (i + 1) = (i + HEADER) + 1
    BY <1>1, <1>2, <2>2
  <2> QED BY <2>3, <2>4
<1> QED BY <1>3 DEF Leftover, r

\* A read leaves what was sent as it is.
LEMMA FlowReadKept ==
  ASSUME StreamTypes, NEW n \in 0 .. Len(stream), read_from(n), NEW h \in Seq(Cell), Flow(h)
  PROVE  Flow(h)'
<1>1. buf' \o stream' = buf \o stream /\ Sent' = Sent
  BY FlowRead
<1>2. ended' = ended
  BY DEF read_from
<1> QED BY <1>1, <1>2 DEF Flow

\* What the buffer holds before the status is accepted.
LEMMA StatusCells ==
  ASSUME StreamTypes, NEW old \in Seq(Cell), NEW s \in Mark, Awaits(old, s), Len(old) < HEADER
  PROVE  /\ Len(buf) \in Nat /\ Len(old) \in Nat
         /\ \A i \in 1 .. Len(buf) :
              /\ Len(old) < i /\ i <= Len(old) + HEADER => buf[i] = <<s, i - Len(old)>>
              /\ Len(old) + HEADER < i => buf[i] # <<"OKAY", 1>>
<1> DEFINE k == Len(old)
<1>1. PICK message \in Seq(Data) : Reply(s) = Status(s) \o message
  BY ReplyIs
<1>2. /\ Status(s) \in Seq(Cell) /\ Len(Status(s)) = HEADER
      /\ \A i \in 1 .. HEADER : Status(s)[i] = <<s, i>>
  BY StatusIs
<1>3. message \in Seq(Cell) /\ Len(message) \in Nat /\ \A i \in 1 .. Len(message) : message[i] \in Data
  BY <1>1, ListsAre, SeqMonotonic, LenProperties, ElementOfSeq
<1>4. k \in Nat /\ HEADER \in Nat
  BY Header, LenProperties
<1> DEFINE r == Reply(s)
           h == old \o r
<1>5. /\ r \in Seq(Cell) /\ Len(r) = HEADER + Len(message)
      /\ \A i \in 1 .. HEADER + Len(message) :
           r[i] = IF i <= HEADER THEN Status(s)[i] ELSE message[i - HEADER]
  <2> DEFINE a == Status(s)
             c == a \o message
  <2>1. a \in Seq(Cell) /\ Len(a) = HEADER /\ r = c
    BY <1>1, <1>2
  <2> HIDE DEF a, r
  <2>2. /\ c \in Seq(Cell) /\ Len(c) = HEADER + Len(message)
        /\ \A i \in 1 .. HEADER + Len(message) : c[i] = IF i <= HEADER THEN a[i] ELSE message[i - HEADER]
    BY <1>3, <2>1, ConcatProperties
  <2> HIDE DEF c
  <2> QED BY <2>1, <2>2 DEF a
<1> HIDE DEF r, k
<1>6. /\ h \in Seq(Cell) /\ Len(h) = k + Len(r)
      /\ \A i \in 1 .. k + Len(r) : h[i] = IF i <= k THEN old[i] ELSE r[i - k]
  BY <1>5, ConcatProperties DEF k
<1> HIDE DEF h
<1>7. Flow(h)
  BY DEF Awaits, h, r
<1>8. /\ Len(buf) \in Nat /\ Len(h) \in Nat /\ Len(Sent) \in Nat
      /\ Len(buf) <= Len(h) + Len(Sent)
      /\ \A i \in 1 .. Len(buf) : buf[i] = IF i <= Len(h) THEN h[i] ELSE Sent[i - Len(h)]
  BY <1>6, <1>7, FlowCells
<1>9. Sent \in Seq(Data) /\ \A i \in 1 .. Len(Sent) : Sent[i] \in Data
  BY SentIs, ElementOfSeq DEF StreamTypes
<1>10. ASSUME NEW i \in 1 .. Len(buf), k < i, i <= k + HEADER PROVE buf[i] = <<s, i - k>>
  <2>1. i <= Len(h) /\ i \in 1 .. k + Len(r) /\ i - k \in 1 .. HEADER /\ ~(i <= k)
        /\ i - k \in 1 .. HEADER + Len(message)
    BY <1>3, <1>4, <1>5, <1>6, <1>8, <1>10
  <2>2. buf[i] = r[i - k]
    BY <1>6, <1>8, <2>1
  <2>3. r[i - k] = Status(s)[i - k]
    BY <1>5, <2>1
  <2> QED BY <1>2, <2>1, <2>2, <2>3
<1>11. ASSUME NEW i \in 1 .. Len(buf), k + HEADER < i PROVE buf[i] # <<"OKAY", 1>>
  <2>1. CASE i <= Len(h)
    <3> DEFINE j == i - k
    <3>1. /\ i \in 1 .. k + Len(r) /\ ~(i <= k) /\ j \in 1 .. HEADER + Len(message)
          /\ ~(j <= HEADER) /\ j - HEADER \in 1 .. Len(message)
      BY <1>3, <1>4, <1>5, <1>6, <1>8, <1>11, <2>1
    <3>2. buf[i] = r[j]
      BY <1>6, <1>8, <2>1, <3>1
    <3> HIDE DEF j
    <3>3. r[j] = message[j - HEADER]
      BY <1>5, <3>1
    <3>4. buf[i] \in Data
      BY <1>3, <3>1, <3>2, <3>3
    <3> QED BY <3>4, DataIs
  <2>2. CASE ~(i <= Len(h))
    <3>1. i - Len(h) \in 1 .. Len(Sent)
      BY <1>8, <2>2
    <3>2. buf[i] \in Data
      BY <1>8, <1>9, <2>2, <3>1
    <3> QED BY <3>2, DataIs
  <2> QED BY <2>1, <2>2
<1> QED BY <1>4, <1>8, <1>10, <1>11 DEF k

\* consume_okay(): what it accepts is the status of this connection, and what it
\* drops leaves nothing that a later call could take for one.
LEMMA StatusStreams ==
  ASSUME Streams, pc = "status", NEW n \in 0 .. Len(stream), consume_okay(n)
  PROVE  Streams'
<1>1. PICK old \in Seq(Cell), s \in Mark : Awaits(old, s)
  BY DEF Streams
<1>2. StreamTypes /\ buf \in Seq(Cell) /\ stream \in Seq(Cell) /\ inflight \in Seq(Lists)
  BY DEF Streams, StreamTypes
<1>3. /\ Len(buf) \in Nat /\ Len(old) \in Nat /\ Len(old) <= Len(buf) /\ HEADER \in Nat /\ HEADER >= 1
      /\ Len(old) < Len(buf) => Len(old) < HEADER
  BY <1>1, <1>2, Header, LenProperties DEF Awaits
<1>4. CASE Len(buf) < HEADER /\ read_from(n)
  <2>1. pc' = pc /\ ended' = ended
    BY <1>4 DEF read_from
  <2>2. StreamTypes' /\ Len(buf') = Len(buf) + n
    BY <1>2, <1>4, FlowRead
  <2>3. old \o Reply(s) \in Seq(Cell) /\ Flow(old \o Reply(s))
    BY <1>1, ReplyCells DEF Awaits
  <2>4. Flow(old \o Reply(s))'
    BY <1>2, <1>4, <2>3, FlowReadKept
  <2>5. Awaits(old, s)'
    BY <1>1, <1>3, <1>4, <2>1, <2>2, <2>4 DEF Awaits
  <2> QED BY <2>1, <2>2, <2>5 DEF Streams
<1>5. CASE Len(buf) < HEADER /\ ReadFails /\ fail
  <2>1. pc' = "repair" /\ stream' = << >> /\ inflight' = << >> /\ buf' = buf
    BY <1>5 DEF fail, drop_stream
  <2>2. Leftover(buf)
    BY <1>3, <1>5 DEF Leftover
  <2>3. << >> \in Seq(Cell) /\ << >> \in Seq(Lists)
    BY EmptySeq
  <2> QED BY <1>2, <2>1, <2>2, <2>3 DEF Streams, StreamTypes
<1>6. CASE /\ Len(buf) >= HEADER
           /\ buf' = SubSeq(buf, HEADER + 1, Len(buf))
           /\ IF SubSeq(buf, 1, HEADER) = Status("OKAY")
                THEN pc' = "packets" /\ UNCHANGED <<stream, ended, inflight, stale>>
                ELSE drop_stream("connect") /\ stale' = (stale \/ buf' # << >>)
  <2>1. /\ HEADER \in 0 .. Len(buf) /\ SubSeq(buf, 1, HEADER) \in Seq(Cell) /\ buf' \in Seq(Cell)
        /\ Len(buf') = Len(buf) - HEADER
        /\ \A i \in 1 .. HEADER : SubSeq(buf, 1, HEADER)[i] = buf[i]
        /\ \A i \in 1 .. Len(buf) - HEADER : buf'[i] = buf[HEADER + i]
    <3>1. HEADER \in 0 .. Len(buf) /\ \A i \in 1 .. Len(buf) : buf[i] \in Cell
      BY <1>2, <1>3, <1>6, ElementOfSeq
    <3>2. SubSeq(buf, 1, HEADER) \in Seq(Cell) /\ \A i \in 1 .. HEADER : SubSeq(buf, 1, HEADER)[i] = buf[i]
      BY <1>2, <1>3, <3>1, SubSeqProperties
    <3>3. /\ buf' \in Seq(Cell) /\ Len(buf') = Len(buf) - HEADER
          /\ \A i \in 1 .. Len(buf) - HEADER : buf'[i] = buf[HEADER + i]
      BY <1>2, <1>3, <1>6, <3>1, SubSeqProperties
    <3> QED BY <3>1, <3>2, <3>3
  <2>0. ASSUME Len(old) >= HEADER PROVE Leftover(buf)
      <3>1. Len(old) = Len(buf)
        BY <1>3, <2>0
      <3>2. ASSUME NEW i \in 1 .. Len(buf) PROVE buf[i] = old[i]
        <4> DEFINE h == old \o Reply(s)
        <4>1. h \in Seq(Cell) /\ Flow(h)
          BY <1>1, ReplyCells DEF Awaits
        <4>2. Reply(s) \in Seq(Cell)
          BY ReplyCells, <1>1
        <4>3. Len(h) = Len(old) + Len(Reply(s)) /\ Len(Reply(s)) \in Nat
              /\ \A j \in 1 .. Len(old) : h[j] = old[j]
          BY <4>2, <1>1, <1>3, ConcatProperties, LenProperties
        <4> HIDE DEF h
        <4>4. buf[i] = IF i <= Len(h) THEN h[i] ELSE Sent[i - Len(h)]
          BY <1>2, <4>1, FlowCells
        <4> QED BY <1>3, <3>1, <4>3, <4>4
      <3>3. buf = old
        BY <1>1, <1>2, <3>1, <3>2, SeqEqual
      <3>4. Leftover(buf)
        BY <1>1, <3>3 DEF Awaits
      <3> QED BY <3>4
  <2>2. Leftover(buf')
    <3>1. CASE Len(old) >= HEADER
      BY <1>2, <1>6, <2>0, <3>1, LeftoverDrop
    <3>2. CASE Len(old) < HEADER
      <4> SUFFICES ASSUME NEW i \in Nat, i % HEADER = 0, i + HEADER <= Len(buf')
                   PROVE  buf'[i + 1] # <<"OKAY", 1>>
        BY DEF Leftover
      <4> DEFINE j == HEADER + (i + 1)
      <4>1. i = 0 \/ i >= HEADER
        <5>1. i < HEADER => i % HEADER = i
          BY Header, AdbAssumption, ModSmall
        <5> QED BY <1>3, <5>1
      <4>2. j \in 1 .. Len(buf) /\ i + 1 \in 1 .. Len(buf) - HEADER
        BY <1>3, <2>1
      <4>3. buf'[i + 1] = buf[j]
        BY <2>1, <4>2
      <4>4. /\ Len(old) < j /\ j <= Len(old) + HEADER => buf[j] = <<s, j - Len(old)>>
            /\ Len(old) + HEADER < j => buf[j] # <<"OKAY", 1>>
        BY <1>1, <1>2, <3>2, <4>2, StatusCells
      <4>5. CASE Len(old) + HEADER < j
        BY <4>3, <4>4, <4>5
      <4>6. CASE ~(Len(old) + HEADER < j)
        <5>1. i = 0 /\ Len(old) < j /\ j <= Len(old) + HEADER /\ j - Len(old) # 1
          BY <1>3, <3>2, <4>1, <4>6
        <5>2. buf[j] = <<s, j - Len(old)>>
          BY <4>4, <5>1
        <5> HIDE DEF j
        <5> QED BY <4>3, <5>1, <5>2
      <4> QED BY <4>5, <4>6
    <3> QED BY <1>3, <3>1, <3>2
  <2>3. CASE SubSeq(buf, 1, HEADER) # Status("OKAY")
    <3>1. pc' = "connect" /\ stream' = << >> /\ inflight' = << >>
      BY <1>6, <2>3 DEF drop_stream
    <3>2. << >> \in Seq(Cell) /\ << >> \in Seq(Lists)
      BY EmptySeq
    <3> QED BY <2>1, <2>2, <3>1, <3>2 DEF Streams, StreamTypes
  <2>4. CASE SubSeq(buf, 1, HEADER) = Status("OKAY")
    <3>1. pc' = "packets" /\ UNCHANGED <<stream, ended, inflight>>
      BY <1>6, <2>4
    <3>2. \A i \in 1 .. HEADER : buf[i] = <<"OKAY", i>>
      <4>1. \A i \in 1 .. HEADER : Status("OKAY")[i] = <<"OKAY", i>>
        BY StatusIs DEF Mark
      <4> QED BY <2>1, <2>4, <4>1
    <3>3. Len(old) < HEADER
      <4> SUFFICES ASSUME Len(old) >= HEADER PROVE FALSE
        BY <1>3
      <4>1. 0 % HEADER = 0
        BY AdbAssumption, ModSmall
      <4>2. buf[0 + 1] # <<"OKAY", 1>>
        BY <1>3, <1>6, <2>0, <4>1 DEF Leftover
      <4> QED BY <1>3, <3>2, <4>2
    <3>4. Len(old) = 0 /\ s = "OKAY"
      <4> DEFINE j == Len(old) + 1
      <4>1. j \in 1 .. HEADER /\ j \in 1 .. Len(buf) /\ j - Len(old) = 1
            /\ Len(old) < j /\ j <= Len(old) + HEADER
        BY <1>3, <1>6, <3>3
      <4>2. buf[j] = <<s, j - Len(old)>>
        BY <1>1, <1>2, <3>3, <4>1, StatusCells
      <4>3. buf[j] = <<"OKAY", j>>
        BY <3>2, <4>1
      <4> HIDE DEF j
      <4>4. s = "OKAY" /\ j = 1
        BY <4>1, <4>2, <4>3
      <4> QED BY <1>3, <4>1, <4>4 DEF j
    <3>5. Flow(<< >>)'
      <4> DEFINE q == Status("OKAY")
      <4>1. q \in Seq(Cell) /\ Len(q) = HEADER
        BY StatusIs DEF Mark
      <4>2. old \o Reply(s) = q
        <5>1. old = << >>
          BY <1>1, <3>4, EmptySeq
        <5>2. << >> \o q = q
          BY <4>1, ConcatEmptySeq
        <5> QED BY <3>4, <5>1, <5>2 DEF Reply
      <4> HIDE DEF q
      <4>3. PICK lost \in Seq(Cell) : /\ (buf \o stream) \o lost = q \o Sent
                                      /\ ended = "no" => lost = << >>
        BY <1>1, <4>2 DEF Awaits, Flow
      <4> DEFINE c == stream \o lost
      <4>4. c \in Seq(Cell) /\ buf \o c = q \o Sent /\ Sent \in Seq(Cell)
        <5>1. (buf \o stream) \o lost = buf \o (stream \o lost)
          <6>1. Groups(buf, stream, lost)
            BY <1>2, <4>3, Grouped
          <6> QED BY <6>1 DEF Groups
        <5> QED BY <1>2, <4>3, <5>1, ConcatProperties, SentIs
      <4>5. buf' = After(buf, q)
        BY <1>6, <4>1 DEF After
      <4>6. After(buf, q) \o c = Sent
        <5> HIDE DEF c
        <5>1. Len(q) <= Len(buf)
          BY <1>6, <4>1
        <5>2. buf \in Seq(Cell) /\ q \in Seq(Cell)
          BY <1>2, <4>1
        <5> QED BY <4>4, <5>1, <5>2, SplitAt
      <4>7. (buf' \o stream) \o lost = buf' \o c
        <5>1. Groups(buf', stream, lost)
          BY <1>2, <2>1, <4>3, Grouped
        <5> QED BY <5>1 DEF Groups
      <4>8. Sent' = Sent /\ << >> \o Sent = Sent
        BY <3>1, <4>4, ConcatEmptySeq DEF Sent
      <4>9. (buf' \o stream') \o lost = << >> \o Sent'
        BY <3>1, <4>5, <4>6, <4>7, <4>8
      <4> QED BY <3>1, <4>3, <4>9 DEF Flow
    <3> QED BY <1>2, <2>1, <3>1, <3>5 DEF Streams, StreamTypes
  <2> QED BY <2>3, <2>4
<1> QED BY <1>4, <1>5, <1>6 DEF consume_okay

\* The length that next_packet() finds is that of the first list in flight, which it
\* then takes whole.
LEMMA FirstPacket ==
  ASSUME StreamTypes, Flow(<< >>), NEW len \in available_packet_length(buf), len # -1
  PROVE  /\ inflight # << >> /\ len \in Nat /\ len <= Len(buf)
         /\ SubSeq(buf, HEADER + 1, len) = Head(inflight)
         /\ \E lost \in Seq(Cell) :
              /\ SubSeq(buf, len + 1, Len(buf)) \o (stream \o lost)
                   = FlattenSeq(Packets(Tail(inflight)))
              /\ ended = "no" => lost = << >>
<1>1. buf \in Seq(Cell) /\ stream \in Seq(Cell) /\ inflight \in Seq(Lists) /\ Sent \in Seq(Cell)
  BY SentIs DEF StreamTypes
<1>2. Len(buf) \in Nat /\ HEADER \in Nat /\ HEADER >= 1 /\ \A i \in 1 .. Len(buf) : buf[i] \in Cell
  BY <1>1, Header, LenProperties, ElementOfSeq
<1>3. Len(buf) >= HEADER
  BY <1>2 DEF available_packet_length
<1>4. PICK n \in parse_length(buf) : len = HEADER + n /\ Len(buf) - HEADER >= n
  BY <1>3 DEF available_packet_length
<1>5. Cardinality(Devices) \in Nat
  BY AdbAssumption, FS_CardinalityType
<1>6. n \in Nat /\ SubSeq(buf, 1, HEADER) = Length(n)
  BY <1>5 DEF parse_length
<1>7. len \in Nat /\ len <= Len(buf) /\ HEADER <= len
  BY <1>2, <1>4, <1>6
<1>8. buf[1] = <<"length", n, 1>>
  <2>1. SubSeq(buf, 1, HEADER)[1] = buf[1]
    BY <1>1, <1>2, <1>3, SubSeqProperties
  <2>2. Length(n)[1] = <<"length", n, 1>>
    BY <1>2 DEF Length
  <2> QED BY <1>6, <2>1, <2>2
<1>9. PICK lost \in Seq(Cell) : /\ (buf \o stream) \o lost = << >> \o Sent
                                /\ ended = "no" => lost = << >>
  BY DEF Flow
<1> DEFINE c == stream \o lost
<1>10. c \in Seq(Cell) /\ buf \o c = Sent
  <2>1. (buf \o stream) \o lost = buf \o (stream \o lost)
    <3>1. Groups(buf, stream, lost)
      BY <1>1, <1>9, Grouped
    <3> QED BY <3>1 DEF Groups
  <2>2. << >> \o Sent = Sent
    BY <1>1, ConcatEmptySeq
  <2> QED BY <1>1, <1>9, <2>1, <2>2, ConcatProperties
<1> HIDE DEF c
<1>11. Len(Sent) = Len(buf) + Len(c) /\ Len(c) \in Nat
  BY <1>1, <1>10, ConcatProperties, LenProperties
<1>12. inflight # << >>
  <2> SUFFICES ASSUME inflight = << >> PROVE FALSE
    OBVIOUS
  <2>1. Sent = << >>
    BY SentFirst DEF Sent
  <2>2. Len(Sent) = 0
    BY <2>1
  <2>3. Len(buf) >= 1
    BY <1>2, <1>3
  <2>4. Len(Sent) >= 1
    <3> DEFINE l == Len(Sent)
    <3>1. l = Len(buf) + Len(c) /\ Len(c) \in Nat
      BY <1>11
    <3> HIDE DEF l
    <3>2. l >= 1
      BY <1>2, <2>3, <3>1
    <3> QED BY <3>2 DEF l
  <2> QED BY <2>2, <2>4
<1> DEFINE list == Head(inflight)
           q == Packet(list)
           t == FlattenSeq(Packets(Tail(inflight)))
<1>13. list \in Lists /\ Tail(inflight) \in Seq(Lists) /\ Sent = q \o t /\ t \in Seq(Cell)
  <2>1. /\ list \in Lists /\ Tail(inflight) \in Seq(Lists) /\ Packets(inflight) # << >>
        /\ Head(Packets(inflight)) = q
        /\ Tail(Packets(inflight)) = Packets(Tail(inflight))
    BY <1>1, <1>12, PacketsTail
  <2>2. Packets(inflight) \in Seq(Seq(Data)) /\ Packets(Tail(inflight)) \in Seq(Seq(Data))
    BY <1>1, <2>1, PacketsAre
  <2>3. FlattenSeq(Packets(inflight))
          = Head(Packets(inflight)) \o FlattenSeq(Tail(Packets(inflight)))
    BY <2>1, <2>2, FlattenCons
  <2>4. t \in Seq(Data)
    BY <2>2, FlattenWhole
  <2> HIDE DEF t, q
  <2>5. t \in Seq(Cell)
    BY <2>4, ListsAre, SeqMonotonic
  <2>6. Sent = q \o t
    BY <2>1, <2>3 DEF Sent, t
  <2> QED BY <2>1, <2>5, <2>6
<1>14. list \in Seq(Data)
  BY <1>13, ListsAre
<1> HIDE DEF list
<1>15. /\ q \in Seq(Data) /\ Len(q) = HEADER + Len(list) /\ Len(list) \in Nat
       /\ \A i \in 1 .. HEADER : q[i] = <<"length", Len(list), i>>
       /\ \A i \in 1 .. Len(list) : q[HEADER + i] = list[i]
  BY <1>14, PacketIs
<1> HIDE DEF q, t
<1>16. q \in Seq(Cell) /\ Len(t) \in Nat /\ buf \o c = q \o t
  BY <1>10, <1>13, <1>15, ListsAre, SeqMonotonic, LenProperties
<1>17. ASSUME NEW i \in 1 .. Len(buf), i <= Len(q) PROVE buf[i] = q[i]
  <2>1. i \in 1 .. Len(buf) + Len(c) /\ i <= Len(buf) /\ i \in 1 .. Len(q) + Len(t)
    BY <1>2, <1>11, <1>15, <1>16, <1>17
  <2>2. (buf \o c)[i] = buf[i]
    BY <1>1, <1>10, <2>1, ConcatProperties
  <2>3. (q \o t)[i] = q[i]
    BY <1>13, <1>16, <1>17, <2>1, ConcatProperties
  <2> QED BY <1>16, <2>2, <2>3
<1>18. n = Len(list) /\ len = Len(q)
  <2>1. 1 \in 1 .. Len(buf) /\ 1 <= Len(q) /\ 1 \in 1 .. HEADER
    BY <1>2, <1>3, <1>15
  <2>2. <<"length", n, 1>> = <<"length", Len(list), 1>>
    BY <1>8, <1>15, <1>17, <2>1
  <2>3. n = Len(list)
    BY <2>2
  <2> QED BY <1>4, <1>15, <2>3
<1>19. SubSeq(buf, HEADER + 1, len) = list
  <2> DEFINE u == SubSeq(buf, HEADER + 1, len)
  <2>1. \A i \in HEADER + 1 .. len : buf[i] \in Cell
    BY <1>2, <1>7
  <2>2. /\ u \in Seq(Cell) /\ Len(u) = len - HEADER
        /\ \A i \in 1 .. len - HEADER : u[i] = buf[HEADER + i]
    <3>1. HEADER + 1 \in Int /\ len \in Int /\ len >= HEADER
      BY <1>2, <1>7
    <3> QED BY <1>1, <1>2, <1>7, <2>1, <3>1, SubSeqProperties
  <2> HIDE DEF u
  <2>3. Len(u) = Len(list)
    BY <1>4, <1>6, <1>2, <1>18, <2>2
  <2>4. ASSUME NEW i \in 1 .. Len(u) PROVE u[i] = list[i]
    <3>1. i \in 1 .. len - HEADER /\ i \in 1 .. Len(list) /\ HEADER + i \in 1 .. Len(buf)
          /\ HEADER + i <= Len(q)
      BY <1>2, <1>7, <1>15, <1>18, <2>2, <2>3
    <3>2. u[i] = buf[HEADER + i] /\ buf[HEADER + i] = q[HEADER + i]
      BY <1>17, <2>2, <3>1
    <3> QED BY <1>15, <3>1, <3>2
  <2>5. list \in Seq(Cell)
    BY <1>14, ListsAre, SeqMonotonic
  <2>6. u = list
    BY <2>2, <2>3, <2>4, <2>5, SeqEqual
  <2> QED BY <2>6 DEF u
<1>20. SubSeq(buf, len + 1, Len(buf)) \o c = t
  <2>1. After(buf, q) \o c = t
    <3>1. Len(q) <= Len(buf)
      BY <1>7, <1>18
    <3>2. buf \in Seq(Cell) /\ c \in Seq(Cell) /\ q \in Seq(Cell) /\ t \in Seq(Cell)
      BY <1>1, <1>10, <1>13, <1>16
    <3>3. buf \o c = q \o t
      BY <1>16
    <3> QED BY <3>1, <3>2, <3>3, SplitAt
  <2> QED BY <1>18, <2>1 DEF After
<1> QED BY <1>7, <1>9, <1>12, <1>19, <1>20 DEF list, t, c

\* next_packet() and handle_packet() take the first list in flight, whole.
LEMMA PacketStreams ==
  ASSUME Streams, pc = "packets", NEW n \in 0 .. Len(stream), next_packet(n)
  PROVE  /\ Streams' /\ pc' # "panic"
         /\ \/ UNCHANGED <<inflight, connected_devices, starts>>
            \/ inflight' = << >> /\ UNCHANGED <<connected_devices, starts>>
            \/ inflight # << >> /\ inflight' = Tail(inflight) /\ handle_packet(Head(inflight))
<1>1. /\ Flow(<< >>) /\ StreamTypes /\ buf \in Seq(Cell) /\ stream \in Seq(Cell)
      /\ inflight \in Seq(Lists) /\ << >> \in Seq(Cell) /\ << >> \in Seq(Lists)
  BY EmptySeq DEF Streams, StreamTypes
<1>2. CASE read_from(n)
  <2>1. StreamTypes' /\ Flow(<< >>)'
    BY <1>1, <1>2, FlowRead, FlowReadKept
  <2>2. UNCHANGED <<pc, inflight, connected_devices, starts>>
    BY <1>2 DEF read_from
  <2> QED BY <2>1, <2>2 DEF Streams
<1>3. CASE fail
  <2>1. /\ pc' = "repair" /\ stream' = << >> /\ inflight' = << >> /\ buf' = buf
        /\ UNCHANGED <<connected_devices, starts>>
    BY <1>3 DEF fail, drop_stream
  <2>2. Leftover(buf)
    <3> SUFFICES ASSUME NEW i \in Nat, i % HEADER = 0, i + HEADER <= Len(buf)
                 PROVE  buf[i + 1] # <<"OKAY", 1>>
      BY DEF Leftover
    <3>1. /\ Len(buf) \in Nat /\ Len(Sent) \in Nat /\ Len(buf) <= Len(<< >>) + Len(Sent)
          /\ \A j \in 1 .. Len(buf) :
               buf[j] = IF j <= Len(<< >>) THEN << >>[j] ELSE Sent[j - Len(<< >>)]
      BY <1>1, FlowCells
    <3>2. i + 1 \in 1 .. Len(buf) /\ ~(i + 1 <= 0) /\ (i + 1) - 0 = i + 1 /\ i + 1 \in 1 .. Len(Sent)
      BY <3>1, Header
    <3>3. buf[i + 1] = Sent[i + 1]
      BY <3>1, <3>2
    <3>4. Sent[i + 1] \in Data
      BY <1>1, <3>2, SentIs, ElementOfSeq
    <3> QED BY <3>3, <3>4, DataIs
  <2> QED BY <1>1, <2>1, <2>2 DEF Streams, StreamTypes
<1>4. ASSUME NEW len \in available_packet_length(buf), len # -1,
             IF len > Len(buf)
               THEN pc' = "panic" /\ UNCHANGED <<buf, connected_devices, starts, stream,
                                                 ended, inflight, stale>>
               ELSE /\ handle_packet(SubSeq(buf, HEADER + 1, len))
                    /\ buf' = SubSeq(buf, len + 1, Len(buf))
                    /\ inflight' = Tail(inflight)
                    /\ UNCHANGED <<pc, stream, ended, stale>>
      PROVE  /\ Streams' /\ pc' # "panic"
             /\ inflight # << >> /\ inflight' = Tail(inflight) /\ handle_packet(Head(inflight))
  <2>1. /\ inflight # << >> /\ len \in Nat /\ len <= Len(buf)
        /\ SubSeq(buf, HEADER + 1, len) = Head(inflight)
    BY <1>1, <1>4, FirstPacket
  <2>2. PICK lost \in Seq(Cell) :
              /\ SubSeq(buf, len + 1, Len(buf)) \o (stream \o lost)
                   = FlattenSeq(Packets(Tail(inflight)))
              /\ ended = "no" => lost = << >>
    BY <1>1, <1>4, FirstPacket
  <2>3. Len(buf) \in Nat
    BY <1>1, LenProperties
  <2>4. /\ handle_packet(Head(inflight)) /\ buf' = SubSeq(buf, len + 1, Len(buf))
        /\ inflight' = Tail(inflight) /\ UNCHANGED <<pc, stream, ended>>
    <3>1. ~(len > Len(buf))
      BY <2>1, <2>3
    <3>2. /\ handle_packet(SubSeq(buf, HEADER + 1, len))
          /\ buf' = SubSeq(buf, len + 1, Len(buf))
          /\ inflight' = Tail(inflight) /\ UNCHANGED <<pc, stream, ended>>
      BY <1>4, <3>1
    <3> QED BY <2>1, <3>2 DEF handle_packet
  <2>5. buf' \in Seq(Cell)
    <3>1. len \in 0 .. Len(buf)
      BY <2>1, <2>3
    <3> QED BY <1>1, <2>4, <3>1, CutAt
  <2>6. inflight' \in Seq(Lists)
    BY <1>1, <2>1, <2>4, HeadTailProperties
  <2>7. (buf' \o stream) \o lost = buf' \o (stream \o lost)
    <3>1. Groups(buf', stream, lost)
      BY <1>1, <2>2, <2>5, Grouped
    <3> QED BY <3>1 DEF Groups
  <2>8. Sent' \in Seq(Cell) /\ Sent' = FlattenSeq(Packets(Tail(inflight)))
    <3>1. Packets(inflight') \in Seq(Seq(Data))
      BY <2>6, PacketsAre
    <3>2. Sent' \in Seq(Data)
      BY <3>1, FlattenWhole DEF Sent
    <3>3. Sent' \in Seq(Cell)
      BY <3>2, ListsAre, SeqMonotonic
    <3> QED BY <2>4, <3>3 DEF Sent
  <2>9. << >> \o Sent' = Sent'
    BY <2>8, ConcatEmptySeq
  <2>10. (buf' \o stream') \o lost = << >> \o Sent'
    BY <2>2, <2>4, <2>7, <2>8, <2>9
  <2>11. Flow(<< >>)'
    BY <2>2, <2>4, <2>10 DEF Flow
  <2> QED BY <1>1, <2>1, <2>4, <2>5, <2>6, <2>11 DEF Streams, StreamTypes
<1> QED BY <1>2, <1>3, <1>4 DEF next_packet

-----------------------------------------------------------------------------
(***************************************************************************)
(* How often a device can still appear.                                    *)
(***************************************************************************)

\* There are numbers that start at t or above, never fall, grow where S begins, and
\* end at m.
Fits(L, S, t, m) ==
  \E b \in [0 .. L + 1 -> Nat] :
    /\ t <= b[0] /\ b[L + 1] = m
    /\ \A i, j \in 0 .. L + 1 : i < j => b[i] <= b[j] /\ (i \notin S /\ j \in S => b[i] < b[j])

\* Where the lists the monitor goes through have d connected: 0 is the list it handled
\* last, then come those in flight, and the end is what is true now.
Seen(d, known, lists, online) ==
  {i \in 0 .. Len(lists) + 1 :
     \/ i = 0 /\ d \in known
     \/ i \in 1 .. Len(lists) /\ d \in parse_connected_devices(lists[i])
     \/ i = Len(lists) + 1 /\ d \in online}

Threads(s) == s["check"] + s["install"] + s["tunnel"] + s["start"]

\* The threads of d never outnumber its appearances in the lists, which never outnumber
\* the changes.
Budget(d) == Fits(Len(inflight), Seen(d, connected_devices, inflight, Online),
                  Threads(starts[d]), changes + 1)

\* A thread beyond the installation has a device with the client.
Counts == /\ starts \in [Devices -> [Step -> Nat]]
          /\ \A d \in Devices : /\ Budget(d)
                                /\ starts[d]["tunnel"] > 0 \/ starts[d]["start"] > 0 => d \in installed

\* One more change makes room for any end.
LEMMA FitsMore ==
  ASSUME NEW L \in Nat, NEW S, NEW R, NEW t \in Nat, NEW m \in Nat, Fits(L, S, t, m),
         \A i \in 0 .. L : i \in R <=> i \in S
  PROVE  Fits(L, R, t, m + 1)
<1>1. PICK b \in [0 .. L + 1 -> Nat] :
        /\ t <= b[0] /\ b[L + 1] = m
        /\ \A i, j \in 0 .. L + 1 : i < j => b[i] <= b[j] /\ (i \notin S /\ j \in S => b[i] < b[j])
  BY DEF Fits
<1> DEFINE c == [i \in 0 .. L + 1 |-> IF i = L + 1 THEN m + 1 ELSE b[i]]
<1>2. c \in [0 .. L + 1 -> Nat] /\ c[0] = b[0] /\ c[L + 1] = m + 1
      /\ \A i \in 0 .. L : c[i] = b[i]
  BY <1>1
<1> HIDE DEF c
<1>3. ASSUME NEW i \in 0 .. L + 1, NEW j \in 0 .. L + 1, i < j
      PROVE  c[i] <= c[j] /\ (i \notin R /\ j \in R => c[i] < c[j])
  <2>1. i \in 0 .. L /\ c[i] = b[i] /\ b[i] \in Nat
    BY <1>1, <1>2, <1>3
  <2>2. CASE j = L + 1
    <3>1. b[i] <= m
      BY <1>1, <1>3, <2>2
    <3> QED BY <1>2, <2>1, <2>2, <3>1
  <2>3. CASE j # L + 1
    <3>1. j \in 0 .. L /\ c[j] = b[j]
      BY <1>2, <2>3
    <3> QED BY <1>1, <1>3, <2>1, <3>1
  <2> QED BY <2>2, <2>3
<1>4. t <= c[0]
  BY <1>1, <1>2
<1> QED BY <1>2, <1>3, <1>4, Zenon DEF Fits

\* Some of the numbers, in their order, do for as much of S.
LEMMA FitsMap ==
  ASSUME NEW L \in Nat, NEW M \in Nat, NEW S, NEW R, NEW t \in Nat, NEW u \in Nat, NEW m \in Nat,
         Fits(L, S, t, m), NEW f \in [0 .. M + 1 -> 0 .. L + 1], f[M + 1] = L + 1,
         \A i, j \in 0 .. M + 1 : i < j => f[i] <= f[j],
         \A i \in 0 .. M + 1 : i \in R <=> f[i] \in S,
         u <= t \/ (u <= t + 1 /\ 0 \notin S /\ f[0] \in S)
  PROVE  Fits(M, R, u, m)
<1>1. PICK b \in [0 .. L + 1 -> Nat] :
        /\ t <= b[0] /\ b[L + 1] = m
        /\ \A i, j \in 0 .. L + 1 : i < j => b[i] <= b[j] /\ (i \notin S /\ j \in S => b[i] < b[j])
  BY DEF Fits
<1> DEFINE c == [i \in 0 .. M + 1 |-> b[f[i]]]
<1>2. c \in [0 .. M + 1 -> Nat] /\ \A i \in 0 .. M + 1 : c[i] = b[f[i]]
  BY <1>1
<1> HIDE DEF c
<1>3. ASSUME NEW i \in 0 .. M + 1, NEW j \in 0 .. M + 1, i < j
      PROVE  c[i] <= c[j] /\ (i \notin R /\ j \in R => c[i] < c[j])
  <2>1. /\ f[i] \in 0 .. L + 1 /\ f[j] \in 0 .. L + 1 /\ f[i] <= f[j]
        /\ c[i] = b[f[i]] /\ c[j] = b[f[j]] /\ b[f[i]] \in Nat
        /\ i \in R <=> f[i] \in S
        /\ j \in R <=> f[j] \in S
    BY <1>1, <1>2, <1>3
  <2>2. CASE f[i] = f[j]
    BY <2>1, <2>2
  <2>3. CASE f[i] < f[j]
    <3>1. b[f[i]] <= b[f[j]] /\ (f[i] \notin S /\ f[j] \in S => b[f[i]] < b[f[j]])
      BY <1>1, <2>1, <2>3
    <3> QED BY <2>1, <3>1
  <2> QED BY <2>1, <2>2, <2>3
<1>4. u <= c[0]
  <2>1. /\ 0 \in 0 .. M + 1 /\ 0 \in 0 .. L + 1 /\ f[0] \in 0 .. L + 1 /\ c[0] = b[f[0]]
        /\ b[0] \in Nat /\ b[f[0]] \in Nat /\ t <= b[0]
    BY <1>1, <1>2
  <2>2. CASE f[0] = 0
    BY <2>1, <2>2
  <2>3. CASE f[0] # 0
    <3>1. b[0] <= b[f[0]] /\ (0 \notin S /\ f[0] \in S => b[0] < b[f[0]])
      <4>1. 0 < f[0]
        BY <2>1, <2>3
      <4> QED BY <1>1, <2>1, <4>1
    <3> QED BY <2>1, <3>1
  <2> QED BY <2>2, <2>3
<1>5. c[M + 1] = m
  BY <1>1, <1>2
<1> QED BY <1>2, <1>3, <1>4, <1>5, Zenon DEF Fits

\* What fits is never more than the end.
LEMMA FitsBound ==
  ASSUME NEW L \in Nat, NEW S, NEW t \in Nat, NEW m \in Nat, Fits(L, S, t, m)
  PROVE  t <= m
<1>1. PICK b \in [0 .. L + 1 -> Nat] :
        /\ t <= b[0] /\ b[L + 1] = m
        /\ \A i, j \in 0 .. L + 1 : i < j => b[i] <= b[j] /\ (i \notin S /\ j \in S => b[i] < b[j])
  BY DEF Fits
<1>2. b[0] <= b[L + 1] /\ b[0] \in Nat
  BY <1>1
<1> QED BY <1>1, <1>2

LEMMA SeenIs ==
  ASSUME NEW d, NEW known, NEW lists \in Seq(Lists), NEW online
  PROVE  /\ Len(lists) \in Nat
         /\ 0 \in Seen(d, known, lists, online) <=> d \in known
         /\ \A i \in 1 .. Len(lists) :
              i \in Seen(d, known, lists, online) <=> d \in parse_connected_devices(lists[i])
         /\ Len(lists) + 1 \in Seen(d, known, lists, online) <=> d \in online
<1>1. Len(lists) \in Nat
  BY LenProperties
<1> QED BY <1>1 DEF Seen

\* What is left when d has fewer threads.
LEMMA RoomKept ==
  ASSUME NEW L \in Nat, NEW S, NEW t \in Nat, NEW u \in Nat, NEW m \in Nat, Fits(L, S, t, m), u <= t
  PROVE  Fits(L, S, u, m)
<1> DEFINE f == [i \in 0 .. L + 1 |-> i]
<1>1. /\ f \in [0 .. L + 1 -> 0 .. L + 1] /\ f[L + 1] = L + 1
      /\ \A i, j \in 0 .. L + 1 : i < j => f[i] <= f[j]
      /\ \A i \in 0 .. L + 1 : i \in S <=> f[i] \in S
  OBVIOUS
<1> HIDE DEF f
<1> QED BY <1>1, FitsMap

\* A change is another end, which the server may have sent as one more list.
LEMMA RoomChange ==
  ASSUME NEW d, NEW known, NEW lists \in Seq(Lists), NEW online, NEW now, NEW t \in Nat, NEW m \in Nat,
         Fits(Len(lists), Seen(d, known, lists, online), t, m)
  PROVE  Fits(Len(lists), Seen(d, known, lists, now), t, m + 1)
<1> DEFINE S == Seen(d, known, lists, online)
           R == Seen(d, known, lists, now)
<1>1. Len(lists) \in Nat
  BY SeenIs
<1>2. \A i \in 0 .. Len(lists) : i \in R <=> i \in S
  BY <1>1 DEF Seen
<1> HIDE DEF S, R
<1>3. Fits(Len(lists), S, t, m)
  BY DEF S
<1>4. Fits(Len(lists), R, t, m + 1)
  BY <1>1, <1>2, <1>3, FitsMore
<1> QED BY <1>4 DEF R

LEMMA RoomAppend ==
  ASSUME NEW d, NEW known, NEW lists \in Seq(Lists), NEW online, NEW now, NEW t \in Nat, NEW m \in Nat,
         Fits(Len(lists), Seen(d, known, lists, online), t, m),
         NEW e \in Lists, d \in parse_connected_devices(e) <=> d \in now
  PROVE  Fits(Len(Append(lists, e)), Seen(d, known, Append(lists, e), now), t, m + 1)
<1> DEFINE L == Len(lists)
           more == Append(lists, e)
           S == Seen(d, known, lists, now)
           R == Seen(d, known, more, now)
           f == [i \in 0 .. L + 2 |-> IF i = L + 2 THEN L + 1 ELSE i]
<1>1. /\ more \in Seq(Lists) /\ Len(more) = L + 1 /\ more[L + 1] = e
      /\ \A i \in 1 .. L : more[i] = lists[i]
  BY AppendProperties
<1>2. L \in Nat
  BY LenProperties
<1> HIDE DEF more
<1>3. /\ 0 \in S <=> d \in known
      /\ \A i \in 1 .. L : i \in S <=> d \in parse_connected_devices(lists[i])
      /\ L + 1 \in S <=> d \in now
  BY SeenIs
<1>4. /\ 0 \in R <=> d \in known
      /\ \A i \in 1 .. L + 1 : i \in R <=> d \in parse_connected_devices(more[i])
      /\ L + 1 + 1 \in R <=> d \in now
  BY <1>1, SeenIs
<1>5. Fits(L, S, t, m + 1)
  BY RoomChange
<1> HIDE DEF S, R, L
<1>6. /\ f \in [0 .. (L + 1) + 1 -> 0 .. L + 1] /\ f[(L + 1) + 1] = L + 1
      /\ \A i, j \in 0 .. (L + 1) + 1 : i < j => f[i] <= f[j]
      /\ f[0] = 0 /\ f[L + 2] = L + 1 /\ \A i \in 1 .. L + 1 : f[i] = i
  BY <1>2
<1> HIDE DEF f
<1>7. ASSUME NEW i \in 0 .. (L + 1) + 1 PROVE i \in R <=> f[i] \in S
  <2>1. CASE i = 0
    BY <1>3, <1>4, <1>6, <2>1
  <2>2. CASE i \in 1 .. L
    <3>1. i \in 1 .. L + 1
      BY <1>2, <2>2
    <3> QED BY <1>1, <1>3, <1>4, <1>6, <2>2, <3>1
  <2>3. CASE i = L + 1
    <3>1. L + 1 \in 1 .. L + 1
      BY <1>2
    <3> QED BY <1>1, <1>3, <1>4, <1>6, <2>3, <3>1
  <2>4. CASE i = (L + 1) + 1
    <3>1. L + 1 + 1 = L + 2
      BY <1>2
    <3> QED BY <1>3, <1>4, <1>6, <2>4, <3>1
  <2> QED BY <1>2, <2>1, <2>2, <2>3, <2>4
<1> DEFINE M == L + 1
           k == m + 1
<1>8. /\ M \in Nat /\ k \in Nat /\ Fits(L, S, t, k)
      /\ f \in [0 .. M + 1 -> 0 .. L + 1] /\ f[M + 1] = L + 1
      /\ \A i, j \in 0 .. M + 1 : i < j => f[i] <= f[j]
      /\ \A i \in 0 .. M + 1 : i \in R <=> f[i] \in S
  BY <1>2, <1>5, <1>6, <1>7
<1>9. Fits(L + 1, R, t, m + 1)
  <2>1. Fits(M, R, t, k)
    <3> HIDE DEF M, k
    <3>1. t <= t
      OBVIOUS
    <3> QED BY <1>2, <1>8, <3>1, FitsMap
  <2> QED BY <2>1
<1> QED BY <1>1, <1>9 DEF R, more

\* The lists of a connection that is dropped are skipped.
LEMMA RoomClear ==
  ASSUME NEW d, NEW known, NEW lists \in Seq(Lists), NEW online, NEW t \in Nat, NEW m \in Nat,
         Fits(Len(lists), Seen(d, known, lists, online), t, m)
  PROVE  Fits(Len(<< >>), Seen(d, known, << >>, online), t, m)
<1> DEFINE L == Len(lists)
           S == Seen(d, known, lists, online)
           R == Seen(d, known, << >>, online)
           f == [i \in 0 .. 0 + 1 |-> IF i = 0 THEN 0 ELSE L + 1]
<1>1. /\ L \in Nat
      /\ 0 \in S <=> d \in known
      /\ L + 1 \in S <=> d \in online
  BY SeenIs
<1>2. << >> \in Seq(Lists) /\ Len(<< >>) = 0
  OBVIOUS
<1>3. /\ 0 \in R <=> d \in known
      /\ 0 + 1 \in R <=> d \in online
  BY <1>2, SeenIs
<1>4. Fits(L, S, t, m)
  OBVIOUS
<1> HIDE DEF S, R, L
<1>5. /\ f \in [0 .. 0 + 1 -> 0 .. L + 1] /\ f[0 + 1] = L + 1 /\ f[0] = 0
      /\ \A i, j \in 0 .. 0 + 1 : i < j => f[i] <= f[j]
  BY <1>1
<1> HIDE DEF f
<1>6. ASSUME NEW i \in 0 .. 0 + 1 PROVE i \in R <=> f[i] \in S
  <2>1. i = 0 \/ i = 0 + 1
    OBVIOUS
  <2> QED BY <1>1, <1>3, <1>5, <2>1
<1> DEFINE M == 0
<1>7. M \in Nat /\ M + 1 = 0 + 1
  OBVIOUS
<1>8. Fits(M, R, t, m)
  <2> HIDE DEF M
  <2>1. /\ f \in [0 .. M + 1 -> 0 .. L + 1] /\ f[M + 1] = L + 1
        /\ \A i, j \in 0 .. M + 1 : i < j => f[i] <= f[j]
        /\ \A i \in 0 .. M + 1 : i \in R <=> f[i] \in S
    BY <1>5, <1>6, <1>7, Zenon
  <2> QED BY <1>1, <1>4, <1>7, <2>1, FitsMap
<1> QED BY <1>2, <1>8 DEF R

\* The first list of a connection is what is true now.
LEMMA RoomTrack ==
  ASSUME NEW d, NEW known, NEW lists \in Seq(Lists), NEW online, NEW t \in Nat, NEW m \in Nat,
         Fits(Len(lists), Seen(d, known, lists, online), t, m),
         NEW e \in Lists, d \in parse_connected_devices(e) <=> d \in online
  PROVE  Fits(Len(<<e>>), Seen(d, known, <<e>>, online), t, m)
<1> DEFINE one == <<e>>
           L == Len(lists)
           S == Seen(d, known, lists, online)
           R == Seen(d, known, one, online)
           f == [i \in 0 .. 1 + 1 |-> IF i = 0 THEN 0 ELSE L + 1]
<1>1. /\ L \in Nat
      /\ 0 \in S <=> d \in known
      /\ L + 1 \in S <=> d \in online
  BY SeenIs
<1>2. one \in Seq(Lists) /\ Len(one) = 1 /\ one[1] = e
  OBVIOUS
<1>3. /\ 0 \in R <=> d \in known
      /\ 1 \in R <=> d \in online
      /\ 1 + 1 \in R <=> d \in online
  <2> HIDE DEF one
  <2>1. /\ 0 \in R <=> d \in known
        /\ \A i \in 1 .. Len(one) : i \in R <=> d \in parse_connected_devices(one[i])
        /\ Len(one) + 1 \in R <=> d \in online
    BY <1>2, SeenIs
  <2> QED BY <1>2, <2>1
<1>4. Fits(L, S, t, m)
  OBVIOUS
<1> HIDE DEF S, R, L
<1>5. /\ f \in [0 .. 1 + 1 -> 0 .. L + 1] /\ f[1 + 1] = L + 1 /\ f[0] = 0 /\ f[1] = L + 1
      /\ \A i, j \in 0 .. 1 + 1 : i < j => f[i] <= f[j]
  BY <1>1
<1> HIDE DEF f
<1>6. ASSUME NEW i \in 0 .. 1 + 1 PROVE i \in R <=> f[i] \in S
  <2>1. i = 0 \/ i = 1 \/ i = 1 + 1
    OBVIOUS
  <2> QED BY <1>1, <1>3, <1>5, <2>1
<1> DEFINE M == 1
<1>7. M \in Nat /\ M + 1 = 1 + 1
  OBVIOUS
<1>8. Fits(M, R, t, m)
  <2> HIDE DEF M
  <2>1. /\ f \in [0 .. M + 1 -> 0 .. L + 1] /\ f[M + 1] = L + 1
        /\ \A i, j \in 0 .. M + 1 : i < j => f[i] <= f[j]
        /\ \A i \in 0 .. M + 1 : i \in R <=> f[i] \in S
    BY <1>5, <1>6, <1>7, Zenon
  <2>2. M \in Nat /\ L \in Nat /\ t <= t
    BY <1>1, <1>7
  <2> QED BY <1>4, <2>1, <2>2, FitsMap
<1> QED BY <1>2, <1>8 DEF R

\* A list that is handled makes the threads of the devices that appear in it.
LEMMA RoomTail ==
  ASSUME NEW d, NEW known, NEW lists \in Seq(Lists), NEW online, NEW t \in Nat, NEW u \in Nat,
         NEW m \in Nat, Fits(Len(lists), Seen(d, known, lists, online), t, m), lists # << >>,
         u <= t \/ (u <= t + 1 /\ d \notin known /\ d \in parse_connected_devices(Head(lists)))
  PROVE  Fits(Len(Tail(lists)),
              Seen(d, parse_connected_devices(Head(lists)), Tail(lists), online), u, m)
<1> DEFINE L == Len(lists)
           M == Len(Tail(lists))
           S == Seen(d, known, lists, online)
           R == Seen(d, parse_connected_devices(Head(lists)), Tail(lists), online)
           f == [i \in 0 .. M + 1 |-> i + 1]
<1>1. /\ Tail(lists) \in Seq(Lists) /\ Len(Tail(lists)) = Len(lists) - 1 /\ Head(lists) = lists[1]
      /\ \A i \in 1 .. Len(Tail(lists)) : Tail(lists)[i] = lists[i + 1]
  BY HeadTailProperties
<1>2. M \in Nat /\ L = M + 1
  <2>1. Len(lists) \in Nat /\ Len(Tail(lists)) \in Nat
    BY <1>1, LenProperties
  <2> QED BY <1>1, <2>1
<1>3. /\ 0 \in S <=> d \in known
      /\ \A i \in 1 .. L : i \in S <=> d \in parse_connected_devices(lists[i])
      /\ L + 1 \in S <=> d \in online
  BY SeenIs
<1>4. /\ 0 \in R <=> d \in parse_connected_devices(lists[1])
      /\ \A i \in 1 .. M : i \in R <=> d \in parse_connected_devices(lists[i + 1])
      /\ M + 1 \in R <=> d \in online
  <2> DEFINE tail == Tail(lists)
             head == parse_connected_devices(Head(lists))
  <2>1. /\ tail \in Seq(Lists) /\ M = Len(tail) /\ head = parse_connected_devices(lists[1])
        /\ R = Seen(d, head, tail, online) /\ \A i \in 1 .. M : tail[i] = lists[i + 1]
    BY <1>1
  <2> HIDE DEF tail, head, M, R
  <2>2. /\ 0 \in Seen(d, head, tail, online) <=> d \in head
        /\ \A i \in 1 .. Len(tail) :
             i \in Seen(d, head, tail, online) <=> d \in parse_connected_devices(tail[i])
        /\ Len(tail) + 1 \in Seen(d, head, tail, online) <=> d \in online
    <3>1. Len(tail) \in Nat
      BY <2>1, LenProperties
    <3> QED BY <3>1 DEF Seen
  <2> QED BY <2>1, <2>2
<1>5. Fits(L, S, t, m)
  OBVIOUS
<1> HIDE DEF S, R, L, M
<1>6. /\ f \in [0 .. M + 1 -> 0 .. L + 1] /\ f[M + 1] = L + 1
      /\ \A i, j \in 0 .. M + 1 : i < j => f[i] <= f[j]
      /\ \A i \in 0 .. M + 1 : f[i] = i + 1
  BY <1>2
<1> HIDE DEF f
<1>7. ASSUME NEW i \in 0 .. M + 1 PROVE i \in R <=> f[i] \in S
  <2>1. CASE i = 0
    <3>1. f[i] = 1 /\ 1 \in 1 .. L
      BY <1>2, <1>6, <2>1
    <3> QED BY <1>3, <1>4, <2>1, <3>1
  <2>2. CASE i \in 1 .. M
    <3>1. f[i] = i + 1 /\ i + 1 \in 1 .. L
      BY <1>2, <1>6, <2>2
    <3> QED BY <1>3, <1>4, <2>2, <3>1
  <2>3. CASE i = M + 1
    <3>1. f[i] = L + 1
      BY <1>6, <2>3
    <3> QED BY <1>3, <1>4, <2>3, <3>1
  <2> QED BY <1>2, <2>1, <2>2, <2>3
<1>8. u <= t \/ (u <= t + 1 /\ 0 \notin S /\ f[0] \in S)
  <2>1. f[0] = 1 /\ 1 \in 1 .. L
    BY <1>2, <1>6
  <2> QED BY <1>1, <1>3, <2>1
<1>9. Fits(M, R, u, m)
  <2>1. L \in Nat
    BY <1>2
  <2> QED BY <1>2, <1>5, <1>6, <1>7, <1>8, <2>1, FitsMap
<1> QED BY <1>9 DEF M, R

-----------------------------------------------------------------------------
(***************************************************************************)
(* Every step keeps the types and the counts.                              *)
(***************************************************************************)
Types == /\ attached \in [Devices -> State]
         /\ up \in BOOLEAN /\ stale \in BOOLEAN
         /\ ended \in {"no", "eof", "reset"}
         /\ pc \in {"connect", "status", "packets", "repair"}
         /\ Len(buf) <= BUFFER_SIZE /\ connected_devices \subseteq Devices
         /\ installed \subseteq Devices /\ tunnel \subseteq Online
         /\ running \subseteq installed /\ failed \subseteq Devices
         /\ changes \in 0 .. MaxChanges /\ crashes \in 0 .. MaxFaults

\* What every reachable state satisfies: the types, the order of the streams, and enough
\* room for every thread that a list in flight can still start.
IInv == Types /\ Streams /\ Counts

LEMMA ThreadsAre == ASSUME NEW s \in [Step -> Nat] PROVE Threads(s) \in Nat
BY DEF Threads, Step

LEMMA OnlineIs ==
  ASSUME NEW att \in [Devices -> State]
  PROVE  parse_connected_devices(DeviceList(att)) = {d \in Devices : att[d] = "device"}
BY ListIs

\* The terms of a budget.
LEMMA BudgetIs ==
  ASSUME IInv, NEW d \in Devices
  PROVE  /\ inflight \in Seq(Lists) /\ changes + 1 \in Nat
         /\ starts[d] \in [Step -> Nat] /\ Threads(starts[d]) \in Nat
         /\ Fits(Len(inflight), Seen(d, connected_devices, inflight, Online),
                 Threads(starts[d]), changes + 1)
<1>1. starts[d] \in [Step -> Nat]
  BY DEF IInv, Counts
<1>2. Threads(starts[d]) \in Nat
  BY <1>1, ThreadsAre
<1>3. inflight \in Seq(Lists) /\ changes + 1 \in Nat
  <2>1. inflight \in Seq(Lists)
    BY DEF IInv, Streams, StreamTypes
  <2>2. changes \in 0 .. MaxChanges /\ MaxChanges \in Nat
    BY AdbAssumption DEF IInv, Types
  <2> QED BY <2>1, <2>2
<1> QED BY <1>1, <1>2, <1>3 DEF IInv, Counts, Budget

\* A step of the server or of the monitor that starts no thread and handles no list.
LEMMA CountsKept ==
  ASSUME IInv, UNCHANGED <<connected_devices, starts, attached, changes, installed>>,
         \/ inflight' = inflight
         \/ inflight' = << >>
         \/ inflight' = <<DeviceList(attached)>>
  PROVE  Counts'
<1>1. ASSUME NEW d \in Devices PROVE Budget(d)'
  <2>1. /\ inflight \in Seq(Lists) /\ changes + 1 \in Nat /\ Threads(starts[d]) \in Nat
        /\ Fits(Len(inflight), Seen(d, connected_devices, inflight, Online),
                Threads(starts[d]), changes + 1)
    BY BudgetIs
  <2>2. Online' = Online
    BY DEF Online
  <2> DEFINE t == Threads(starts[d])
             m == changes + 1
  <2> HIDE DEF t, m
  <2>3. t \in Nat /\ m \in Nat /\ Fits(Len(inflight), Seen(d, connected_devices, inflight, Online), t, m)
    BY <2>1 DEF t, m
  <2>4. Fits(Len(inflight'), Seen(d, connected_devices, inflight', Online), t, m)
    <3>1. CASE inflight' = inflight
      BY <2>3, <3>1
    <3>2. CASE inflight' = << >>
      <4>1. Fits(Len(<< >>), Seen(d, connected_devices, << >>, Online), t, m)
        BY <2>1, <2>3, RoomClear
      <4> QED BY <3>2, <4>1
    <3>3. CASE inflight' = <<DeviceList(attached)>>
      <4> DEFINE e == DeviceList(attached)
      <4>1. attached \in [Devices -> State]
        BY DEF IInv, Types
      <4>2. e \in Lists /\ (d \in parse_connected_devices(e) <=> d \in Online)
        BY <4>1, OnlineIs DEF Lists, Online
      <4> HIDE DEF e
      <4>3. Fits(Len(<<e>>), Seen(d, connected_devices, <<e>>, Online), t, m)
        BY <2>1, <2>3, <4>2, RoomTrack
      <4> QED BY <3>3, <4>3 DEF e
    <3> QED BY <3>1, <3>2, <3>3
  <2> QED BY <2>2, <2>4 DEF Budget, t, m
<1> QED BY <1>1 DEF IInv, Counts

LEMMA ChangeKeeps ==
  ASSUME IInv, NEW d \in Devices, NEW state \in State, Change(d, state)
  PROVE  IInv'
<1>1. attached \in [Devices -> State] /\ changes \in 0 .. MaxChanges /\ MaxChanges \in Nat
  BY AdbAssumption DEF IInv, Types
<1>2. /\ attached' = [attached EXCEPT ![d] = state] /\ changes' = changes + 1
      /\ changes < MaxChanges /\ tunnel' = tunnel \ {d}
      /\ UNCHANGED <<up, ended, pc, buf, connected_devices, starts, installed, running,
                     stale, failed, crashes>>
      /\ \/ inflight' = inflight
         \/ inflight' = Append(inflight, DeviceList(attached'))
  BY DEF Change, history_vars
<1>3. attached' \in [Devices -> State]
  BY <1>1, <1>2
<1>4. Types'
  <2>1. tunnel' \subseteq Online'
    BY <1>1, <1>2 DEF IInv, Types, Online
  <2>2. changes' \in 0 .. MaxChanges
    BY <1>1, <1>2
  <2> QED BY <1>2, <1>3, <2>1, <2>2 DEF IInv, Types
<1>5. Streams'
  BY <1>3, ChangeStreams DEF IInv
<1>6. ASSUME NEW x \in Devices PROVE Budget(x)'
  <2> DEFINE t == Threads(starts[x])
             m == changes + 1
             now == Online'
             e == DeviceList(attached')
  <2>1. /\ inflight \in Seq(Lists) /\ m \in Nat /\ t \in Nat
        /\ Fits(Len(inflight), Seen(x, connected_devices, inflight, Online), t, m)
    BY BudgetIs
  <2>2. e \in Lists /\ (x \in parse_connected_devices(e) <=> x \in now)
    BY <1>3, OnlineIs DEF Lists, Online
  <2>3. Fits(Len(inflight'), Seen(x, connected_devices, inflight', now), t, m + 1)
    <3> HIDE DEF t, m, now, e
    <3>1. CASE inflight' = inflight
      <4>1. Fits(Len(inflight), Seen(x, connected_devices, inflight, now), t, m + 1)
        BY <2>1, RoomChange
      <4> QED BY <3>1, <4>1
    <3>2. CASE inflight' = Append(inflight, e)
      <4>1. Fits(Len(Append(inflight, e)), Seen(x, connected_devices, Append(inflight, e), now),
                 t, m + 1)
        BY <2>1, <2>2, RoomAppend
      <4> QED BY <3>2, <4>1
    <3> QED BY <1>2, <3>1, <3>2 DEF e
  <2> QED BY <1>2, <2>3 DEF Budget
<1>7. Counts'
  BY <1>2, <1>6 DEF IInv, Counts
<1> QED BY <1>4, <1>5, <1>7 DEF IInv

LEMMA CrashKeeps ==
  ASSUME IInv, NEW n \in 0 .. Len(stream), NEW how \in {"eof", "reset"}, Crash(n, how)
  PROVE  IInv'
<1>1. /\ crashes + Cardinality(failed) < MaxFaults /\ crashes' = crashes + 1
      /\ up' = FALSE /\ tunnel' = {} /\ ended' \in {ended, how}
      /\ UNCHANGED <<attached, changes, pc, buf, connected_devices, starts, installed, running,
                     inflight, stale, failed>>
  BY DEF Crash, device_vars
<1>2. Types'
  <2>1. Cardinality(failed) \in Nat
    <3>1. IsFiniteSet(failed)
      BY AdbAssumption, FS_Subset DEF IInv, Types
    <3> QED BY <3>1, FS_CardinalityType
  <2>2. crashes \in 0 .. MaxFaults /\ MaxFaults \in Nat
    BY AdbAssumption DEF IInv, Types
  <2>3. crashes' \in 0 .. MaxFaults
    BY <1>1, <2>1, <2>2
  <2> QED BY <1>1, <2>3 DEF IInv, Types, Online
<1>3. Streams'
  BY CrashStreams DEF IInv
<1>4. Counts'
  BY <1>1, CountsKept
<1> QED BY <1>2, <1>3, <1>4 DEF IInv

LEMMA TrackKeeps ==
  ASSUME IInv, NEW status \in Mark, track_devices(status)
  PROVE  IInv'
<1>1. /\ pc' \in {"status", "repair"}
      /\ \/ ended' \in {"no", "eof"}
         \/ ended' = ended
      /\ \/ inflight' = inflight
         \/ inflight' = << >>
         \/ inflight' = <<DeviceList(attached)>>
      /\ UNCHANGED <<attached, changes, up, buf, connected_devices, starts, installed, tunnel,
                     running, stale, failed, crashes>>
  BY DEF track_devices, device_vars, start_vars, history_vars
<1>2. Types'
  BY <1>1 DEF IInv, Types, Online
<1>3. Streams'
  BY TrackStreams DEF IInv, Types
<1>4. Counts'
  BY <1>1, CountsKept
<1> QED BY <1>2, <1>3, <1>4 DEF IInv

LEMMA RepairKeeps ==
  ASSUME IInv, NEW ok \in BOOLEAN, repair_adb_daemon(ok)
  PROVE  IInv'
<1>1. /\ pc = "repair" /\ pc' = "connect" /\ up' \in BOOLEAN
      /\ UNCHANGED <<attached, changes, stream, ended, buf, connected_devices, starts, installed,
                     tunnel, running, inflight, stale, failed, crashes>>
  <2>1. up \in BOOLEAN
    BY DEF IInv, Types
  <2> QED BY <2>1, Zenon DEF repair_adb_daemon, device_vars, start_vars, history_vars
<1>2. Types'
  BY <1>1 DEF IInv, Types, Online
<1>3. Streams'
  BY <1>1 DEF IInv, Streams, StreamTypes, Leftover
<1>4. Counts'
  BY <1>1, CountsKept
<1> QED BY <1>2, <1>3, <1>4 DEF IInv

\* What a round of the monitor does to the size of the buffer and to the flags.
LEMMA StatusFits ==
  ASSUME IInv, pc = "status", NEW n \in 0 .. Len(stream), consume_okay(n)
  PROVE  /\ Len(buf') <= BUFFER_SIZE /\ stale' \in BOOLEAN
         /\ pc' \in {"connect", "status", "packets", "repair"} /\ ended' \in {"no", ended}
         /\ inflight' \in {inflight, << >>} /\ UNCHANGED <<connected_devices, starts>>
<1>1. /\ StreamTypes /\ buf \in Seq(Cell) /\ Len(buf) <= BUFFER_SIZE /\ stale \in BOOLEAN
      /\ Len(buf) \in Nat /\ HEADER \in Nat /\ BUFFER_SIZE \in Nat
  BY Header, LenProperties DEF IInv, Types, Streams, StreamTypes
<1>2. CASE read_from(n)
  <2>1. Len(buf') = Len(buf) + n
    BY <1>1, <1>2, FlowRead
  <2> QED BY <1>1, <1>2, <2>1 DEF read_from
<1>3. CASE fail
  <2>1. stale' \in BOOLEAN
    BY <1>1, <1>3, Zenon DEF fail
  <2> QED BY <1>1, <1>3, <2>1 DEF fail, drop_stream
<1>4. CASE /\ Len(buf) >= HEADER
           /\ buf' = SubSeq(buf, HEADER + 1, Len(buf))
           /\ IF SubSeq(buf, 1, HEADER) = Status("OKAY")
                THEN pc' = "packets" /\ UNCHANGED <<stream, ended, inflight, stale>>
                ELSE drop_stream("connect") /\ stale' = (stale \/ buf' # << >>)
           /\ UNCHANGED <<connected_devices, starts>>
  <2>1. Len(buf') = Len(buf) - HEADER
    <3>1. HEADER \in 0 .. Len(buf)
      BY <1>1, <1>4
    <3> QED BY <1>1, <1>4, <3>1, CutAt
  <2>2. stale' \in BOOLEAN
    BY <1>1, <1>4, Zenon
  <2>3. Len(buf') <= BUFFER_SIZE
    BY <1>1, <1>4, <2>1
  <2> QED BY <1>4, <2>2, <2>3 DEF drop_stream
<1> QED BY <1>2, <1>3, <1>4 DEF consume_okay

LEMMA PacketFits ==
  ASSUME IInv, pc = "packets", NEW n \in 0 .. Len(stream), next_packet(n)
  PROVE  /\ Len(buf') <= BUFFER_SIZE /\ stale' \in BOOLEAN
         /\ pc' \in {"packets", "repair", "panic"} /\ ended' \in {"no", ended}
<1>1. /\ StreamTypes /\ buf \in Seq(Cell) /\ Len(buf) <= BUFFER_SIZE /\ stale \in BOOLEAN
      /\ Len(buf) \in Nat /\ BUFFER_SIZE \in Nat /\ Flow(<< >>)
  BY Header, LenProperties DEF IInv, Types, Streams, StreamTypes
<1>2. CASE read_from(n)
  <2>1. Len(buf') = Len(buf) + n
    BY <1>1, <1>2, FlowRead
  <2> QED BY <1>1, <1>2, <2>1 DEF read_from
<1>3. CASE fail
  <2>1. stale' \in BOOLEAN
    BY <1>1, <1>3, Zenon DEF fail
  <2> QED BY <1>1, <1>3, <2>1 DEF fail, drop_stream
<1>4. ASSUME NEW len \in available_packet_length(buf), len # -1,
             IF len > Len(buf)
               THEN pc' = "panic" /\ UNCHANGED <<buf, connected_devices, starts, stream,
                                                 ended, inflight, stale>>
               ELSE /\ handle_packet(SubSeq(buf, HEADER + 1, len))
                    /\ buf' = SubSeq(buf, len + 1, Len(buf))
                    /\ inflight' = Tail(inflight)
                    /\ UNCHANGED <<pc, stream, ended, stale>>
      PROVE  /\ Len(buf') <= BUFFER_SIZE /\ stale' = stale /\ ended' = ended
             /\ pc' \in {"packets", "panic"}
  <2>1. len \in Nat /\ len <= Len(buf)
    BY <1>1, <1>4, FirstPacket
  <2>2. /\ buf' = SubSeq(buf, len + 1, Len(buf)) /\ UNCHANGED <<pc, ended, stale>>
    BY <1>1, <1>4, <2>1
  <2>3. Len(buf') = Len(buf) - len
    <3>1. len \in 0 .. Len(buf)
      BY <1>1, <2>1
    <3> QED BY <1>1, <2>2, <3>1, CutAt
  <2> QED BY <1>1, <2>1, <2>2, <2>3
<1> QED BY <1>1, <1>2, <1>3, <1>4 DEF next_packet

LEMMA StatusKeeps == ASSUME IInv, ConsumeOkay PROVE IInv'
<1>1. PICK n \in 0 .. Len(stream) :
        /\ pc = "status" /\ consume_okay(n)
        /\ UNCHANGED <<device_vars, up, installed, tunnel, running, failed, crashes>>
  BY DEF ConsumeOkay
<1>2. /\ Len(buf') <= BUFFER_SIZE /\ stale' \in BOOLEAN
      /\ pc' \in {"connect", "status", "packets", "repair"} /\ ended' \in {"no", ended}
      /\ inflight' \in {inflight, << >>} /\ UNCHANGED <<connected_devices, starts>>
  BY <1>1, StatusFits
<1>3. UNCHANGED <<attached, changes, up, installed, tunnel, running, failed, crashes>>
  BY <1>1 DEF device_vars
<1>4. Types'
  BY <1>2, <1>3 DEF IInv, Types, Online
<1>5. Streams'
  BY <1>1, StatusStreams DEF IInv
<1>6. Counts'
  BY <1>2, <1>3, CountsKept
<1> QED BY <1>4, <1>5, <1>6 DEF IInv

\* A list that is handled starts one thread for each device that appears in it.
LEMMA CountsHandled ==
  ASSUME IInv, inflight # << >>, inflight' = Tail(inflight), handle_packet(Head(inflight)),
         UNCHANGED <<attached, changes, installed>>
  PROVE  Counts' /\ connected_devices' \subseteq Devices
<1> DEFINE current == parse_connected_devices(Head(inflight))
<1>1. /\ starts' = [d \in Devices |-> IF d \in current \ connected_devices
                                        THEN async_start(starts[d]) ELSE starts[d]]
      /\ connected_devices' = current
  BY DEF handle_packet
<1>2. current \subseteq Devices
  BY DEF parse_connected_devices
<1>3. starts \in [Devices -> [Step -> Nat]]
  BY DEF IInv, Counts
<1> HIDE DEF current
<1>4. ASSUME NEW d \in Devices
      PROVE  /\ starts'[d] \in [Step -> Nat]
             /\ \A step \in Step \ {"check"} : starts'[d][step] = starts[d][step]
             /\ \/ Threads(starts'[d]) <= Threads(starts[d])
                \/ /\ Threads(starts'[d]) <= Threads(starts[d]) + 1
                   /\ d \notin connected_devices /\ d \in current
  <2>1. starts[d] \in [Step -> Nat] /\ Threads(starts[d]) \in Nat /\ "check" \in Step
    BY <1>3, ThreadsAre DEF Step
  <2>2. CASE d \in current \ connected_devices
    <3>1. starts'[d] = [starts[d] EXCEPT !["check"] = @ + 1]
      BY <1>1, <2>2 DEF async_start
    <3>2. /\ starts'[d] \in [Step -> Nat] /\ starts'[d]["check"] = starts[d]["check"] + 1
          /\ \A step \in Step \ {"check"} : starts'[d][step] = starts[d][step]
      BY <2>1, <3>1
    <3>3. Threads(starts'[d]) = Threads(starts[d]) + 1
      BY <2>1, <3>2 DEF Threads, Step
    <3> QED BY <2>1, <2>2, <3>2, <3>3
  <2>3. CASE d \notin current \ connected_devices
    <3>1. starts'[d] = starts[d]
      BY <1>1, <2>3
    <3> QED BY <2>1, <3>1
  <2> QED BY <2>2, <2>3
<1>5. starts' \in [Devices -> [Step -> Nat]]
  <2>1. DOMAIN starts' = Devices /\ starts' = [d \in Devices |-> starts'[d]]
    BY <1>1
  <2> QED BY <1>4, <2>1
<1>6. ASSUME NEW d \in Devices PROVE Budget(d)'
  <2> DEFINE t == Threads(starts[d])
             u == Threads(starts'[d])
             m == changes + 1
  <2>1. /\ inflight \in Seq(Lists) /\ m \in Nat /\ t \in Nat
        /\ Fits(Len(inflight), Seen(d, connected_devices, inflight, Online), t, m)
    BY BudgetIs
  <2>2. u \in Nat /\ (u <= t \/ (u <= t + 1 /\ d \notin connected_devices /\ d \in current))
    BY <1>4, ThreadsAre
  <2>3. Fits(Len(Tail(inflight)), Seen(d, current, Tail(inflight), Online), u, m)
    <3> HIDE DEF t, u, m
    <3> QED BY <2>1, <2>2, RoomTail DEF current
  <2>4. Online' = Online
    BY DEF Online
  <2> QED BY <1>1, <2>3, <2>4 DEF Budget
<1>7. ASSUME NEW d \in Devices, starts'[d]["tunnel"] > 0 \/ starts'[d]["start"] > 0
      PROVE  d \in installed'
  <2>1. starts[d]["tunnel"] > 0 \/ starts[d]["start"] > 0
    BY <1>4, <1>7 DEF Step
  <2> QED BY <2>1 DEF IInv, Counts
<1> QED BY <1>1, <1>2, <1>5, <1>6, <1>7 DEF Counts

LEMMA PacketKeeps == ASSUME IInv, NextPacket PROVE IInv'
<1>1. PICK n \in 0 .. Len(stream) :
        /\ pc = "packets" /\ next_packet(n)
        /\ UNCHANGED <<device_vars, up, installed, tunnel, running, failed, crashes>>
  BY DEF NextPacket
<1>2. /\ Len(buf') <= BUFFER_SIZE /\ stale' \in BOOLEAN
      /\ pc' \in {"packets", "repair", "panic"} /\ ended' \in {"no", ended}
  BY <1>1, PacketFits
<1>3. UNCHANGED <<attached, changes, up, installed, tunnel, running, failed, crashes>>
  BY <1>1 DEF device_vars
<1>4. /\ Streams' /\ pc' # "panic"
      /\ \/ UNCHANGED <<inflight, connected_devices, starts>>
         \/ inflight' = << >> /\ UNCHANGED <<connected_devices, starts>>
         \/ inflight # << >> /\ inflight' = Tail(inflight) /\ handle_packet(Head(inflight))
  BY <1>1, PacketStreams DEF IInv
<1>5. Counts' /\ connected_devices' \subseteq Devices
  <2>1. CASE inflight # << >> /\ inflight' = Tail(inflight) /\ handle_packet(Head(inflight))
    BY <1>3, <2>1, CountsHandled
  <2>2. CASE inflight' \in {inflight, << >>} /\ UNCHANGED <<connected_devices, starts>>
    BY <1>3, <2>2, CountsKept DEF IInv, Types
  <2> QED BY <1>4, <2>1, <2>2
<1>6. Types'
  BY <1>2, <1>3, <1>4, <1>5 DEF IInv, Types, Online
<1> QED BY <1>4, <1>5, <1>6 DEF IInv

\* One thread less at a step of d.
LEMMA ThreadEnds ==
  ASSUME NEW s \in [Devices -> [Step -> Nat]], NEW d \in Devices, NEW step \in Step, s[d][step] > 0
  PROVE  LET z == [s EXCEPT ![d][step] = @ - 1]
         IN  /\ z \in [Devices -> [Step -> Nat]] /\ Threads(z[d]) <= Threads(s[d])
             /\ \A x \in Devices \ {d} : z[x] = s[x]
             /\ \A k \in Step : z[d][k] <= s[d][k]
<1> DEFINE z == [s EXCEPT ![d][step] = @ - 1]
           w == [s[d] EXCEPT ![step] = @ - 1]
<1>1. w \in [Step -> Nat] /\ \A k \in Step : w[k] <= s[d][k] /\ w[k] \in Nat /\ s[d][k] \in Nat
  OBVIOUS
<1>2. z = [s EXCEPT ![d] = w]
  OBVIOUS
<1> HIDE DEF w, z
<1>3. z \in [Devices -> [Step -> Nat]] /\ z[d] = w /\ \A x \in Devices \ {d} : z[x] = s[x]
  BY <1>1, <1>2
<1>4. Threads(w) <= Threads(s[d])
  BY <1>1 DEF Threads, Step
<1> QED BY <1>1, <1>3, <1>4 DEF z

\* A thread of d moves to another step.
LEMMA ThreadMoves ==
  ASSUME NEW s \in [Devices -> [Step -> Nat]], NEW d \in Devices, NEW step \in Step, s[d][step] > 0,
         NEW next \in Step \ {step}
  PROVE  LET z == [s EXCEPT ![d][step] = @ - 1, ![d][next] = @ + 1]
         IN  /\ z \in [Devices -> [Step -> Nat]] /\ Threads(z[d]) <= Threads(s[d])
             /\ \A x \in Devices \ {d} : z[x] = s[x]
<1> DEFINE z == [s EXCEPT ![d][step] = @ - 1, ![d][next] = @ + 1]
           w == [s[d] EXCEPT ![step] = @ - 1, ![next] = @ + 1]
<1>1. w \in [Step -> Nat]
  OBVIOUS
<1>2. /\ w[step] = s[d][step] - 1 /\ w[next] = s[d][next] + 1
      /\ \A k \in Step \ {step, next} : w[k] = s[d][k]
      /\ \A k \in Step : w[k] \in Nat /\ s[d][k] \in Nat
  OBVIOUS
<1>3. z = [s EXCEPT ![d] = w]
  OBVIOUS
<1> HIDE DEF w, z
<1>4. z \in [Devices -> [Step -> Nat]] /\ z[d] = w /\ \A x \in Devices \ {d} : z[x] = s[x]
  BY <1>1, <1>3
<1>5. Threads(w) <= Threads(s[d])
  BY <1>2 DEF Threads, Step
<1> QED BY <1>4, <1>5 DEF z

\* What a step of a start thread does to the threads, and to the client.
LEMMA StartSteps ==
  ASSUME IInv, NEW d \in Devices, NEW step \in Step, NEW ok \in BOOLEAN, starts[d][step] > 0,
         cmd_start(d, step, ok)
  PROVE  /\ starts' \in [Devices -> [Step -> Nat]] /\ Threads(starts'[d]) <= Threads(starts[d])
         /\ \A x \in Devices \ {d} : starts'[x] = starts[x]
         /\ installed' \in {installed, installed \cup {d}}
         /\ starts'[d]["tunnel"] > 0 \/ starts'[d]["start"] > 0 => d \in installed'
         /\ running' \subseteq installed'
         /\ tunnel' = tunnel \/ (tunnel' = tunnel \cup {d} /\ d \in Online)
<1>1. /\ starts \in [Devices -> [Step -> Nat]] /\ running \subseteq installed
      /\ starts[d]["tunnel"] > 0 \/ starts[d]["start"] > 0 => d \in installed
  BY DEF IInv, Types, Counts
<1>2. ok => d \in Online
  BY DEF cmd_start, exec_adb
<1>3. \A k \in {"check", "install", "tunnel", "start"} : k \in Step
  BY DEF Step
<1> DEFINE ends == [starts EXCEPT ![d][step] = @ - 1]
           Moved(next) == [starts EXCEPT ![d][step] = @ - 1, ![d][next] = @ + 1]
<1>4. /\ ends \in [Devices -> [Step -> Nat]] /\ Threads(ends[d]) <= Threads(starts[d])
      /\ \A x \in Devices \ {d} : ends[x] = starts[x]
      /\ \A k \in Step : ends[d][k] <= starts[d][k]
  BY <1>1, ThreadEnds
<1>5. ASSUME NEW next \in Step \ {step}
      PROVE  /\ Moved(next) \in [Devices -> [Step -> Nat]]
             /\ Threads(Moved(next)[d]) <= Threads(starts[d])
             /\ \A x \in Devices \ {d} : Moved(next)[x] = starts[x]
  BY <1>1, ThreadMoves
<1>6. \A k \in Step : ends[d][k] \in Nat /\ starts[d][k] \in Nat
  BY <1>1, <1>4
<1>7. CASE starts' = ends /\ UNCHANGED <<installed, tunnel, running>>
  <2>1. starts'[d]["tunnel"] > 0 \/ starts'[d]["start"] > 0 => d \in installed
    <3> HIDE DEF ends
    <3> QED BY <1>1, <1>3, <1>4, <1>6, <1>7
  <2> HIDE DEF ends
  <2> QED BY <1>1, <1>4, <1>7, <2>1
<1>8. CASE /\ step = "check"
           /\ starts' = Moved(IF must_install_client(d) THEN "install" ELSE "tunnel")
           /\ UNCHANGED <<installed, tunnel, running>>
  <2> DEFINE next == IF must_install_client(d) THEN "install" ELSE "tunnel"
  <2>1. next \in Step \ {step}
    BY <1>3, <1>8
  <2>2. starts'[d]["tunnel"] > 0 \/ starts'[d]["start"] > 0 => d \in installed
    <3>1. CASE d \in installed
      BY <3>1
    <3>2. CASE d \notin installed
      <4>1. starts' = Moved("install")
        BY <1>8, <3>2 DEF must_install_client
      <4>2. starts'[d]["tunnel"] = starts[d]["tunnel"] /\ starts'[d]["start"] = starts[d]["start"]
        BY <1>1, <1>3, <1>8, <4>1
      <4> QED BY <1>1, <4>2
    <3> QED BY <3>1, <3>2
  <2>3. /\ starts' \in [Devices -> [Step -> Nat]] /\ Threads(starts'[d]) <= Threads(starts[d])
        /\ \A x \in Devices \ {d} : starts'[x] = starts[x]
    <3>1. starts' = Moved(next)
      BY <1>8
    <3> HIDE DEF Moved, next
    <3> QED BY <1>5, <2>1, <3>1
  <2> QED BY <1>1, <1>8, <2>2, <2>3
<1>9. CASE step = "install" /\ starts' = Moved("tunnel") /\ cmd_install(d)
  <2>1. "tunnel" \in Step \ {step}
    BY <1>3, <1>9
  <2> HIDE DEF Moved
  <2> QED BY <1>1, <1>5, <1>9, <2>1 DEF cmd_install
<1>10. CASE ok /\ step = "tunnel" /\ starts' = Moved("start") /\ cmd_tunnel(d)
  <2>1. "start" \in Step \ {step}
    BY <1>3, <1>10
  <2> HIDE DEF Moved
  <2> QED BY <1>1, <1>2, <1>5, <1>10, <2>1 DEF cmd_tunnel
<1>11. CASE /\ step = "start" /\ starts' = ends /\ running' = running \cup {d}
            /\ UNCHANGED <<installed, tunnel>>
  <2>1. d \in installed
    BY <1>1, <1>11
  <2> HIDE DEF ends
  <2> QED BY <1>1, <1>4, <1>11, <2>1
<1> HIDE DEF Moved, ends
<1> QED BY <1>7, <1>8, <1>9, <1>10, <1>11 DEF cmd_start, Moved, ends

LEMMA StartKeeps == ASSUME IInv, NEW d \in Devices, Start(d) PROVE IInv'
<1>1. PICK step \in Step, ok \in BOOLEAN :
        /\ starts[d][step] > 0 /\ cmd_start(d, step, ok)
        /\ UNCHANGED <<device_vars, stream, ended, pc, buf, connected_devices, inflight,
                       stale, crashes>>
  BY DEF Start
<1>2. UNCHANGED <<attached, changes, stream, ended, pc, buf, connected_devices, inflight,
                  stale, crashes>>
  BY <1>1 DEF device_vars
<1>3. /\ starts' \in [Devices -> [Step -> Nat]] /\ Threads(starts'[d]) <= Threads(starts[d])
      /\ \A x \in Devices \ {d} : starts'[x] = starts[x]
      /\ installed' \in {installed, installed \cup {d}}
      /\ starts'[d]["tunnel"] > 0 \/ starts'[d]["start"] > 0 => d \in installed'
      /\ running' \subseteq installed'
      /\ tunnel' = tunnel \/ (tunnel' = tunnel \cup {d} /\ d \in Online)
  BY <1>1, StartSteps
<1>4. up' = TRUE /\ failed' \in {failed, failed \cup {d}}
  BY <1>1 DEF cmd_start, exec_adb
<1>5. Types'
  <2>1. Online' = Online
    BY <1>2 DEF Online
  <2>2. tunnel' \subseteq Online'
    BY <1>3, <2>1 DEF IInv, Types
  <2>3. installed' \subseteq Devices /\ failed' \subseteq Devices
    BY <1>3, <1>4 DEF IInv, Types
  <2> QED BY <1>2, <1>3, <1>4, <2>2, <2>3 DEF IInv, Types
<1>6. Streams'
  BY <1>2, StreamsKept DEF IInv
<1>7. ASSUME NEW x \in Devices PROVE Budget(x)'
  <2> DEFINE t == Threads(starts[x])
             u == Threads(starts'[x])
             m == changes + 1
             S == Seen(x, connected_devices, inflight, Online)
  <2>1. /\ inflight \in Seq(Lists) /\ m \in Nat /\ t \in Nat /\ Fits(Len(inflight), S, t, m)
    BY BudgetIs
  <2>2. u \in Nat /\ u <= t
    <3>1. u \in Nat
      BY <1>3, ThreadsAre
    <3>2. CASE x = d
      BY <1>3, <3>1, <3>2
    <3>3. CASE x # d
      <4>1. starts'[x] = starts[x]
        BY <1>3, <3>3
      <4> QED BY <2>1, <4>1
    <3> QED BY <3>1, <3>2, <3>3
  <2>3. Fits(Len(inflight), S, u, m)
    <3>1. Len(inflight) \in Nat
      BY <2>1, LenProperties
    <3> HIDE DEF S, t, u, m
    <3> QED BY <2>1, <2>2, <3>1, RoomKept
  <2> QED BY <1>2, <2>3 DEF Budget, Online
<1>8. ASSUME NEW x \in Devices, starts'[x]["tunnel"] > 0 \/ starts'[x]["start"] > 0
      PROVE  x \in installed'
  <2>1. CASE x = d
    BY <1>3, <1>8, <2>1
  <2>2. CASE x # d
    BY <1>3, <1>8, <2>2 DEF IInv, Counts
  <2> QED BY <2>1, <2>2
<1>9. Counts'
  BY <1>3, <1>7, <1>8 DEF Counts
<1> QED BY <1>5, <1>6, <1>9 DEF IInv

LEMMA InitInv == Init => IInv
<1> SUFFICES ASSUME Init PROVE IInv
  OBVIOUS
<1>1. attached \in [Devices -> State]
  BY DEF Init, State
<1>2. << >> \in Seq(Cell) /\ << >> \in Seq(Lists) /\ Len(<< >>) = 0
  OBVIOUS
<1>3. Types
  <2>1. 0 <= BUFFER_SIZE /\ 0 \in 0 .. MaxChanges /\ 0 \in 0 .. MaxFaults
    BY AdbAssumption
  <2>2. stale \in BOOLEAN /\ up \in BOOLEAN
    BY DEF Init
  <2>3. Preinstalled \subseteq Devices
    BY AdbAssumption
  <2> QED BY <1>1, <1>2, <2>1, <2>2, <2>3 DEF Init, Types
<1>4. Streams
  <2>1. Leftover(<< >>)
    BY <1>2, Header DEF Leftover
  <2> QED BY <1>2, <2>1 DEF Init, Streams, StreamTypes
<1>5. starts = [d \in Devices |-> [step \in Step |-> 0]]
  BY DEF Init
<1>6. ASSUME NEW d \in Devices
      PROVE  /\ Budget(d) /\ starts[d]["tunnel"] = 0 /\ starts[d]["start"] = 0
  <2>1. starts[d]["tunnel"] = 0 /\ starts[d]["start"] = 0 /\ Threads(starts[d]) = 0
    BY <1>5 DEF Threads, Step
  <2>2. d \notin connected_devices /\ inflight = << >> /\ changes = 0
    BY DEF Init
  <2> DEFINE b == [i \in 0 .. 0 + 1 |-> i]
             S == Seen(d, connected_devices, << >>, Online)
  <2>3. b \in [0 .. 0 + 1 -> Nat] /\ b[0] = 0 /\ b[0 + 1] = 0 + 1
        /\ \A i, j \in 0 .. 0 + 1 : i < j => b[i] <= b[j] /\ b[i] < b[j]
    OBVIOUS
  <2> HIDE DEF b, S
  <2>4. Fits(0, S, 0, 0 + 1)
    BY <2>3 DEF Fits
  <2> QED BY <1>2, <2>1, <2>2, <2>4 DEF Budget, S
<1>7. Counts
  BY <1>5, <1>6 DEF Counts
<1> QED BY <1>3, <1>4, <1>7 DEF IInv

LEMMA StepInv == IInv /\ [Next]_vars => IInv'
<1> SUFFICES ASSUME IInv, [Next]_vars PROVE IInv'
  OBVIOUS
<1>1. ASSUME NEW d \in Devices, NEW state \in State, Change(d, state) PROVE IInv'
  BY <1>1, ChangeKeeps
<1>2. ASSUME NEW n \in 0 .. Len(stream), NEW how \in {"eof", "reset"}, Crash(n, how) PROVE IInv'
  BY <1>2, CrashKeeps
<1>3. ASSUME NEW status \in Mark, track_devices(status) PROVE IInv'
  BY <1>3, TrackKeeps
<1>4. CASE ConsumeOkay
  BY <1>4, StatusKeeps
<1>5. CASE NextPacket
  BY <1>5, PacketKeeps
<1>6. ASSUME NEW ok \in BOOLEAN, repair_adb_daemon(ok) PROVE IInv'
  BY <1>6, RepairKeeps
<1>7. ASSUME NEW d \in Devices, Start(d) PROVE IInv'
  BY <1>7, StartKeeps
<1>8. CASE UNCHANGED vars
  <2>1. UNCHANGED <<attached, up, stream, ended, pc, buf, connected_devices, starts, installed,
                    tunnel, running, inflight, stale, failed, changes, crashes>>
    BY <1>8 DEF vars
  <2>2. Types'
    BY <2>1 DEF IInv, Types, Online
  <2>3. Streams'
    BY <2>1, StreamsKept DEF IInv
  <2>4. Counts'
    BY <2>1, CountsKept
  <2> QED BY <2>2, <2>3, <2>4 DEF IInv
<1> QED BY <1>1, <1>2, <1>3, <1>4, <1>5, <1>6, <1>7, <1>8 DEF Next, Monitor, Mark, State

\* The strengthened invariant says that the monitor is in step.
LEMMA InvInStep == IInv => InStep
<1> SUFFICES ASSUME IInv PROVE InStep
  OBVIOUS
<1>1. ASSUME NEW d \in Devices, NEW step \in Step PROVE starts[d][step] \in 0 .. MaxChanges + 1
  <2>1. /\ inflight \in Seq(Lists) /\ changes + 1 \in Nat
        /\ starts[d] \in [Step -> Nat] /\ Threads(starts[d]) \in Nat
        /\ Fits(Len(inflight), Seen(d, connected_devices, inflight, Online),
                Threads(starts[d]), changes + 1)
    BY BudgetIs
  <2>2. Threads(starts[d]) <= changes + 1
    <3>1. Len(inflight) \in Nat
      BY <2>1, LenProperties
    <3> QED BY <2>1, <3>1, FitsBound
  <2>3. \A k \in Step : starts[d][k] \in Nat
    BY <2>1
  <2>4. starts[d][step] <= Threads(starts[d])
    BY <2>3 DEF Threads, Step
  <2>5. changes \in 0 .. MaxChanges /\ MaxChanges \in Nat
    BY AdbAssumption DEF IInv, Types
  <2> QED BY <2>1, <2>2, <2>3, <2>4, <2>5
<1>2. TypeOK
  <2>1. starts \in [Devices -> [Step -> 0 .. MaxChanges + 1]]
    <3>1. starts \in [Devices -> [Step -> Nat]]
      BY DEF IInv, Counts
    <3>2. \A d \in Devices : starts[d] \in [Step -> 0 .. MaxChanges + 1]
      BY <1>1, <3>1
    <3> QED BY <3>1, <3>2
  <2> QED BY <2>1 DEF IInv, Types, TypeOK, State
<1>3. pc # "panic"
  BY DEF IInv, Types
<1>4. ASSUME pc = "packets"
      PROVE  IF ended = "no" THEN buf \o stream = Sent ELSE IsPrefix(buf \o stream, Sent)
  <2>1. PICK lost \in Seq(Cell) : /\ (buf \o stream) \o lost = << >> \o Sent
                                  /\ ended = "no" => lost = << >>
    BY <1>4 DEF IInv, Streams, Flow
  <2> DEFINE read == buf \o stream
  <2>2. read \in Seq(Cell) /\ Sent \in Seq(Cell)
    <3>1. buf \in Seq(Cell) /\ stream \in Seq(Cell) /\ StreamTypes
      BY DEF IInv, Streams, StreamTypes
    <3> QED BY <3>1, SentIs, ConcatProperties DEF StreamTypes
  <2>3. read \o lost = Sent
    BY <2>1, <2>2, ConcatEmptySeq
  <2> HIDE DEF read
  <2>4. CASE ended = "no"
    <3>1. read = Sent
      BY <2>1, <2>2, <2>3, <2>4, ConcatEmptySeq
    <3> QED BY <2>4, <3>1 DEF read
  <2>5. CASE ended # "no"
    <3>1. Len(read) \in Nat /\ Len(lost) \in Nat
      BY <2>2, LenProperties
    <3>2. /\ Len(Sent) = Len(read) + Len(lost)
          /\ \A i \in 1 .. Len(read) : Sent[i] = read[i]
      BY <2>2, <2>3, <3>1, ConcatProperties
    <3>3. IsPrefix(read, Sent)
      BY <2>2, <3>1, <3>2, PrefixIs
    <3> QED BY <2>5, <3>3 DEF read
  <2> QED BY <2>4, <2>5
<1>5. Sent = FlattenSeq([i \in DOMAIN inflight |-> Packet(inflight[i])])
  BY DEF Sent, Packets
<1> QED BY <1>2, <1>3, <1>4, <1>5 DEF InStep

\* However the reads of next_packet() cut the lists, and whatever a refusal, a death of the
\* adb server or a change of a device leaves behind, the buffer and the stream hold the
\* lists of this connection from the start of one, and the monitor does not panic.
THEOREM MonitorInStep == Spec => []InStep
<1>1. Init => IInv
  BY InitInv
<1>2. IInv /\ [Next]_vars => IInv'
  BY StepInv
<1>3. IInv => InStep
  BY InvInStep
<1> QED BY <1>1, <1>2, <1>3, PTL DEF Spec
=============================================================================
