-------------------------- MODULE TcpTunnelProofs ---------------------------
(***************************************************************************)
(* The relayed TCP connection, for every value of the constants.  First    *)
(* the connection alone, whatever the device and the network do; then the  *)
(* tunnel between a device and a server: the device's stream reaches the   *)
(* server in order, only what was written is acknowledged, and the server  *)
(* stream reaches the device in its place and within its window.  Last the *)
(* buffer of the connection, which implements the bounded FIFO.            *)
(***************************************************************************)
EXTENDS TcpTunnel, StreamBuffer, Lemmas

(***************************************************************************)
(* The connection alone.                                                   *)
(***************************************************************************)
\* The sizes and the modulus are naturals, in the form the leaves cite.
LEMMA ConstantFacts ==
  /\ SeqSpace \in Nat \ {0} /\ Headers \in Nat \ {0} /\ MaxPayload \in Nat \ {0}
  /\ StreamCapacity \in Nat /\ ClientCapacity \in Nat /\ MaxWindow \in Nat
  BY ConnectionAssumption

\* A wrapped sum is a sequence number.
LEMMA WrapType ==
  ASSUME NEW a \in Int, NEW n \in Int
  PROVE  wrapping_add(a, n) \in Seqno
  BY ConstantFacts, ModRange DEF wrapping_add, Seqno

\* c and d agree on every field that sending a packet to the client leaves alone.
SameBut(c, d) ==
  /\ d.state = c.state /\ d.syn_sequence_number = c.syn_sequence_number
  /\ d.sequence_number = c.sequence_number
  /\ d.acknowledgement_number = c.acknowledgement_number
  /\ d.their_acknowledgement_number = c.their_acknowledgement_number
  /\ d.fin_sequence_number = c.fin_sequence_number
  /\ d.fin_received = c.fin_received
  /\ d.client_window = c.client_window
  /\ d.client_to_network = c.client_to_network
  /\ d.packet_for_client_length = c.packet_for_client_length
  /\ d.interests = c.interests /\ d.closed = c.closed
  /\ d.pending_packet_sources = c.pending_packet_sources
  /\ d.written = c.written /\ d.fins = c.fins

\* close() keeps the types.
LEMMA CloseType ==
  ASSUME NEW c \in Connection
  PROVE  close(c) \in Connection
  BY DEF close, Connection

\* send_to_client() keeps the types, touches only the client channel, and does not
\* panic when the packet fits.
LEMMA SendToClient ==
  ASSUME NEW c \in Connection, NEW p \in ClientPacket
  PROVE  /\ send_to_client(c, p) \in Connection
         /\ SameBut(c, send_to_client(c, p))
         /\ p.raw <= room(c) => send_to_client(c, p).panic = c.panic
         /\ send_to_client(c, p).panic \in {c.panic, "stream buffer full"}
<1>1. Append(c.channel, p) \in Seq(ClientPacket)
  BY DEF Connection
<1>2. CASE p.raw <= room(c)
  <2>1. p.raw \in Nat /\ c.used \in Int
    BY DEF ClientPacket, Connection
  <2>2. c.used + p.raw \in Int
    BY <2>1
  <2>3. send_to_client(c, p) = [c EXCEPT !.channel = Append(@, p), !.used = @ + p.raw]
    BY <1>2 DEF send_to_client
  <2>4. send_to_client(c, p) \in Connection
    BY <1>1, <2>2, <2>3, ZenonT(40) DEF Connection
  <2> QED BY <1>2, <2>3, <2>4 DEF SameBut, Connection
<1>3. CASE ~(p.raw <= room(c))
  <2>1. send_to_client(c, p) = [c EXCEPT !.panic = "stream buffer full"]
    BY <1>3 DEF send_to_client
  <2>2. "stream buffer full" \in Asserts
    BY DEF Asserts
  <2>3. send_to_client(c, p) \in Connection
    BY <2>1, <2>2, ZenonT(40) DEF Connection
  <2>4. send_to_client(c, p).panic = "stream buffer full"
    BY <2>1, ZenonT(40) DEF Connection
  <2>5. SameBut(c, send_to_client(c, p))
    BY <2>1, ZenonT(40) DEF SameBut, Connection
  <2> QED BY <1>3, <2>3, <2>4, <2>5
<1> QED BY <1>2, <1>3

\* An empty reply only touches the channel and the packetizer, and never panics:
\* the reply that does not fit is dropped.
LEMMA Reply ==
  ASSUME NEW c \in Connection, NEW flags \in SUBSET Flags
  PROVE  LET d == reply_empty_packet_to_client(c, flags)
         IN d \in Connection /\ SameBut(c, d) /\ d.panic = c.panic
<1> DEFINE p == empty_packet(c, flags)
           d == [c EXCEPT !.packetizer = IF c.packet_for_client_length = 0 THEN @ ELSE p]
<1>1. p \in ClientPacket /\ p.raw = p.total_length
  BY ConstantFacts DEF empty_packet, Connection, ClientPacket
<1>2. d \in Connection /\ SameBut(c, d) /\ d.panic = c.panic /\ room(d) = room(c)
  <2>1. (IF c.packet_for_client_length = 0 THEN c.packetizer ELSE p) \in ClientPacket
    BY <1>1 DEF Connection
  <2> HIDE DEF p
  <2> QED BY <2>1 DEF Connection, SameBut, room
<1>3. reply_empty_packet_to_client(c, flags)
        = IF p.total_length <= room(c) THEN send_to_client(d, p) ELSE d
  BY DEF reply_empty_packet_to_client
<1> HIDE DEF p, d
<1>4. send_to_client(d, p) \in Connection /\ SameBut(d, send_to_client(d, p))
       /\ (p.raw <= room(d) => send_to_client(d, p).panic = d.panic)
  BY <1>1, <1>2, SendToClient
<1> QED BY <1>1, <1>2, <1>3, <1>4 DEF SameBut

-----------------------------------------------------------------------------
(***************************************************************************)
(* What every method keeps, in the middle of a handler too: the device is  *)
(* told of what was written, and the connection is in the list of pending  *)
(* sources while it holds a packet.                                        *)
(***************************************************************************)
Count(s, l, f) == (s + 1 + l + f) % SeqSpace
Acked(c) == c.acknowledgement_number = Count(c.syn_sequence_number, Len(c.written), c.fins)
Registered(c) == c.pending_packet_sources = IF c.packet_for_client_length = 0 THEN 0 ELSE 1

Steady(c) ==
  /\ c \in Connection
  /\ c.panic # "pending packet"
  /\ c.panic = "none" => Registered(c)
  /\ c.state # "Init" => Acked(c)
  /\ c.state = "Init" => c.written = << >> /\ c.fins = 0
  /\ c.state = "SynSent" => c.written = << >>

\* d holds the same deferred packet as c, and did not go back to the start.
SamePending(c, d) == /\ d.packet_for_client_length = c.packet_for_client_length
                     /\ d.pending_packet_sources = c.pending_packet_sources
                     /\ d.panic = c.panic
                     /\ c.state # "Init" => d.state # "Init"

\* Steady depends on few of the fields.
LEMMA SteadyFrame ==
  ASSUME NEW c, NEW d, Steady(c), d \in Connection, SamePending(c, d),
         d.syn_sequence_number = c.syn_sequence_number,
         d.acknowledgement_number = c.acknowledgement_number,
         d.written = c.written, d.fins = c.fins,
         d.state = c.state \/ (c.state # "Init" /\ d.state \notin {"Init", "SynSent"})
  PROVE  Steady(d)
  BY DEF Steady, SamePending, Registered, Acked

\* close() keeps the invariant of a connection between two interest updates.
LEMMA CloseSteady ==
  ASSUME NEW c, Steady(c)
  PROVE  LET d == close(c) IN Steady(d) /\ SamePending(c, d) /\ d.closed /\ d.state = c.state
<1>0. c \in Connection
  BY DEF Steady
<1>1. close(c) \in Connection
  BY <1>0, CloseType
<1> QED BY <1>0, <1>1, SteadyFrame DEF close, Connection, SamePending

\* So does replying with an empty packet.
LEMMA ReplySteady ==
  ASSUME NEW c, Steady(c), NEW flags \in SUBSET Flags
  PROVE  LET d == reply_empty_packet_to_client(c, flags)
         IN Steady(d) /\ SamePending(c, d) /\ SameBut(c, d)
<1> DEFINE d == reply_empty_packet_to_client(c, flags)
<1>1. c \in Connection
  BY DEF Steady
<1>2. d \in Connection /\ SameBut(c, d) /\ d.panic = c.panic
  BY <1>1, Reply
<1> HIDE DEF d
<1>3. SamePending(c, d)
  BY <1>2 DEF SameBut, SamePending
<1>4. Steady(d)
  BY <1>2, <1>3, SteadyFrame DEF SameBut
<1> QED BY <1>2, <1>3, <1>4 DEF d

\* So does a reply followed by close(), the error exit of the packet handlers.
LEMMA ReplyCloseSteady ==
  ASSUME NEW c, Steady(c), NEW flags \in SUBSET Flags
  PROVE  LET d == close(reply_empty_packet_to_client(c, flags))
         IN Steady(d) /\ SamePending(c, d) /\ d.closed /\ d.state = c.state
<1> DEFINE e == reply_empty_packet_to_client(c, flags)
<1>1. Steady(e) /\ SamePending(c, e) /\ SameBut(c, e)
  BY ReplySteady
<1> HIDE DEF e
<1>2. Steady(close(e)) /\ SamePending(e, close(e)) /\ close(e).closed /\ close(e).state = e.state
  BY <1>1, CloseSteady
<1>3. SamePending(c, close(e)) /\ close(e).state = c.state
  BY <1>1, <1>2 DEF SamePending, SameBut
<1> QED BY <1>2, <1>3 DEF e

-----------------------------------------------------------------------------
(***************************************************************************)
(* The FIN of the device: what do_handle_fin() may do to the connection.    *)
(***************************************************************************)
\* d is c with an end of stream handled: nothing new to wait for.
Ended(c, d) ==
  /\ SamePending(c, d)
  /\ d.client_to_network = c.client_to_network
  /\ \/ d.closed
     \/ /\ d.closed = c.closed /\ d.interests = c.interests
        /\ \/ is_closed(d)
           \/ /\ d.state = c.state /\ d.sequence_number = c.sequence_number
              /\ d.client_window = c.client_window
              /\ d.their_acknowledgement_number = c.their_acknowledgement_number

\* Counting n more in a wrapped sum.
LEMMA WrapSum ==
  ASSUME NEW x \in Int, NEW n \in Int
  PROVE  wrapping_add(x % SeqSpace, n) = (x + n) % SeqSpace
  BY ConstantFacts, ModPlus DEF wrapping_add

\* Counting n bytes more.
LEMMA CountBytes ==
  ASSUME NEW s \in Nat, NEW l \in Nat, NEW f \in Nat, NEW n \in Nat
  PROVE  wrapping_add(Count(s, l, f), n) = Count(s, l + n, f)
<1> DEFINE x == s + 1 + l + f
<1>1. x \in Int /\ s + 1 + (l + n) + f = x + n
  OBVIOUS
<1> HIDE DEF x
<1>2. wrapping_add(x % SeqSpace, n) = (x + n) % SeqSpace
  BY <1>1, WrapSum
<1> QED BY <1>1, <1>2 DEF x, Count

\* Counting a FIN more.
LEMMA CountOne ==
  ASSUME NEW s \in Nat, NEW l \in Nat, NEW f \in Nat
  PROVE  wrapping_add(Count(s, l, f), 1) = Count(s, l, f + 1)
<1> DEFINE x == s + 1 + l + f
           one == 1
<1>1. x \in Int /\ one \in Int /\ s + 1 + l + (f + 1) = x + one
  OBVIOUS
<1> HIDE DEF x, one
<1>2. wrapping_add(x % SeqSpace, one) = (x + one) % SeqSpace
  BY <1>1, WrapSum
<1> QED BY <1>1, <1>2 DEF x, one, Count

\* count_fin() keeps the acknowledgement right, and changes nothing else.
LEMMA CountFin ==
  ASSUME NEW c, Steady(c), c.state # "Init"
  PROVE  LET d == count_fin(c)
         IN /\ Steady(d) /\ SamePending(c, d) /\ d.state = c.state
            /\ d.client_to_network = c.client_to_network
            /\ d.closed = c.closed /\ d.interests = c.interests
            /\ d.sequence_number = c.sequence_number
            /\ d.client_window = c.client_window
            /\ d.their_acknowledgement_number = c.their_acknowledgement_number
<1> DEFINE d == count_fin(c)
<1>1. c \in Connection /\ Acked(c)
  BY DEF Steady
<1>2. wrapping_add(c.acknowledgement_number, 1) \in Seqno
  <2> DEFINE one == 1
  <2>1. c.acknowledgement_number \in Int /\ one \in Int
    BY <1>1, ConstantFacts DEF Connection, Seqno
  <2> HIDE DEF one
  <2>2. wrapping_add(c.acknowledgement_number, one) \in Seqno
    BY <2>1, WrapType
  <2> QED BY <2>2 DEF one
<1>3. d \in Connection
  <2>1. c.fins + 1 \in Nat
    BY <1>1 DEF Connection
  <2> QED BY <1>1, <1>2, <2>1 DEF count_fin, Connection
<1>4. /\ d.acknowledgement_number = wrapping_add(c.acknowledgement_number, 1)
      /\ d.fins = c.fins + 1 /\ d.written = c.written /\ d.state = c.state
      /\ d.syn_sequence_number = c.syn_sequence_number
      /\ SamePending(c, d)
      /\ d.client_to_network = c.client_to_network
      /\ d.closed = c.closed /\ d.interests = c.interests
      /\ d.sequence_number = c.sequence_number
      /\ d.client_window = c.client_window
      /\ d.their_acknowledgement_number = c.their_acknowledgement_number
  BY <1>1 DEF count_fin, Connection, SamePending
<1> HIDE DEF d
<1>5. Acked(d)
  <2>1. c.syn_sequence_number \in Nat /\ Len(c.written) \in Nat /\ c.fins \in Nat
    BY <1>1, ConstantFacts DEF Connection, Seqno
  <2>2. wrapping_add(Count(c.syn_sequence_number, Len(c.written), c.fins), 1)
          = Count(c.syn_sequence_number, Len(c.written), c.fins + 1)
    BY <2>1, CountOne
  <2> QED BY <1>1, <1>4, <2>2 DEF Acked
<1>6. Steady(d)
  BY <1>1, <1>3, <1>4, <1>5 DEF Steady, SamePending, Registered
<1> QED BY <1>4, <1>6 DEF d

\* The relay sends its FIN: a packet, one sequence number, a new state.
FinSent(c, s) == [reply_empty_packet_to_client(c, {"FIN", "ACK"}) EXCEPT
                    !.fin_sequence_number = c.sequence_number,
                    !.sequence_number = wrapping_add(@, 1),
                    !.state = s]

\* Sending the FIN keeps what every method keeps.
LEMMA FinSentSteady ==
  ASSUME NEW c, Steady(c), c.state # "Init", NEW s \in TcpState \ {"Init", "SynSent"}
  PROVE  LET e == FinSent(c, s)
         IN /\ Steady(e) /\ SamePending(c, e) /\ e.state = s
            /\ e.client_to_network = c.client_to_network
            /\ e.closed = c.closed /\ e.interests = c.interests
<1> DEFINE e == FinSent(c, s)
<1> DEFINE r == reply_empty_packet_to_client(c, {"FIN", "ACK"})
<1>1. Steady(r) /\ SamePending(c, r) /\ SameBut(c, r)
  BY ReplySteady DEF Flags
<1>2. e = [r EXCEPT !.fin_sequence_number = c.sequence_number,
                    !.sequence_number = wrapping_add(r.sequence_number, 1), !.state = s]
  BY DEF FinSent
<1> HIDE DEF r, e
<1>3. c \in Connection /\ r \in Connection
  BY <1>1 DEF Steady
<1>4. c.sequence_number \in Seqno /\ r.sequence_number \in Int
  BY <1>3, ConstantFacts DEF Connection, Seqno
<1>5. wrapping_add(r.sequence_number, 1) \in Seqno
  BY <1>4, WrapType
<1> HIDE DEF Seqno
<1>6. e \in Connection
  BY <1>2, <1>3, <1>4, <1>5 DEF Connection
<1>7. /\ e.state = s /\ SamePending(r, e)
      /\ e.syn_sequence_number = r.syn_sequence_number
      /\ e.acknowledgement_number = r.acknowledgement_number
      /\ e.written = r.written /\ e.fins = r.fins
      /\ e.client_to_network = r.client_to_network
      /\ e.closed = r.closed /\ e.interests = r.interests
  BY <1>2, <1>3 DEF Connection, SamePending
<1>8. Steady(e)
  <2>1. r.state # "Init"
    BY <1>1 DEF SameBut
  <2> QED BY <1>1, <1>6, <1>7, <2>1, SteadyFrame
<1> QED BY <1>1, <1>7, <1>8 DEF SameBut, SamePending, e

\* A change of state alone, once the handshake is over or being completed.
LEMMA StateSteady ==
  ASSUME NEW c, Steady(c), c.state # "Init", NEW s \in TcpState \ {"Init", "SynSent"}
  PROVE  LET e == [c EXCEPT !.state = s]
         IN /\ Steady(e) /\ SamePending(c, e) /\ e.state = s
            /\ e.client_to_network = c.client_to_network
            /\ e.closed = c.closed /\ e.interests = c.interests
            /\ e.sequence_number = c.sequence_number
<1> DEFINE e == [c EXCEPT !.state = s]
<1>1. c \in Connection
  BY DEF Steady
<1>2. e \in Connection
  BY <1>1 DEF Connection
<1>3. /\ e.state = s /\ SamePending(c, e)
      /\ e.syn_sequence_number = c.syn_sequence_number
      /\ e.acknowledgement_number = c.acknowledgement_number
      /\ e.written = c.written /\ e.fins = c.fins
      /\ e.client_to_network = c.client_to_network
      /\ e.closed = c.closed /\ e.interests = c.interests
      /\ e.sequence_number = c.sequence_number
  BY <1>1 DEF Connection, SamePending
<1> HIDE DEF e
<1>4. Steady(e)
  BY <1>2, <1>3, SteadyFrame
<1> QED BY <1>3, <1>4 DEF e

\* do_handle_fin() counts the FIN once, and what it leaves open waits for
\* nothing it did not wait for before.
LEMMA DoHandleFin ==
  ASSUME NEW c, Steady(c), c.state # "Init"
  PROVE  Steady(do_handle_fin(c)) /\ Ended(c, do_handle_fin(c))
<1> DEFINE d == count_fin(c)
           ack == reply_empty_packet_to_client(d, {"ACK"})
<1>1. /\ Steady(d) /\ SamePending(c, d) /\ d.state = c.state
      /\ d.client_to_network = c.client_to_network
      /\ d.closed = c.closed /\ d.interests = c.interests
      /\ d.sequence_number = c.sequence_number
      /\ d.client_window = c.client_window
      /\ d.their_acknowledgement_number = c.their_acknowledgement_number
  BY CountFin
<1>2. Steady(ack) /\ SamePending(d, ack) /\ SameBut(d, ack)
  BY <1>1, ReplySteady DEF Flags
<1>3. CASE d.state = "Established"
  <2>1. do_handle_fin(c) = FinSent(d, "LastAck")
    BY <1>3 DEF do_handle_fin, FinSent
  <2> HIDE DEF d, ack
  <2>2. "LastAck" \in TcpState \ {"Init", "SynSent"}
    BY DEF TcpState
  <2>3. /\ Steady(do_handle_fin(c)) /\ SamePending(d, do_handle_fin(c))
        /\ do_handle_fin(c).state = "LastAck"
        /\ do_handle_fin(c).client_to_network = d.client_to_network
        /\ do_handle_fin(c).closed = d.closed /\ do_handle_fin(c).interests = d.interests
    BY <1>1, <2>1, <2>2, FinSentSteady
  <2> QED BY <1>1, <2>3 DEF Ended, SamePending, is_closed
<1>4. CASE d.state = "FinWait1"
  <2>1. do_handle_fin(c) = [ack EXCEPT !.state = "Closing"]
    BY <1>4 DEF do_handle_fin
  <2> HIDE DEF d, ack
  <2>2. "Closing" \in TcpState \ {"Init", "SynSent"} /\ ack.state # "Init"
    BY <1>2, <1>4 DEF TcpState, SameBut
  <2>3. LET e == [ack EXCEPT !.state = "Closing"]
         IN /\ Steady(e) /\ SamePending(ack, e) /\ e.state = "Closing"
            /\ e.client_to_network = ack.client_to_network
            /\ e.closed = ack.closed /\ e.interests = ack.interests
    BY <1>2, <2>2, StateSteady
  <2> QED BY <1>1, <1>2, <2>1, <2>3 DEF Ended, SamePending, SameBut, is_closed
<1>5. CASE d.state = "FinWait2"
  <2>1. do_handle_fin(c) = close(ack)
    BY <1>5 DEF do_handle_fin
  <2> HIDE DEF d, ack
  <2>2. Steady(close(ack)) /\ SamePending(ack, close(ack)) /\ close(ack).closed
    BY <1>2, CloseSteady
  <2>3. close(ack).client_to_network = ack.client_to_network
    BY <1>2 DEF close, Steady, Connection
  <2> QED BY <1>1, <1>2, <2>1, <2>2, <2>3 DEF Ended, SamePending, SameBut
<1>6. CASE d.state \notin {"Established", "FinWait1", "FinWait2"}
  <2>1. do_handle_fin(c) = d
    BY <1>6 DEF do_handle_fin
  <2> QED BY <1>1, <2>1 DEF Ended
<1> QED BY <1>3, <1>4, <1>5, <1>6

-----------------------------------------------------------------------------
(***************************************************************************)
(* A packet of the device.                                                 *)
(***************************************************************************)
\* Fields that no fact of Steady depends on, and the buffer of the stream.
LEMMA HandleAck ==
  ASSUME NEW c, Steady(c), c.state # "Init", NEW p \in DevicePacket
  PROVE  LET d == handle_ack(c, p)
         IN Steady(d) /\ SamePending(c, d) /\ d.state # "Init"
<1>1. c \in Connection /\ p.data \in Seq(Nat)
  BY DEF Steady, DevicePacket
<1>2. CASE c.state = "SynReceived"
  BY <1>2, StateSteady DEF handle_ack, TcpState
<1>3. CASE c.state # "SynReceived"
  <2> DEFINE d == [c EXCEPT !.client_to_network = @ \o p.data]
  <2>1. c.client_to_network \o p.data \in Seq(Nat)
    BY <1>1 DEF Connection
  <2>2. d \in Connection
    BY <1>1, <2>1 DEF Connection
  <2>3. /\ d.state = c.state /\ SamePending(c, d)
        /\ d.syn_sequence_number = c.syn_sequence_number
        /\ d.acknowledgement_number = c.acknowledgement_number
        /\ d.written = c.written /\ d.fins = c.fins
    BY <1>1 DEF Connection, SamePending
  <2>4. handle_ack(c, p) \in {c, d}
    BY <1>3 DEF handle_ack
  <2> HIDE DEF d
  <2>5. Steady(d)
    BY <2>2, <2>3, SteadyFrame
  <2> QED BY <2>3, <2>4, <2>5 DEF SamePending
<1> QED BY <1>2, <1>3

\* handle_fin() handles the FIN now or only remembers it.
LEMMA HandleFin ==
  ASSUME NEW c, Steady(c), c.state # "Init"
  PROVE  Steady(handle_fin(c)) /\ SamePending(c, handle_fin(c))
<1> DEFINE d == [c EXCEPT !.fin_received = TRUE]
<1>1. c \in Connection
  BY DEF Steady
<1>2. d \in Connection
  BY <1>1 DEF Connection
<1>3. /\ d.state = c.state /\ SamePending(c, d)
      /\ d.syn_sequence_number = c.syn_sequence_number
      /\ d.acknowledgement_number = c.acknowledgement_number
      /\ d.written = c.written /\ d.fins = c.fins
  BY <1>1 DEF Connection, SamePending
<1>4. handle_fin(c) \in {d, do_handle_fin(d)}
  BY DEF handle_fin
<1> HIDE DEF d
<1>5. Steady(d) /\ d.state # "Init"
  BY <1>2, <1>3, SteadyFrame
<1>6. Steady(do_handle_fin(d)) /\ SamePending(d, do_handle_fin(d))
  BY <1>5, DoHandleFin DEF Ended
<1> QED BY <1>3, <1>4, <1>5, <1>6 DEF SamePending

\* The acknowledgement of the relay's own FIN.
LEMMA HandleFinAck ==
  ASSUME NEW c, Steady(c)
  PROVE  Steady(handle_fin_ack(c)) /\ SamePending(c, handle_fin_ack(c))
<1>1. CASE c.state \in {"LastAck", "Closing"}
  BY <1>1, CloseSteady DEF handle_fin_ack
<1>2. CASE c.state = "FinWait1"
  BY <1>2, StateSteady DEF handle_fin_ack, TcpState
<1>3. CASE c.state \notin {"LastAck", "Closing", "FinWait1"}
  BY <1>3 DEF handle_fin_ack, SamePending
<1> QED BY <1>1, <1>2, <1>3

\* The first packet starts the count of what is acknowledged.
LEMMA HandleFirst ==
  ASSUME NEW c, Steady(c), c.state = "Init", NEW p \in DevicePacket, NEW isn \in Seqno
  PROVE  LET d == handle_first_packet(c, p, isn)
         IN Steady(d) /\ SamePending(c, d) /\ (d.closed \/ d.state # "Init")
<1>1. c \in Connection /\ c.written = << >> /\ c.fins = 0
  BY DEF Steady
<1>2. /\ p.seq \in Seqno /\ p.ack \in Seqno /\ p.window \in 0 .. MaxWindow
      /\ wrapping_add(p.seq, 1) \in Seqno
  BY ConstantFacts, WrapType DEF DevicePacket, Seqno
<1>3. CASE "SYN" \in p.flags
  <2> DEFINE d == [c EXCEPT !.acknowledgement_number = wrapping_add(p.seq, 1),
                 !.syn_sequence_number = p.seq,
                 !.sequence_number = isn, !.isn = isn,
                 !.client_window = p.window,
                 !.state = "SynSent"]
  <2>1. handle_first_packet(c, p, isn) = d
    BY <1>3 DEF handle_first_packet
  <2>2. d \in Connection
    BY <1>1, <1>2, ZenonT(40) DEF Connection, TcpState
  <2>3. /\ d.state = "SynSent" /\ SamePending(c, d)
        /\ d.syn_sequence_number = p.seq
        /\ d.acknowledgement_number = wrapping_add(p.seq, 1)
        /\ d.written = << >> /\ d.fins = 0
    BY <1>1 DEF Connection, SamePending
  <2> HIDE DEF d
  <2>4. Acked(d)
    BY <1>2, <2>3, ConstantFacts DEF Acked, Count, wrapping_add, Seqno
  <2>5. Steady(d)
    BY <2>2, <2>3, <2>4 DEF Steady, SamePending, Registered
  <2> QED BY <2>1, <2>3, <2>5
<1>4. CASE "SYN" \notin p.flags
  <2> DEFINE d == [c EXCEPT !.sequence_number = p.ack]
  <2>1. handle_first_packet(c, p, isn) = close(reply_empty_packet_to_client(d, {"RST"}))
    BY <1>4 DEF handle_first_packet
  <2>2. d \in Connection
    BY <1>1, <1>2 DEF Connection
  <2>3. /\ d.state = c.state /\ SamePending(c, d)
        /\ d.syn_sequence_number = c.syn_sequence_number
        /\ d.acknowledgement_number = c.acknowledgement_number
        /\ d.written = c.written /\ d.fins = c.fins
    BY <1>1 DEF Connection, SamePending
  <2> HIDE DEF d
  <2>4. Steady(d)
    BY <2>2, <2>3, SteadyFrame
  <2>5. LET e == close(reply_empty_packet_to_client(d, {"RST"}))
        IN Steady(e) /\ SamePending(d, e) /\ e.closed
    BY <2>4, ReplyCloseSteady DEF Flags
  <2> QED BY <2>1, <2>3, <2>5 DEF SamePending
<1> QED BY <1>3, <1>4

\* A SYN on a known connection: before the SYN-ACK it starts the count again.
LEMMA HandleDuplicateSyn ==
  ASSUME NEW c, Steady(c), c.state # "Init", NEW p \in DevicePacket
  PROVE  LET d == handle_duplicate_syn(c, p)
         IN Steady(d) /\ SamePending(c, d) /\ d.state # "Init"
<1>1. c \in Connection
  BY DEF Steady
<1>2. p.seq \in Seqno /\ wrapping_add(p.seq, 1) \in Seqno
  BY ConstantFacts, WrapType DEF DevicePacket, Seqno
<1>3. CASE c.state = "SynSent"
  <2> DEFINE d == [c EXCEPT !.syn_sequence_number = p.seq,
                 !.acknowledgement_number = wrapping_add(p.seq, 1), !.fins = 0]
  <2>1. handle_duplicate_syn(c, p) = d
    BY <1>3 DEF handle_duplicate_syn
  <2>2. d \in Connection
    BY <1>1, <1>2 DEF Connection
  <2>3. /\ d.state = "SynSent" /\ SamePending(c, d)
        /\ d.syn_sequence_number = p.seq
        /\ d.acknowledgement_number = wrapping_add(p.seq, 1)
        /\ d.written = << >> /\ d.fins = 0
    BY <1>1, <1>3 DEF Connection, SamePending, Steady
  <2> HIDE DEF d
  <2>4. Acked(d)
    BY <1>2, <2>3, ConstantFacts DEF Acked, Count, wrapping_add, Seqno
  <2>5. Steady(d)
    BY <2>2, <2>3, <2>4 DEF Steady, SamePending, Registered
  <2> QED BY <2>1, <2>3, <2>5
<1>4. CASE c.state # "SynSent"
  <2>1. handle_duplicate_syn(c, p) \in {c, close(reply_empty_packet_to_client(c, {"RST"}))}
    BY <1>4 DEF handle_duplicate_syn
  <2>2. LET e == close(reply_empty_packet_to_client(c, {"RST"}))
        IN Steady(e) /\ SamePending(c, e) /\ e.state = c.state
    BY ReplyCloseSteady DEF Flags
  <2> QED BY <2>1, <2>2 DEF SamePending
<1> QED BY <1>3, <1>4

\* The packet that was expected: window, bytes, end of stream, acknowledgement.
LEMMA HandleExpected ==
  ASSUME NEW c, Steady(c), c.state # "Init", NEW p \in DevicePacket
  PROVE  LET d == handle_expected_packet(c, p)
         IN Steady(d) /\ SamePending(c, d)
<1> DEFINE w == [c EXCEPT !.client_window = p.window, !.their_acknowledgement_number = p.ack]
           a == IF "ACK" \in p.flags THEN handle_ack(w, p) ELSE w
           f == IF "FIN" \in p.flags THEN handle_fin(a) ELSE a
<1>1. c \in Connection /\ p.window \in 0 .. MaxWindow /\ p.ack \in Seqno
  BY DEF Steady, DevicePacket
<1>2. w \in Connection
  BY <1>1 DEF Connection
<1>3. /\ w.state = c.state /\ SamePending(c, w)
      /\ w.syn_sequence_number = c.syn_sequence_number
      /\ w.acknowledgement_number = c.acknowledgement_number
      /\ w.written = c.written /\ w.fins = c.fins
  BY <1>1 DEF Connection, SamePending
<1>4. handle_expected_packet(c, p) \in {close(w), f, handle_fin_ack(f)}
  BY DEF handle_expected_packet
<1> HIDE DEF w
<1>5. Steady(w) /\ w.state # "Init"
  BY <1>2, <1>3, SteadyFrame
<1>6. Steady(a) /\ SamePending(w, a) /\ a.state # "Init"
  BY <1>5, HandleAck DEF SamePending
<1> HIDE DEF a
<1>7. Steady(f) /\ SamePending(a, f)
  BY <1>6, HandleFin DEF SamePending
<1> HIDE DEF f
<1>8. Steady(handle_fin_ack(f)) /\ SamePending(f, handle_fin_ack(f))
  BY <1>7, HandleFinAck
<1>9. Steady(close(w)) /\ SamePending(w, close(w))
  BY <1>5, CloseSteady
<1> QED BY <1>3, <1>4, <1>6, <1>7, <1>8, <1>9 DEF SamePending

\* handle_packet() as a whole.
LEMMA HandlePacket ==
  ASSUME NEW c, Steady(c), NEW p \in DevicePacket, NEW isn \in Seqno
  PROVE  LET d == handle_packet(c, p, isn)
         IN Steady(d) /\ SamePending(c, d)
<1>1. CASE c.state = "Init"
  BY <1>1, HandleFirst DEF handle_packet
<1>2. CASE c.state # "Init" /\ "SYN" \in p.flags
  BY <1>2, HandleDuplicateSyn DEF handle_packet
<1>3. CASE c.state # "Init" /\ "SYN" \notin p.flags /\ p.seq = expected_packet(c)
  BY <1>3, HandleExpected DEF handle_packet
<1>4. CASE c.state # "Init" /\ "SYN" \notin p.flags /\ p.seq # expected_packet(c)
  BY <1>4 DEF handle_packet, SamePending
<1> QED BY <1>1, <1>2, <1>3, <1>4

-----------------------------------------------------------------------------
(***************************************************************************)
(* Between two handlers the interests are up to date, and a connection     *)
(* with a deferred packet is not registered for reading.                   *)
(***************************************************************************)
Awake(c) == /\ c.state # "Init" => wanted(c) \subseteq c.interests
            /\ c.packet_for_client_length # 0 => "readable" \notin c.interests

Safe(c) == Steady(c) /\ (c.panic = "none" /\ ~c.closed => Awake(c))

\* What a connection waits for depends on these fields only.
LEMMA SameWanted ==
  ASSUME NEW c, NEW d,
         d.state = c.state, d.client_to_network = c.client_to_network,
         d.packet_for_client_length = c.packet_for_client_length,
         d.sequence_number = c.sequence_number,
         d.client_window = c.client_window,
         d.their_acknowledgement_number = c.their_acknowledgement_number
  PROVE  wanted(d) = wanted(c)
  BY DEF wanted, may_read, may_write, is_connected, is_closed, remaining_client_window

\* update_interests() makes a steady connection safe.
LEMMA UpdateInterests ==
  ASSUME NEW c, Steady(c)
  PROVE  LET d == update_interests(c)
         IN /\ Safe(d)
            /\ d.packet_for_client_length = c.packet_for_client_length
            /\ d.state = c.state
<1>1. c \in Connection
  BY DEF Steady
<1>2. CASE c.closed
  <2> DEFINE d == [c EXCEPT !.panic = "closed"]
  <2>1. update_interests(c) = d
    BY <1>2 DEF update_interests
  <2>2. d \in Connection
    BY <1>1 DEF Connection, Asserts
  <2>3. /\ d.panic = "closed" /\ d.closed
        /\ d.packet_for_client_length = c.packet_for_client_length
        /\ d.syn_sequence_number = c.syn_sequence_number
        /\ d.acknowledgement_number = c.acknowledgement_number
        /\ d.written = c.written /\ d.fins = c.fins /\ d.state = c.state
    BY <1>1, <1>2 DEF Connection
  <2> HIDE DEF d
  <2> QED BY <2>1, <2>2, <2>3 DEF Safe, Steady, Acked
<1>3. CASE ~c.closed
  <2> DEFINE d == [c EXCEPT !.interests = wanted(c)]
  <2>1. update_interests(c) = d
    BY <1>3 DEF update_interests
  <2>2. wanted(c) \in SUBSET Interest
    BY DEF wanted, Interest
  <2>3. d \in Connection
    BY <1>1, <2>2 DEF Connection
  <2>4. /\ SamePending(c, d) /\ d.state = c.state
        /\ d.syn_sequence_number = c.syn_sequence_number
        /\ d.acknowledgement_number = c.acknowledgement_number
        /\ d.written = c.written /\ d.fins = c.fins
        /\ d.interests = wanted(c)
    BY <1>1 DEF Connection, SamePending
  <2>5. wanted(d) = wanted(c)
    <3>1. /\ d.state = c.state /\ d.client_to_network = c.client_to_network
          /\ d.packet_for_client_length = c.packet_for_client_length
          /\ d.sequence_number = c.sequence_number
          /\ d.client_window = c.client_window
          /\ d.their_acknowledgement_number = c.their_acknowledgement_number
      BY <1>1 DEF Connection
    <3> HIDE DEF d
    <3> QED BY <3>1, SameWanted
  <2> HIDE DEF d
  <2>6. Steady(d)
    BY <2>3, <2>4, SteadyFrame
  <2>7. c.packet_for_client_length # 0 => "readable" \notin wanted(c)
    BY DEF wanted, may_read, Interest
  <2> QED BY <2>1, <2>4, <2>5, <2>6, <2>7 DEF Safe, Awake, SamePending
<1> QED BY <1>2, <1>3

\* send_to_network(): a packet of the device, then the interests.
LEMMA SendToNetwork ==
  ASSUME NEW c, Steady(c), NEW p \in DevicePacket, NEW isn \in Seqno
  PROVE  LET d == send_to_network(c, p, isn)
         IN /\ Safe(d)
            /\ d.packet_for_client_length = c.packet_for_client_length
            /\ c.state # "Init" => d.state # "Init"
<1> DEFINE d == handle_packet(c, p, isn)
<1>1. Steady(d) /\ SamePending(c, d)
  BY HandlePacket
<1>2. send_to_network(c, p, isn) = IF d.closed THEN d ELSE update_interests(d)
  BY DEF send_to_network
<1> HIDE DEF d
<1>3. /\ Safe(update_interests(d))
      /\ update_interests(d).packet_for_client_length = d.packet_for_client_length
      /\ update_interests(d).state = d.state
  BY <1>1, UpdateInterests
<1> QED BY <1>1, <1>2, <1>3 DEF Safe, SamePending

-----------------------------------------------------------------------------
(***************************************************************************)
(* A socket event.                                                         *)
(***************************************************************************)
\* The socket took w bytes: they are counted as acknowledged.
LEMMA WrittenToSocket ==
  ASSUME NEW c, Steady(c), c.state \notin {"Init", "SynSent"},
         NEW w \in 1 .. Len(c.client_to_network)
  PROVE  LET d == written_to_socket(c, w)
         IN /\ Steady(d) /\ SamePending(c, d) /\ d.state = c.state
            /\ c.client_to_network # << >>
            /\ d.closed = c.closed /\ d.interests = c.interests
            /\ d.sequence_number = c.sequence_number
            /\ d.client_window = c.client_window
            /\ d.their_acknowledgement_number = c.their_acknowledgement_number
<1> DEFINE d == written_to_socket(c, w)
           given == SubSeq(c.client_to_network, 1, w)
           kept == SubSeq(c.client_to_network, w + 1, Len(c.client_to_network))
<1>1. c \in Connection /\ Acked(c) /\ c.client_to_network \in Seq(Nat)
  BY DEF Steady, Connection
<1>2. w \in Nat /\ w <= Len(c.client_to_network) /\ c.client_to_network # << >>
  BY <1>1
<1>3. given \in Seq(Nat) /\ Len(given) = w /\ kept \in Seq(Nat)
  <2>1. /\ 1 \in 1 .. Len(c.client_to_network) + 1
        /\ w \in 1 - 1 .. Len(c.client_to_network)
        /\ w + 1 \in 1 .. Len(c.client_to_network) + 1
        /\ Len(c.client_to_network) \in (w + 1) - 1 .. Len(c.client_to_network)
    BY <1>1, <1>2
  <2> QED BY <1>1, <1>2, <2>1, SubSeqProperties
<1>4. c.written \o given \in Seq(Nat) /\ Len(c.written \o given) = Len(c.written) + w
  <2>1. c.written \in Seq(Nat)
    BY <1>1 DEF Connection
  <2> HIDE DEF given
  <2> QED BY <1>3, <2>1, ConcatProperties
<1>5. wrapping_add(c.acknowledgement_number, w) \in Seqno
  <2>1. \A n \in Int : wrapping_add(c.acknowledgement_number, n) \in Seqno
    <3> DEFINE a == c.acknowledgement_number
    <3>1. a \in Int
      BY <1>1, ConstantFacts DEF Connection, Seqno
    <3> HIDE DEF a
    <3>2. \A n \in Int : wrapping_add(a, n) \in Seqno
      BY <3>1, WrapType
    <3> QED BY <3>2 DEF a
  <2> QED BY <1>2, <2>1
<1>6. d = [c EXCEPT !.client_to_network = kept, !.written = c.written \o given,
                    !.acknowledgement_number = wrapping_add(c.acknowledgement_number, w)]
  BY DEF written_to_socket
<1> HIDE DEF d, given, kept
<1>7. d \in Connection
  BY <1>1, <1>3, <1>4, <1>5, <1>6 DEF Connection
<1>8. /\ d.written = c.written \o given
      /\ d.acknowledgement_number = wrapping_add(c.acknowledgement_number, w)
      /\ d.state = c.state /\ SamePending(c, d)
      /\ d.syn_sequence_number = c.syn_sequence_number /\ d.fins = c.fins
      /\ d.closed = c.closed /\ d.interests = c.interests
      /\ d.sequence_number = c.sequence_number
      /\ d.client_window = c.client_window
      /\ d.their_acknowledgement_number = c.their_acknowledgement_number
  BY <1>1, <1>6 DEF Connection, SamePending
<1>9. Acked(d)
  <2>1. c.syn_sequence_number \in Nat /\ Len(c.written) \in Nat /\ c.fins \in Nat
    BY <1>1, ConstantFacts DEF Connection, Seqno
  <2> DEFINE s == c.syn_sequence_number
             l == Len(c.written)
             f == c.fins
  <2>2. ASSUME NEW n \in Nat
        PROVE  wrapping_add(Count(s, l, f), n) = Count(s, l + n, f)
    <3> HIDE DEF s, l, f
    <3>1. s \in Nat /\ l \in Nat /\ f \in Nat
      BY <2>1 DEF s, l, f
    <3> QED BY <3>1, CountBytes
  <2>3. wrapping_add(Count(s, l, f), w) = Count(s, l + w, f)
    <3> HIDE DEF s, l, f
    <3> QED BY <1>2, <2>2
  <2> QED BY <1>1, <1>4, <1>8, <2>3 DEF Acked
<1>10. Steady(d)
  BY <1>7, <1>8, <1>9 DEF Steady, SamePending, Registered
<1> QED BY <1>2, <1>8, <1>10 DEF d

\* What a connection still wants after a part of its handler it wanted before.
Calmer(c, d) == /\ SamePending(c, d)
                /\ \/ d.closed
                   \/ d.interests = c.interests /\ wanted(d) \subseteq wanted(c)

\* wanted() shrinks when the buffer of the stream does, or reading ends.
LEMMA WantedShrinks ==
  ASSUME NEW c, NEW d, c.state # "SynSent", d.state # "SynSent",
         may_write(d) => may_write(c),
         may_read(d) => may_read(c)
  PROVE  wanted(d) \subseteq wanted(c)
  BY DEF wanted

\* Whether a connection may read depends on these fields only.
LEMMA SameMayRead ==
  ASSUME NEW c, NEW d, d.state = c.state,
         d.packet_for_client_length = c.packet_for_client_length,
         d.sequence_number = c.sequence_number,
         d.client_window = c.client_window,
         d.their_acknowledgement_number = c.their_acknowledgement_number
  PROVE  may_read(d) = may_read(c)
  BY DEF may_read, is_connected, is_closed, remaining_client_window

\* After an end of stream.
LEMMA EndedCalmer ==
  ASSUME NEW c, NEW d, c.state # "SynSent", Ended(c, d)
  PROVE  Calmer(c, d)
<1>1. CASE d.closed
  BY <1>1 DEF Ended, Calmer
<1>2. CASE ~d.closed
  <2>1. d.state # "SynSent"
    BY <1>2 DEF Ended, is_closed
  <2>2. may_write(d) => may_write(c)
    BY DEF Ended, may_write
  <2>3. may_read(d) => may_read(c)
    <3>1. CASE is_closed(d)
      BY <3>1 DEF may_read
    <3>2. CASE ~is_closed(d)
      BY <1>2, <3>2, SameMayRead DEF Ended, SamePending
    <3> QED BY <3>1, <3>2
  <2> QED BY <1>2, <2>1, <2>2, <2>3, WantedShrinks DEF Ended, Calmer, is_closed
<1> QED BY <1>1, <1>2

\* process_connect(): the SYN-ACK.
LEMMA ProcessConnect ==
  ASSUME NEW c, Steady(c), c.state = "SynSent"
  PROVE  LET d == process_connect(c)
         IN Steady(d) /\ Calmer(c, d) /\ d.state # "Init"
<1> DEFINE b == [c EXCEPT !.state = "SynReceived"]
           r == reply_empty_packet_to_client(b, {"SYN", "ACK"})
           d == process_connect(c)
<1>1. /\ Steady(b) /\ SamePending(c, b) /\ b.state = "SynReceived"
      /\ b.closed = c.closed /\ b.interests = c.interests
  BY StateSteady DEF TcpState
<1>2. d = [r EXCEPT !.sequence_number = wrapping_add(r.sequence_number, 1)]
  BY DEF process_connect
<1> HIDE DEF b
<1>3. Steady(r) /\ SamePending(b, r) /\ SameBut(b, r)
  BY <1>1, ReplySteady DEF Flags
<1> HIDE DEF r, d
<1>4. r \in Connection /\ wrapping_add(r.sequence_number, 1) \in Seqno
  <2>1. r \in Connection
    BY <1>3 DEF Steady
  <2>2. r.sequence_number \in Int
    BY <2>1, ConstantFacts DEF Connection, Seqno
  <2> QED BY <2>1, <2>2, WrapType
<1>5. d \in Connection
  BY <1>2, <1>4 DEF Connection
<1>6. /\ d.state = r.state /\ SamePending(r, d)
      /\ d.syn_sequence_number = r.syn_sequence_number
      /\ d.acknowledgement_number = r.acknowledgement_number
      /\ d.written = r.written /\ d.fins = r.fins
      /\ d.interests = r.interests
  BY <1>2, <1>4 DEF Connection, SamePending
<1>7. Steady(d)
  BY <1>3, <1>5, <1>6, SteadyFrame
<1>8. d.state = "SynReceived" /\ d.interests = c.interests /\ SamePending(c, d)
  BY <1>1, <1>3, <1>6 DEF SameBut, SamePending
<1>9. wanted(d) \subseteq wanted(c)
  BY <1>8 DEF wanted, may_read, is_connected
<1> QED BY <1>7, <1>8, <1>9 DEF Calmer, d

\* process_send(), when the socket did not block.
LEMMA ProcessSend ==
  ASSUME NEW c, Steady(c), c.state \notin {"Init", "SynSent"},
         NEW w, w \in WriteResults(c), w # WouldBlock
  PROVE  LET d == process_send(c, w)
         IN Steady(d) /\ Calmer(c, d)
<1>1. CASE w = Error
  <2>1. process_send(c, w) = close(reply_empty_packet_to_client(c, {"RST"}))
    BY <1>1 DEF process_send, Error, WouldBlock
  <2> QED BY <2>1, ReplyCloseSteady DEF Flags, Calmer
<1>2. CASE w = 0
  <2>1. process_send(c, w) = close(c)
    BY <1>2 DEF process_send, Error, WouldBlock
  <2> QED BY <2>1, CloseSteady DEF Calmer
<1>3. CASE w # Error /\ w # 0
  <2> DEFINE d == written_to_socket(c, w)
             a == reply_empty_packet_to_client(d, {"ACK"})
  <2>1. w \in 1 .. Len(c.client_to_network)
    BY <1>3 DEF WriteResults
  <2>2. process_send(c, w) \in {a, do_handle_fin(d)}
    BY <1>3 DEF process_send
  <2>3. /\ Steady(d) /\ SamePending(c, d) /\ d.state = c.state
        /\ c.client_to_network # << >>
        /\ d.closed = c.closed /\ d.interests = c.interests
        /\ d.sequence_number = c.sequence_number
        /\ d.client_window = c.client_window
        /\ d.their_acknowledgement_number = c.their_acknowledgement_number
    BY <2>1, WrittenToSocket
  <2> HIDE DEF d
  <2>4. wanted(d) \subseteq wanted(c)
    <3>1. may_read(d) = may_read(c)
      BY <2>3, SameMayRead DEF SamePending
    <3> QED BY <2>3, <3>1, WantedShrinks DEF may_write
  <2>5. Steady(do_handle_fin(d)) /\ Calmer(d, do_handle_fin(d))
    BY <2>3, DoHandleFin, EndedCalmer
  <2>6. Steady(a) /\ Calmer(d, a)
    <3>1. Steady(a) /\ SamePending(d, a) /\ SameBut(d, a)
      BY <2>3, ReplySteady DEF Flags
    <3> HIDE DEF a
    <3>2. wanted(a) = wanted(d)
      BY <3>1, SameWanted DEF SameBut
    <3> QED BY <3>1, <3>2 DEF Calmer, SameBut
  <2> HIDE DEF a
  <2> QED BY <2>2, <2>3, <2>4, <2>5, <2>6 DEF Calmer, SamePending
<1> QED BY <1>1, <1>2, <1>3

\* The first half of process().
LEMMA SentPart ==
  ASSUME NEW c, Steady(c), c.state # "Init", NEW events,
         NEW w, w \in WriteResults(c), ~write_blocked(c, events, w)
  PROVE  LET s == sent_part(c, events, w)
         IN Steady(s) /\ Calmer(c, s)
<1>1. CASE "writable" \notin events
  BY <1>1 DEF sent_part, Calmer, SamePending
<1>2. CASE "writable" \in events /\ c.state = "SynSent"
  BY <1>2, ProcessConnect DEF sent_part
<1>3. CASE "writable" \in events /\ c.state # "SynSent"
  BY <1>3, ProcessSend DEF sent_part, write_blocked
<1> QED BY <1>1, <1>2, <1>3

\* eof(): the relay's FIN.
LEMMA Eof ==
  ASSUME NEW c, Steady(c), c.state # "Init"
  PROVE  Steady(eof(c))
<1> DEFINE s == IF c.state = "CloseWait" THEN "LastAck" ELSE "FinWait1"
           r == reply_empty_packet_to_client(c, {"FIN", "ACK"})
<1>1. s \in TcpState \ {"Init", "SynSent"}
  BY DEF TcpState
<1>2. Steady(FinSent(c, s))
  BY <1>1, FinSentSteady
<1>3. r.state = c.state
  BY ReplySteady DEF Flags, SameBut
<1>4. eof(c) = FinSent(c, s)
  BY <1>3 DEF eof, FinSent
<1> QED BY <1>2, <1>4

\* The bytes read are sent or deferred; a deferred packet is registered.
LEMMA ReceiveData ==
  ASSUME NEW c, Steady(c), c.packet_for_client_length = 0, NEW r \in Nat
  PROVE  Steady(receive_data(c, r))
<1> DEFINE p == data_packet(c, r)
           d == [c EXCEPT !.taken = @ + r]
           q == send_to_client(d, p)
           e == [q EXCEPT !.sequence_number = wrapping_add(q.sequence_number, r)]
<1>1. c \in Connection
  BY DEF Steady
<1>2. p \in ClientPacket /\ p.raw = p.total_length /\ p.total_length \in Nat \ {0}
  <2>1. Headers + r \in Nat /\ Headers + r # 0
    BY ConstantFacts
  <2> QED BY <1>1, <2>1 DEF data_packet, Connection, ClientPacket, Flags
<1>3. d \in Connection
  <2>1. c.taken + r \in Nat
    BY <1>1 DEF Connection
  <2> QED BY <1>1, <2>1 DEF Connection
<1>4. /\ d.state = c.state /\ SamePending(c, d)
      /\ d.syn_sequence_number = c.syn_sequence_number
      /\ d.acknowledgement_number = c.acknowledgement_number
      /\ d.written = c.written /\ d.fins = c.fins
      /\ room(d) = room(c)
  BY <1>1 DEF Connection, SamePending, room
<1>5. receive_data(c, r) = IF p.total_length <= room(c) THEN e ELSE defer(d, p)
  BY DEF receive_data
<1> HIDE DEF d, p
<1>6. Steady(d)
  BY <1>3, <1>4, SteadyFrame
<1>7. CASE p.total_length <= room(c)
  <2>1. q \in Connection /\ SameBut(d, q) /\ q.panic = d.panic
    BY <1>2, <1>3, <1>4, <1>7, SendToClient
  <2> HIDE DEF q
  <2>2. Steady(q)
    BY <1>6, <2>1, SteadyFrame DEF SameBut, SamePending
  <2>3. wrapping_add(q.sequence_number, r) \in Seqno
    <3>1. q.sequence_number \in Int
      BY <2>1, ConstantFacts DEF Connection, Seqno
    <3> QED BY <3>1, WrapType
  <2>4. e \in Connection
    BY <2>1, <2>3 DEF Connection
  <2>5. /\ e.state = q.state /\ SamePending(q, e)
        /\ e.syn_sequence_number = q.syn_sequence_number
        /\ e.acknowledgement_number = q.acknowledgement_number
        /\ e.written = q.written /\ e.fins = q.fins
    BY <2>1 DEF Connection, SamePending
  <2> HIDE DEF e
  <2> QED BY <1>5, <1>7, <2>2, <2>4, <2>5, SteadyFrame
<1>8. CASE ~(p.total_length <= room(c))
  <2> DEFINE f == defer(d, p)
  <2>1. f \in Connection
    <3>1. d.pending_packet_sources + 1 \in Nat
      BY <1>3 DEF Connection
    <3> QED BY <1>2, <1>3, <3>1 DEF defer, Connection
  <2>2. /\ f.state = d.state /\ f.panic = d.panic
        /\ f.packet_for_client_length = p.total_length
        /\ f.pending_packet_sources = d.pending_packet_sources + 1
        /\ f.syn_sequence_number = d.syn_sequence_number
        /\ f.acknowledgement_number = d.acknowledgement_number
        /\ f.written = d.written /\ f.fins = d.fins
    BY <1>3 DEF defer, Connection
  <2> HIDE DEF f
  <2>3. f.panic = "none" => Registered(f)
    BY <1>2, <1>4, <1>6, <2>2 DEF Registered, Steady, SamePending
  <2>4. Steady(f)
    BY <1>6, <2>1, <2>2, <2>3 DEF Steady, Acked
  <2> QED BY <1>5, <1>8, <2>4 DEF f
<1> QED BY <1>7, <1>8

\* process_receive(), on a connection without a deferred packet.
LEMMA ProcessReceive ==
  ASSUME NEW c, Steady(c), c.state # "Init", c.packet_for_client_length = 0,
         NEW r, r \in ReadResults(c)
  PROVE  LET d == process_receive(c, r)
         IN Steady(d) /\ (r = WouldBlock => d = c \/ d.panic # "none")
<1>1. CASE remaining_client_window(c) = 0
  <2> DEFINE d == [c EXCEPT !.panic = "window"]
  <2>1. process_receive(c, r) = d
    BY <1>1 DEF process_receive
  <2>2. c \in Connection
    BY DEF Steady
  <2>3. d \in Connection
    BY <2>2 DEF Connection, Asserts
  <2>4. /\ d.state = c.state /\ d.panic = "window"
        /\ d.syn_sequence_number = c.syn_sequence_number
        /\ d.acknowledgement_number = c.acknowledgement_number
        /\ d.written = c.written /\ d.fins = c.fins
    BY <2>2 DEF Connection
  <2> HIDE DEF d
  <2> QED BY <2>1, <2>3, <2>4 DEF Steady, Acked
<1>2. CASE remaining_client_window(c) # 0
  <2>1. CASE r = WouldBlock
    <3>1. process_receive(c, r) = c
      BY <1>2, <2>1 DEF process_receive, WouldBlock, Error
    <3> QED BY <3>1
  <2>2. CASE r = Error
    <3>1. process_receive(c, r) = close(reply_empty_packet_to_client(c, {"RST"}))
      BY <1>2, <2>2 DEF process_receive, Error, WouldBlock
    <3>2. Steady(process_receive(c, r))
      BY <3>1, ReplyCloseSteady DEF Flags
    <3> QED BY <2>2, <3>2 DEF Error, WouldBlock
  <2>3. CASE r = 0
    <3>1. process_receive(c, r) = eof(c)
      BY <1>2, <2>3 DEF process_receive, Error, WouldBlock
    <3> QED BY <2>3, <3>1, Eof DEF WouldBlock
  <2>4. CASE r \notin {WouldBlock, Error, 0}
    <3>1. process_receive(c, r) = receive_data(c, r)
      BY <1>2, <2>4 DEF process_receive
    <3>2. r \in Nat
      BY <2>4, ConstantFacts DEF ReadResults, WouldBlock, Error
    <3> QED BY <2>4, <3>1, <3>2, ReceiveData
  <2> QED BY <2>1, <2>2, <2>3, <2>4
<1> QED BY <1>1, <1>2

\* process(): a handler that ends early leaves the interests as they were, and
\* they are enough.
LEMMA Process ==
  ASSUME NEW c, Safe(c), c.panic = "none", ~c.closed, c.state # "Init",
         NEW events, "readable" \in events => c.packet_for_client_length = 0,
         NEW w, w \in WriteResults(c),
         NEW r, r \in ReadResults(sent_part(c, events, w))
  PROVE  Safe(process(c, events, w, r))
<1> DEFINE s == sent_part(c, events, w)
           receives == ~s.closed /\ "readable" \in events
           t == IF receives THEN process_receive(s, r) ELSE s
<1>1. CASE events \cap Interest = {}
  <2>1. process(c, events, w, r) = close(c)
    BY <1>1 DEF process
  <2> QED BY <2>1, CloseSteady DEF Safe
<1>2. CASE events \cap Interest # {} /\ write_blocked(c, events, w)
  BY <1>2 DEF process
<1>3. CASE events \cap Interest # {} /\ ~write_blocked(c, events, w)
  <2>1. process(c, events, w, r) =
          IF (receives /\ r = WouldBlock) \/ t.closed \/ t.panic # "none"
          THEN t ELSE update_interests(t)
    BY <1>3 DEF process
  <2>2. Steady(s) /\ Calmer(c, s)
    BY <1>3, SentPart DEF Safe
  <2>3. s.closed \/ Awake(s)
    BY <2>2 DEF Safe, Awake, Calmer, SamePending
  <2>4. r \in ReadResults(s)
    OBVIOUS
  <2> HIDE DEF s
  <2>5. receives => /\ Steady(process_receive(s, r))
                    /\ (r = WouldBlock => \/ process_receive(s, r) = s
                                          \/ process_receive(s, r).panic # "none")
    BY <2>2, <2>4, ProcessReceive DEF Calmer, SamePending
  <2>6. Steady(t)
    BY <2>2, <2>5
  <2>7. receives /\ r = WouldBlock => t = s \/ t.panic # "none"
    BY <2>5
  <2> HIDE DEF t, receives
  <2>8. Safe(update_interests(t))
    BY <2>6, UpdateInterests
  <2> QED BY <2>1, <2>2, <2>3, <2>6, <2>7, <2>8 DEF Safe
<1> QED BY <1>1, <1>2, <1>3

-----------------------------------------------------------------------------
(***************************************************************************)
(* The client pulls the deferred packet.                                   *)
(***************************************************************************)
\* next(): the packet is forgotten, the connection no longer registered.
LEMMA NextPacket ==
  ASSUME NEW c \in Connection, c.panic = "none", c.pending_packet_sources = 0,
         c.state # "Init" => Acked(c),
         c.state = "Init" => c.written = << >> /\ c.fins = 0,
         c.state = "SynSent" => c.written = << >>
  PROVE  /\ Safe(next(c)) /\ next(c).packet_for_client_length = 0
         /\ next(c).state = c.state
<1> DEFINE d == [c EXCEPT !.sequence_number = wrapping_add(@, c.packet_for_client_length),
                          !.packet_for_client_length = 0,
                          !.packetizer = NoPacket]
<1>1. wrapping_add(c.sequence_number, c.packet_for_client_length) \in Seqno
  <2>1. c.sequence_number \in Int /\ c.packet_for_client_length \in Int
    BY ConstantFacts DEF Connection, Seqno
  <2> QED BY <2>1, WrapType
<1>2. NoPacket \in ClientPacket
  BY ConstantFacts DEF NoPacket, ClientPacket, Seqno
<1>3. d \in Connection
  BY <1>1, <1>2 DEF Connection
<1>4. /\ d.state = c.state /\ d.panic = c.panic /\ d.packet_for_client_length = 0
      /\ d.pending_packet_sources = c.pending_packet_sources
      /\ d.syn_sequence_number = c.syn_sequence_number
      /\ d.acknowledgement_number = c.acknowledgement_number
      /\ d.written = c.written /\ d.fins = c.fins
  BY DEF Connection
<1>5. next(c) = update_interests(d)
  BY DEF next
<1> HIDE DEF d
<1>6. Steady(d)
  BY <1>3, <1>4 DEF Steady, Acked, Registered
<1> QED BY <1>4, <1>5, <1>6, UpdateInterests

\* process_pending(): the deferred packet leaves whole, or stays.
LEMMA ProcessPending ==
  ASSUME NEW c, Safe(c), c.panic = "none"
  PROVE  LET d == process_pending(c)
         IN /\ Safe(d) /\ d.state = c.state
            /\ d.panic = "none" => d.packet_for_client_length \in {0, c.packet_for_client_length}
<1> DEFINE p == deferred_packet(c)
           b == [c EXCEPT !.pending_packet_sources = @ - 1]
           q == send_to_client(b, p)
<1>1. CASE c.pending_packet_sources = 0 \/ p.total_length > room(c)
  BY <1>1 DEF process_pending
<1>2. CASE ~(c.pending_packet_sources = 0 \/ p.total_length > room(c))
  <2>1. c \in Connection /\ Steady(c)
    BY DEF Safe, Steady
  <2>2. c.pending_packet_sources = 1
    BY <1>2, <2>1 DEF Steady, Registered
  <2>3. process_pending(c) = IF q.panic # "none" THEN q ELSE next(q)
    BY <1>2 DEF process_pending
  <2>4. p \in ClientPacket
    BY <2>1 DEF deferred_packet, Connection, ClientPacket
  <2>5. b \in Connection
    <3>1. c.pending_packet_sources - 1 \in Nat
      BY <2>2
    <3> QED BY <2>1, <3>1 DEF Connection
  <2>6. /\ b.state = c.state /\ b.panic = "none"
        /\ b.pending_packet_sources = c.pending_packet_sources - 1
        /\ b.syn_sequence_number = c.syn_sequence_number
        /\ b.acknowledgement_number = c.acknowledgement_number
        /\ b.written = c.written /\ b.fins = c.fins
    BY <2>1 DEF Connection
  <2> HIDE DEF p, b
  <2>7. q \in Connection /\ SameBut(b, q) /\ q.panic \in {b.panic, "stream buffer full"}
    BY <2>4, <2>5, SendToClient
  <2> HIDE DEF q
  <2>a. b.pending_packet_sources = 0
    BY <2>2, <2>6
  <2>8. /\ q.pending_packet_sources = 0
        /\ q.state # "Init" => Acked(q)
        /\ q.state = "Init" => q.written = << >> /\ q.fins = 0
        /\ q.state = "SynSent" => q.written = << >>
    BY <2>1, <2>6, <2>7, <2>a DEF SameBut, Steady, Acked
  <2>9. CASE q.panic = "none"
    BY <2>3, <2>6, <2>7, <2>8, <2>9, NextPacket DEF SameBut
  <2>10. CASE q.panic # "none"
    <3>1. process_pending(c) = q /\ q.panic = "stream buffer full"
      BY <2>3, <2>6, <2>7, <2>10
    <3>2. Steady(q)
      BY <2>7, <2>8, <3>1 DEF Steady
    <3> QED BY <2>6, <2>7, <3>1, <3>2 DEF Safe, SameBut
  <2> QED BY <2>9, <2>10
<1> QED BY <1>1, <1>2

-----------------------------------------------------------------------------
(***************************************************************************)
(* The inductive invariant.  NoPendingOverrun alone is not inductive: the  *)
(* readiness a handler acts upon may be older than its packet.  It holds   *)
(* because a connection that defers a packet stops being registered for    *)
(* reading before the next poll, and only a handler that consumes the      *)
(* readiness defers one.                                                   *)
(***************************************************************************)
IInv ==
  /\ Safe(conn)
  /\ ready \subseteq Readiness /\ client_ran \in BOOLEAN
  /\ conn.state = "Init" => ready = {}
  /\ conn.panic = "none" /\ ~conn.closed /\ "readable" \in ready =>
       conn.packet_for_client_length = 0

\* Safe does not depend on the client's buffer.
LEMMA SafeFrame ==
  ASSUME NEW c, NEW d, Safe(c), d \in Connection, SameBut(c, d), d.panic = c.panic
  PROVE  Safe(d)
<1>1. Steady(d)
  BY SteadyFrame DEF Safe, SameBut, SamePending
<1>2. wanted(d) = wanted(c)
  BY SameWanted DEF SameBut
<1> QED BY <1>1, <1>2 DEF Safe, Awake, SameBut

\* create() registers the socket for writing.
LEMMA ConnInitIInv == ConnInit => IInv
<1> SUFFICES ASSUME ConnInit PROVE IInv
  OBVIOUS
<1>1. conn = create
  BY DEF ConnInit
<1>2. create \in Connection
  <2>1. NoPacket \in ClientPacket /\ 0 \in Seqno
    BY ConstantFacts DEF NoPacket, ClientPacket, Seqno
  <2> QED BY <2>1, ConstantFacts DEF create, Connection, TcpState, Interest, Asserts
<1>3. /\ create.state = "Init" /\ create.panic = "none" /\ create.written = << >>
      /\ create.fins = 0 /\ create.packet_for_client_length = 0
      /\ create.pending_packet_sources = 0
  BY DEF create
<1> QED BY <1>1, <1>2, <1>3 DEF ConnInit, IInv, Safe, Steady, Awake, Registered, Readiness

\* The client frees room, then pulls the deferred packet.
LEMMA ClientSendSafe ==
  ASSUME NEW c, Safe(c), c.panic = "none", NEW n \in {0, 1}, n <= Len(c.channel), NEW f \in Nat
  PROVE  LET d == [c EXCEPT !.channel = SubSeq(@, n + 1, Len(@)),
                            !.used = IF n = 0 THEN @ ELSE @ - c.channel[1].raw,
                            !.foreign = f]
         IN Safe(d) /\ SameBut(c, d) /\ d.panic = "none"
<1> DEFINE ch == SubSeq(c.channel, n + 1, Len(c.channel))
           u == IF n = 0 THEN c.used ELSE c.used - c.channel[1].raw
           d == [c EXCEPT !.channel = ch, !.used = u, !.foreign = f]
<1>1. c \in Connection
  BY DEF Safe, Steady
<1>2. c.channel \in Seq(ClientPacket) /\ c.used \in Int
  BY <1>1 DEF Connection
<1>3. ch \in Seq(ClientPacket)
  <2>1. /\ n + 1 \in 1 .. Len(c.channel) + 1
        /\ Len(c.channel) \in (n + 1) - 1 .. Len(c.channel)
    BY <1>2
  <2> QED BY <1>2, <2>1, SubSeqProperties
<1>4. u \in Int
  <2>1. CASE n = 0
    BY <1>2, <2>1
  <2>2. CASE n = 1
    <3>1. c.channel[1] \in ClientPacket
      BY <1>2, <2>2
    <3>2. c.channel[1].raw \in Nat
      BY <3>1 DEF ClientPacket
    <3> QED BY <1>2, <2>2, <3>2
  <2> QED BY <2>1, <2>2
<1> HIDE DEF ch, u
<1>5. d \in Connection
  BY <1>1, <1>3, <1>4 DEF Connection
<1>6. SameBut(c, d) /\ d.panic = c.panic
  BY <1>1 DEF Connection, SameBut
<1> HIDE DEF d
<1>7. Safe(d)
  BY <1>5, <1>6, SafeFrame
<1> QED BY <1>6, <1>7 DEF d, ch, u

\* Pulling a packet does not open a closed connection, nor close an open one.
LEMMA PendingClosed ==
  ASSUME NEW c, Steady(c)
  PROVE  process_pending(c).closed = c.closed
  BY DEF process_pending, next, update_interests, send_to_client, Steady, Connection

\* Every handler keeps the invariant.
LEMMA ConnNextIInv == IInv /\ [ConnNext]_connVars => IInv'
<1> SUFFICES ASSUME IInv, [ConnNext]_connVars PROVE IInv'
  OBVIOUS
<1>0. Safe(conn) /\ Steady(conn) /\ conn \in Connection
  BY DEF IInv, Safe, Steady
<1>1. ASSUME NEW events \in SUBSET Readiness, poll(events)
      PROVE  IInv'
  <2>1. /\ conn' = conn /\ ready' = events /\ client_ran' = client_ran
        /\ conn.panic = "none" /\ ~conn.closed /\ conn.state # "Init"
        /\ (events \subseteq conn.interests \/ events = {"hup"})
    BY <1>1 DEF poll, Running
  <2>2. "readable" \in events => conn.packet_for_client_length = 0
    BY <1>0, <2>1 DEF Safe, Awake
  <2> QED BY <1>0, <2>1, <2>2 DEF IInv
<1>2. ASSUME NEW w \in Int, NEW r \in Int, on_ready(w, r)
      PROVE  IInv'
  <2>1. /\ w \in WriteResults(conn) /\ r \in ReadResults(sent_part(conn, ready, w))
        /\ conn' = IF conn.closed THEN conn ELSE process(conn, ready, w, r)
        /\ ready' = {} /\ client_ran' = FALSE
        /\ conn.panic = "none" /\ conn.state # "Init"
    BY <1>2 DEF on_ready, Running, IInv
  <2>2. Safe(conn')
    <3>1. CASE conn.closed
      BY <1>0, <2>1, <3>1
    <3>2. CASE ~conn.closed
      <4>1. "readable" \in ready => conn.packet_for_client_length = 0
        BY <2>1, <3>2 DEF IInv
      <4> QED BY <1>0, <2>1, <3>2, <4>1, Process
    <3> QED BY <3>1, <3>2
  <2> QED BY <2>1, <2>2 DEF IInv
<1>3. ASSUME NEW p \in DevicePacket, NEW isn \in Seqno, push_packet(p, isn)
      PROVE  IInv'
  <2>1. /\ conn' = send_to_network(conn, p, isn)
        /\ client_ran' = (ready # {}) /\ ready' = ready
        /\ conn.panic = "none" /\ ~conn.closed
    BY <1>3 DEF push_packet, Running
  <2>2. /\ Safe(conn')
        /\ conn'.packet_for_client_length = conn.packet_for_client_length
        /\ conn.state # "Init" => conn'.state # "Init"
    BY <1>0, <2>1, SendToNetwork
  <2> QED BY <2>1, <2>2 DEF IInv
<1>4. ASSUME NEW n \in {0, 1}, NEW f \in Nat, client_send(n, f)
      PROVE  IInv'
  <2> DEFINE d == [conn EXCEPT !.channel = SubSeq(@, n + 1, Len(@)),
                            !.used = IF n = 0 THEN @ ELSE @ - conn.channel[1].raw,
                            !.foreign = f]
  <2>1. /\ conn' = process_pending(d)
        /\ client_ran' = (ready # {}) /\ ready' = ready
        /\ conn.panic = "none" /\ n <= Len(conn.channel)
    BY <1>4 DEF client_send, Running
  <2>2. Safe(d) /\ SameBut(conn, d) /\ d.panic = "none"
    BY <1>0, <2>1, ClientSendSafe
  <2> HIDE DEF d
  <2>3. /\ Safe(conn') /\ conn'.state = d.state
        /\ conn'.panic = "none" =>
             conn'.packet_for_client_length \in {0, d.packet_for_client_length}
    BY <2>1, <2>2, ProcessPending
  <2>4. ~conn'.closed /\ conn'.panic = "none" => ~conn.closed
    <3>1. conn'.closed = d.closed
      BY <2>1, <2>2, PendingClosed DEF Safe
    <3> QED BY <2>2, <3>1 DEF SameBut
  <2> QED BY <2>1, <2>2, <2>3, <2>4 DEF IInv, SameBut
<1>5. ASSUME NEW f \in Nat, fill(f)
      PROVE  IInv'
  <2>1. /\ conn' = [conn EXCEPT !.foreign = f] /\ ready' = ready /\ client_ran' = client_ran
    BY <1>5 DEF fill
  <2>2. conn' \in Connection /\ SameBut(conn, conn') /\ conn'.panic = conn.panic
    BY <1>0, <2>1 DEF Connection, SameBut
  <2>3. Safe(conn')
    BY <1>0, <2>2, SafeFrame
  <2> QED BY <2>1, <2>2, <2>3 DEF IInv, SameBut
<1>6. CASE client_close
  <2> DEFINE d == close(conn)
  <2>1. conn' = [d EXCEPT !.client_closed = TRUE] /\ ready' = ready /\ client_ran' = client_ran
    BY <1>6 DEF client_close
  <2>2. Steady(d) /\ d.closed /\ d.state = conn.state
    BY <1>0, CloseSteady
  <2> HIDE DEF d
  <2>3. conn' \in Connection /\ SameBut(d, conn') /\ conn'.panic = d.panic
    BY <2>1, <2>2 DEF Connection, SameBut, Steady
  <2>4. Safe(d)
    BY <2>2 DEF Safe
  <2>5. Safe(conn') /\ conn'.closed
    BY <2>2, <2>3, <2>4, SafeFrame DEF SameBut
  <2> QED BY <2>1, <2>2, <2>3, <2>5 DEF IInv, SameBut
<1>7. CASE UNCHANGED connVars
  BY <1>7 DEF IInv, connVars
<1> QED BY <1>1, <1>2, <1>3, <1>4, <1>5, <1>6, <1>7 DEF ConnNext

-----------------------------------------------------------------------------
\* Whatever the device sends and the network does, and for all capacities: a
\* connection never overruns its deferred packet, is registered for what it
\* waits for, is listed by its client exactly while it has a packet, and
\* acknowledges to the device exactly what it wrote to the socket.
THEOREM ConnectionSafety ==
  ConnSpec => [](ConnTypeOK /\ NoPendingOverrun /\ NoLostWakeup
                   /\ RegisteredWhilePending /\ AckIsWritten)
<1>1. IInv => ConnTypeOK /\ NoPendingOverrun /\ NoLostWakeup
                /\ RegisteredWhilePending /\ AckIsWritten
  BY DEF IInv, Safe, Steady, Awake, Registered, Acked, Count, ConnTypeOK, NoPendingOverrun,
         NoLostWakeup, RegisteredWhilePending, AckIsWritten
<1> QED BY <1>1, ConnInitIInv, ConnNextIInv, PTL DEF ConnSpec

-----------------------------------------------------------------------------
(***************************************************************************)
(* The tunnel.                                                             *)
(***************************************************************************)
\* The constants of the tunnel, in the form the leaves cite.
LEMMA TunnelFacts ==
  /\ DeviceIsn \in Seqno /\ DeviceIsn \in Nat /\ RelayIsns \subseteq Seqno
  /\ DeviceBytes \in Nat /\ ServerBytes \in Nat
  /\ MaxWindow <= StreamCapacity /\ MaxWindow + 1 < SeqSpace
  BY TunnelAssumption, ConstantFacts DEF Seqno

\* A position of the device's stream on the wire.
LEMMA DeviceSeqType ==
  ASSUME NEW n \in Int
  PROVE  DeviceSeq(n) \in Seqno
  BY TunnelFacts, WrapType DEF DeviceSeq

\* Positions less than a turn apart are told apart on the wire.
LEMMA DeviceSeqUnique ==
  ASSUME NEW m \in Int, NEW n \in Int, DeviceSeq(m) = DeviceSeq(n),
         m - n < SeqSpace, n - m < SeqSpace
  PROVE  m = n
<1> DEFINE a == DeviceIsn + m
           b == DeviceIsn + n
<1>1. a \in Int /\ b \in Int /\ a - b < SeqSpace /\ b - a < SeqSpace
  BY TunnelFacts, ConstantFacts
<1>2. a % SeqSpace = b % SeqSpace
  BY DEF DeviceSeq, wrapping_add
<1> HIDE DEF a, b
<1>3. a = b
  BY <1>1, <1>2, ConstantFacts, ModUnique
<1> QED BY <1>3, TunnelFacts DEF a, b

-----------------------------------------------------------------------------
(***************************************************************************)
(* The acknowledgements on their way to the device.  Told counts what the  *)
(* relay acknowledges: the SYN, the bytes written, the FIN.  The packets   *)
(* of the channel, and after them the deferred one, acknowledge positions  *)
(* in ascending order, none below lo and none above what was written.      *)
(***************************************************************************)
Told(c) == 1 + Len(c.written) + c.fins

Ascending(c, lo, g, top) ==
  /\ \A i \in 1 .. Len(c.channel) :
       c.channel[i].ack = DeviceSeq(g[i]) /\ lo <= g[i] /\ g[i] <= top
  /\ \A i, j \in 1 .. Len(c.channel) : i <= j => g[i] <= g[j]
  /\ lo <= top /\ top <= Told(c)
  /\ c.packet_for_client_length # 0 => c.packetizer.ack = DeviceSeq(top)

Queued(c, lo) == \E g \in [1 .. Len(c.channel) -> Nat], top \in Nat : Ascending(c, lo, g, top)

Whole(c) == /\ \A i \in 1 .. Len(c.channel) : Headers <= c.channel[i].total_length
            /\ c.packet_for_client_length # 0 => Headers <= c.packetizer.total_length

\* The invariant of the channel, in the middle of a handler too.
Chan(c, lo) ==
  /\ Whole(c)
  /\ c.state # "Init" => c.syn_sequence_number = DeviceIsn /\ Queued(c, lo)
  /\ c.state = "Init" => c.packet_for_client_length = 0 /\ lo <= 1

\* The fields the channel invariant depends on.
SameQueue(c, d) == /\ d.channel = c.channel /\ d.packetizer = c.packetizer
                   /\ d.packet_for_client_length = c.packet_for_client_length
                   /\ d.syn_sequence_number = c.syn_sequence_number

\* The fields the order of the stream depends on.
SameStream(c, d) == /\ d.written = c.written /\ d.client_to_network = c.client_to_network
                    /\ d.fins = c.fins /\ d.fin_received = c.fin_received

Early == {"Init", "SynSent", "SynReceived"}

\* What is acknowledged only grows.
LEMMA ChanFrame ==
  ASSUME NEW c, NEW d, NEW lo \in Nat, Chan(c, lo), c.state # "Init", d.state # "Init",
         SameQueue(c, d), Told(c) \in Int, Told(d) \in Int, Told(c) <= Told(d)
  PROVE  Chan(d, lo)
<1>1. PICK g \in [1 .. Len(c.channel) -> Nat], top \in Nat : Ascending(c, lo, g, top)
  BY DEF Chan, Queued
<1>2. Ascending(d, lo, g, top)
  BY <1>1 DEF Ascending, SameQueue
<1>3. Queued(d, lo)
  BY <1>1, <1>2 DEF Queued, SameQueue
<1> QED BY <1>3 DEF Chan, Whole, SameQueue

\* The counters are naturals.
LEMMA Counted ==
  ASSUME NEW c, Steady(c)
  PROVE  /\ Len(c.written) \in Nat /\ c.fins \in Nat /\ Told(c) \in Nat
         /\ c.written \in Seq(Nat) /\ c.client_to_network \in Seq(Nat)
         /\ Len(c.client_to_network) \in Nat
<1>1. c \in Connection
  BY DEF Steady
<1>2. c.written \in Seq(Nat) /\ c.fins \in Nat /\ c.client_to_network \in Seq(Nat)
  BY <1>1 DEF Connection
<1> QED BY <1>2 DEF Told

\* The acknowledgement number is the position it stands for.
LEMMA ToldIsAcked ==
  ASSUME NEW c, Steady(c), c.state # "Init", c.syn_sequence_number = DeviceIsn
  PROVE  Told(c) \in Nat /\ c.acknowledgement_number = DeviceSeq(Told(c))
<1> DEFINE l == Len(c.written)
           f == c.fins
<1>1. l \in Nat /\ f \in Nat
  BY Counted
<1>2. Told(c) = 1 + l + f
  BY DEF Told
<1>3. c.acknowledgement_number = (DeviceIsn + 1 + l + f) % SeqSpace
  BY DEF Steady, Acked, Count
<1> HIDE DEF l, f
<1>4. Told(c) \in Nat /\ DeviceIsn + 1 + l + f = DeviceIsn + Told(c)
  BY <1>1, <1>2, TunnelFacts
<1> QED BY <1>3, <1>4 DEF DeviceSeq, wrapping_add

\* Told depends on two fields.
LEMMA SameTold ==
  ASSUME NEW c, NEW d, SameStream(c, d)
  PROVE  Told(d) = Told(c)
  BY DEF SameStream, Told

\* A packet joins the channel with an acknowledgement t, not below the others.
LEMMA QueuedAppendAt ==
  ASSUME NEW c, NEW d, NEW lo \in Nat, NEW p, c.channel \in Seq(ClientPacket),
         NEW g \in [1 .. Len(c.channel) -> Nat], NEW top \in Nat, Ascending(c, lo, g, top),
         NEW t \in Nat, top <= t, Told(d) \in Nat, t <= Told(d),
         p.ack = DeviceSeq(t), d.channel = Append(c.channel, p),
         d.packet_for_client_length # 0 => d.packetizer.ack = DeviceSeq(t)
  PROVE  Queued(d, lo)
<1> DEFINE n == Len(c.channel)
           h == [i \in 1 .. n + 1 |-> IF i <= n THEN g[i] ELSE t]
<1>1. lo <= t /\ t <= t
  BY DEF Ascending
<1>2. n \in Nat /\ Len(d.channel) = n + 1 /\ d.channel[n + 1] = p
      /\ \A i \in 1 .. n : d.channel[i] = c.channel[i]
  BY AppendProperties
<1>3. h \in [1 .. Len(d.channel) -> Nat]
  BY <1>2
<1>4. \A i \in 1 .. n + 1 : /\ i <= n => d.channel[i].ack = DeviceSeq(h[i]) /\ lo <= h[i]
                                         /\ h[i] = g[i] /\ h[i] <= t
                            /\ i = n + 1 => d.channel[i].ack = DeviceSeq(h[i]) /\ h[i] = t
                            /\ i <= n \/ i = n + 1
  <2>1. \A i \in 1 .. n : c.channel[i].ack = DeviceSeq(g[i]) /\ lo <= g[i] /\ g[i] <= t
    BY DEF Ascending
  <2>2. \A i \in 1 .. n + 1 : h[i] = IF i <= n THEN g[i] ELSE t
    OBVIOUS
  <2> HIDE DEF h, n
  <2>3. \A i \in 1 .. n + 1 : i <= n \/ i = n + 1
    BY <1>2
  <2>4. \A i \in 1 .. n + 1 : i <= n => i \in 1 .. n
    BY <1>2
  <2>5. \A i \in 1 .. n + 1 : i = n + 1 => ~(i <= n)
    BY <1>2
  <2> QED BY <1>2, <2>1, <2>2, <2>3, <2>4, <2>5
<1>5. \A i, j \in 1 .. n : i <= j => g[i] <= g[j]
  BY DEF Ascending
<1> HIDE DEF h, n
<1>6. Ascending(d, lo, h, t)
  <2>1. \A i \in 1 .. n + 1 : d.channel[i].ack = DeviceSeq(h[i]) /\ lo <= h[i] /\ h[i] <= t
    BY <1>1, <1>2, <1>4
  <2>2. \A i, j \in 1 .. n + 1 : i <= j => h[i] <= h[j]
    <3> TAKE i, j \in 1 .. n + 1
    <3> HAVE i <= j
    <3>1. CASE j <= n
      <4>1. i <= n /\ i \in 1 .. n /\ j \in 1 .. n
        BY <1>2, <3>1
      <4> QED BY <1>4, <1>5, <3>1, <4>1
    <3>2. CASE j = n + 1
      BY <1>4, <2>1, <3>2
    <3> QED BY <1>4, <3>1, <3>2
  <2> QED BY <1>1, <1>2, <2>1, <2>2 DEF Ascending
<1> QED BY <1>3, <1>6 DEF Queued

\* A packet joins the channel with the current acknowledgement.
LEMMA QueuedAppend ==
  ASSUME NEW c, NEW d, NEW lo \in Nat, NEW p, Queued(c, lo), c.channel \in Seq(ClientPacket),
         Told(c) \in Nat, Told(d) \in Nat, Told(c) <= Told(d),
         p.ack = DeviceSeq(Told(c)), d.channel = Append(c.channel, p),
         d.packet_for_client_length # 0 => d.packetizer.ack = DeviceSeq(Told(c))
  PROVE  Queued(d, lo)
<1> DEFINE t == Told(c)
<1>1. PICK g \in [1 .. Len(c.channel) -> Nat], top \in Nat : Ascending(c, lo, g, top)
  BY DEF Queued
<1>2. t \in Nat /\ top <= t /\ t <= Told(d)
  BY <1>1 DEF Ascending
<1>3. p.ack = DeviceSeq(t) /\ (d.packet_for_client_length # 0 => d.packetizer.ack = DeviceSeq(t))
  OBVIOUS
<1> HIDE DEF t
<1> QED BY <1>1, <1>2, <1>3, QueuedAppendAt

\* Only the header of the deferred packet changes.
LEMMA QueuedHeader ==
  ASSUME NEW c, NEW d, NEW lo \in Nat, Queued(c, lo),
         Told(c) \in Nat, Told(d) \in Nat, Told(c) <= Told(d),
         d.channel = c.channel,
         d.packet_for_client_length # 0 => d.packetizer.ack = DeviceSeq(Told(c))
  PROVE  Queued(d, lo)
<1>1. PICK g \in [1 .. Len(c.channel) -> Nat], top \in Nat : Ascending(c, lo, g, top)
  BY DEF Queued
<1>2. Ascending(d, lo, g, Told(c))
  BY <1>1 DEF Ascending
<1> QED BY <1>2 DEF Queued

\* What an empty reply does to the channel and to the packetizer.
LEMMA ReplyFields ==
  ASSUME NEW c \in Connection, NEW flags \in SUBSET Flags
  PROVE  LET d == reply_empty_packet_to_client(c, flags)
             p == empty_packet(c, flags)
         IN /\ d.packetizer = IF c.packet_for_client_length = 0 THEN c.packetizer ELSE p
            /\ d.channel \in {c.channel, Append(c.channel, p)}
  BY DEF reply_empty_packet_to_client, send_to_client, Connection

\* An empty reply keeps the channel invariant.
LEMMA ReplyChan ==
  ASSUME NEW c, Steady(c), c.state # "Init", NEW lo \in Nat, Chan(c, lo),
         NEW flags \in SUBSET Flags
  PROVE  Chan(reply_empty_packet_to_client(c, flags), lo)
<1> DEFINE d == reply_empty_packet_to_client(c, flags)
           p == empty_packet(c, flags)
<1>1. c \in Connection /\ c.channel \in Seq(ClientPacket)
  BY DEF Steady, Connection
<1>2. /\ d.packetizer = IF c.packet_for_client_length = 0 THEN c.packetizer ELSE p
      /\ d.channel \in {c.channel, Append(c.channel, p)}
  BY <1>1, ReplyFields
<1>3. SameBut(c, d)
  BY ReplySteady
<1>4. p.ack = DeviceSeq(Told(c)) /\ p.total_length = Headers /\ Told(c) \in Nat
  BY ToldIsAcked DEF Chan, empty_packet
<1> HIDE DEF d, p
<1>5. /\ Told(d) = Told(c) /\ d.state = c.state
      /\ d.packet_for_client_length = c.packet_for_client_length
      /\ d.syn_sequence_number = c.syn_sequence_number
  BY <1>3 DEF SameBut, Told
<1>6. d.packet_for_client_length # 0 => d.packetizer.ack = DeviceSeq(Told(c))
  BY <1>2, <1>4, <1>5
<1>7. Queued(d, lo)
  <2>1. CASE d.channel = c.channel
    BY <1>4, <1>5, <1>6, <2>1, QueuedHeader DEF Chan
  <2>2. CASE d.channel = Append(c.channel, p)
    BY <1>1, <1>4, <1>5, <1>6, <2>2, QueuedAppend DEF Chan
  <2> QED BY <1>2, <2>1, <2>2
<1>8. Whole(d)
  <2>1. Headers \in Nat /\ Whole(c)
    BY ConstantFacts DEF Chan
  <2>2. d.packet_for_client_length # 0 => Headers <= d.packetizer.total_length
    BY <1>2, <1>4, <1>5, <2>1 DEF Whole
  <2>3. CASE d.channel = c.channel
    BY <2>1, <2>2, <2>3 DEF Whole
  <2>4. CASE d.channel = Append(c.channel, p)
    <3>1. \A i \in 1 .. Len(d.channel) :
          (i \in 1 .. Len(c.channel) /\ d.channel[i] = c.channel[i]) \/ d.channel[i] = p
      BY <1>1, <2>4, AppendProperties
    <3> QED BY <1>4, <2>1, <2>2, <3>1 DEF Whole
  <2> QED BY <1>2, <2>3, <2>4
<1> QED BY <1>5, <1>7, <1>8 DEF Chan, d

\* c and d agree on the stream, and d is not earlier in the handshake.
Keeps(c, d) == SameStream(c, d) /\ (d.state \in Early => c.state \in Early)

\* A reply leaves the stream alone.
LEMMA ReplyKeeps ==
  ASSUME NEW c, Steady(c), NEW flags \in SUBSET Flags
  PROVE  LET d == reply_empty_packet_to_client(c, flags)
         IN SameStream(c, d) /\ d.state = c.state /\ d.closed = c.closed
<1> DEFINE d == reply_empty_packet_to_client(c, flags)
<1>1. SameBut(c, d)
  BY ReplySteady
<1> HIDE DEF d
<1> QED BY <1>1 DEF SameBut, SameStream, d

\* close() leaves the channel and the stream alone.
LEMMA CloseFields ==
  ASSUME NEW c, Steady(c)
  PROVE  LET d == close(c)
         IN SameStream(c, d) /\ SameQueue(c, d) /\ d.state = c.state /\ d.closed
<1>1. c \in Connection
  BY DEF Steady
<1> QED BY <1>1 DEF close, Connection, SameStream, SameQueue

\* close() keeps the channel invariant.
LEMMA CloseChan ==
  ASSUME NEW c, Steady(c), c.state # "Init", NEW lo \in Nat, Chan(c, lo)
  PROVE  Chan(close(c), lo)
<1> DEFINE d == close(c)
<1>1. SameStream(c, d) /\ SameQueue(c, d) /\ d.state = c.state
  BY CloseFields
<1>2. Told(c) \in Nat
  BY Counted
<1> HIDE DEF d
<1>3. Told(d) = Told(c) /\ Told(d) <= Told(d)
  BY <1>1, <1>2, SameTold
<1> QED BY <1>1, <1>2, <1>3, ChanFrame DEF d

\* The error exit of the handlers.
LEMMA ReplyCloseChan ==
  ASSUME NEW c, Steady(c), c.state # "Init", NEW lo \in Nat, Chan(c, lo),
         NEW flags \in SUBSET Flags
  PROVE  LET d == close(reply_empty_packet_to_client(c, flags))
         IN Chan(d, lo) /\ SameStream(c, d) /\ d.state = c.state /\ d.closed
<1> DEFINE e == reply_empty_packet_to_client(c, flags)
<1>1. Chan(e, lo)
  BY ReplyChan
<1>2. Steady(e) /\ SameStream(c, e) /\ e.state = c.state
  BY ReplySteady, ReplyKeeps
<1> HIDE DEF e
<1>3. Chan(close(e), lo)
  BY <1>1, <1>2, CloseChan
<1>4. SameStream(e, close(e)) /\ close(e).state = e.state /\ close(e).closed
  BY <1>2, CloseFields
<1> QED BY <1>2, <1>3, <1>4 DEF SameStream, e

\* The relay's FIN keeps the channel invariant and the stream.
LEMMA FinSentChan ==
  ASSUME NEW c, Steady(c), c.state # "Init", NEW lo \in Nat, Chan(c, lo),
         NEW s \in TcpState \ Early
  PROVE  LET e == FinSent(c, s)
         IN Chan(e, lo) /\ SameStream(c, e) /\ e.state = s /\ e.closed = c.closed
<1> DEFINE r == reply_empty_packet_to_client(c, {"FIN", "ACK"})
           e == FinSent(c, s)
<1>1. Steady(r) /\ Chan(r, lo) /\ SameStream(c, r) /\ r.state = c.state /\ r.closed = c.closed
  BY ReplySteady, ReplyChan, ReplyKeeps DEF Flags
<1>2. e = [r EXCEPT !.fin_sequence_number = c.sequence_number,
                    !.sequence_number = wrapping_add(r.sequence_number, 1), !.state = s]
  BY DEF FinSent
<1> HIDE DEF r, e
<1>3. r \in Connection
  BY <1>1 DEF Steady
<1>4. SameStream(r, e) /\ SameQueue(r, e) /\ e.state = s /\ e.closed = r.closed
  BY <1>2, <1>3 DEF Connection, SameStream, SameQueue
<1>5. Told(r) \in Nat /\ Told(e) = Told(r)
  BY <1>1, <1>4, Counted, SameTold
<1>6. Chan(e, lo)
  <2>1. Told(r) <= Told(e) /\ e.state # "Init" /\ r.state # "Init"
    BY <1>1, <1>4, <1>5 DEF Early
  <2> QED BY <1>1, <1>4, <1>5, <2>1, ChanFrame
<1> QED BY <1>1, <1>4, <1>6 DEF SameStream, e

\* count_fin() counts one more acknowledged position.
LEMMA CountFinChan ==
  ASSUME NEW c, Steady(c), c.state # "Init", NEW lo \in Nat, Chan(c, lo)
  PROVE  LET d == count_fin(c)
         IN /\ Chan(d, lo) /\ d.fins = c.fins + 1 /\ d.state = c.state /\ d.closed = c.closed
            /\ d.written = c.written /\ d.client_to_network = c.client_to_network
            /\ d.fin_received = c.fin_received
<1> DEFINE d == count_fin(c)
<1>1. c \in Connection
  BY DEF Steady
<1>2. /\ d.fins = c.fins + 1 /\ d.state = c.state /\ d.closed = c.closed
      /\ d.written = c.written /\ d.client_to_network = c.client_to_network
      /\ d.fin_received = c.fin_received /\ SameQueue(c, d)
  BY <1>1 DEF count_fin, Connection, SameQueue
<1> HIDE DEF d
<1>3. Len(c.written) \in Nat /\ c.fins \in Nat
  BY Counted
<1>4. Told(c) \in Nat /\ Told(d) \in Nat /\ Told(c) <= Told(d)
  BY <1>2, <1>3, SMTT(40) DEF Told
<1>5. Chan(d, lo)
  BY <1>2, <1>4, ChanFrame
<1> QED BY <1>2, <1>5 DEF d

\* do_handle_fin() as a whole.
LEMMA DoHandleFinChan ==
  ASSUME NEW c, Steady(c), c.state # "Init", NEW lo \in Nat, Chan(c, lo)
  PROVE  LET d == do_handle_fin(c)
         IN /\ Chan(d, lo) /\ d.fins = c.fins + 1
            /\ d.state = c.state \/ d.state \notin Early
            /\ d.written = c.written /\ d.client_to_network = c.client_to_network
            /\ d.fin_received = c.fin_received
<1> DEFINE d == count_fin(c)
           ack == reply_empty_packet_to_client(d, {"ACK"})
           e == do_handle_fin(c)
<1>1. /\ Chan(d, lo) /\ d.fins = c.fins + 1 /\ d.state = c.state
      /\ d.written = c.written /\ d.client_to_network = c.client_to_network
      /\ d.fin_received = c.fin_received
  BY CountFinChan
<1>2. Steady(d)
  BY CountFin
<1>3. Steady(ack) /\ Chan(ack, lo) /\ SameStream(d, ack) /\ ack.state = d.state
  BY <1>1, <1>2, ReplySteady, ReplyChan, ReplyKeeps DEF Flags
<1>4. CASE d.state = "Established"
  <2>1. e = FinSent(d, "LastAck")
    BY <1>4 DEF do_handle_fin, FinSent
  <2>2. "LastAck" \in TcpState \ Early
    BY DEF TcpState, Early
  <2> HIDE DEF d, e
  <2>3. Chan(e, lo) /\ SameStream(d, e) /\ e.state = "LastAck"
    BY <1>1, <1>2, <1>4, <2>1, <2>2, FinSentChan
  <2> QED BY <1>1, <2>2, <2>3 DEF SameStream, e
<1>5. CASE d.state = "FinWait1"
  <2>1. e = [ack EXCEPT !.state = "Closing"]
    BY <1>5 DEF do_handle_fin
  <2> HIDE DEF d, ack, e
  <2>2. ack \in Connection
    BY <1>3 DEF Steady
  <2>3. SameStream(ack, e) /\ SameQueue(ack, e) /\ e.state = "Closing"
    BY <2>1, <2>2 DEF Connection, SameStream, SameQueue
  <2>4. Told(ack) \in Nat /\ Told(e) = Told(ack) /\ Told(ack) <= Told(e)
    BY <1>3, <2>3, Counted, SameTold
  <2>5. Chan(e, lo)
    BY <1>3, <1>5, <2>3, <2>4, ChanFrame
  <2> QED BY <1>1, <1>3, <2>3, <2>5 DEF SameStream, Early, e
<1>6. CASE d.state = "FinWait2"
  <2>1. e = close(ack)
    BY <1>6 DEF do_handle_fin
  <2> HIDE DEF d, ack, e
  <2>2. Chan(e, lo) /\ SameStream(ack, e) /\ e.state = ack.state
    BY <1>3, <1>6, <2>1, CloseChan, CloseFields
  <2> QED BY <1>1, <1>3, <2>2 DEF SameStream, e
<1>7. CASE d.state \notin {"Established", "FinWait1", "FinWait2"}
  <2>1. e = d
    BY <1>7 DEF do_handle_fin
  <2> QED BY <1>1, <2>1
<1> QED BY <1>4, <1>5, <1>6, <1>7

\* handle_fin() remembers the FIN, and counts it when nothing is buffered before it.
LEMMA HandleFinChan ==
  ASSUME NEW c, Steady(c), c.state # "Init", NEW lo \in Nat, Chan(c, lo)
  PROVE  LET d == handle_fin(c)
         IN /\ Chan(d, lo) /\ d.fin_received
            /\ d.state = c.state \/ d.state \notin Early
            /\ d.written = c.written /\ d.client_to_network = c.client_to_network
            /\ d.fins = IF c.client_to_network = << >> THEN c.fins + 1 ELSE c.fins
<1> DEFINE d == [c EXCEPT !.fin_received = TRUE]
<1>1. c \in Connection
  BY DEF Steady
<1>2. d \in Connection
  BY <1>1 DEF Connection
<1>3. /\ d.state = c.state /\ SamePending(c, d) /\ SameQueue(c, d) /\ d.fin_received
      /\ d.syn_sequence_number = c.syn_sequence_number
      /\ d.acknowledgement_number = c.acknowledgement_number
      /\ d.written = c.written /\ d.fins = c.fins
      /\ d.client_to_network = c.client_to_network
  BY <1>1 DEF Connection, SamePending, SameQueue
<1>4. handle_fin(c) = IF d.client_to_network = << >> THEN do_handle_fin(d) ELSE d
  BY DEF handle_fin
<1> HIDE DEF d
<1>5. Steady(d) /\ d.state # "Init"
  BY <1>2, <1>3, SteadyFrame
<1>6. Told(c) \in Nat /\ Told(d) = Told(c) /\ Told(c) <= Told(d)
  BY <1>3, Counted DEF Told
<1>7. Chan(d, lo)
  BY <1>3, <1>5, <1>6, ChanFrame
<1> DEFINE e == do_handle_fin(d)
<1>8. /\ Chan(e, lo) /\ e.fins = d.fins + 1
      /\ e.state = d.state \/ e.state \notin Early
      /\ e.written = d.written /\ e.client_to_network = d.client_to_network
      /\ e.fin_received = d.fin_received
  BY <1>5, <1>7, DoHandleFinChan
<1> HIDE DEF e
<1> QED BY <1>3, <1>4, <1>7, <1>8 DEF e

\* The acknowledgement of the relay's FIN concerns neither.
LEMMA HandleFinAckChan ==
  ASSUME NEW c, Steady(c), c.state # "Init", NEW lo \in Nat, Chan(c, lo)
  PROVE  LET d == handle_fin_ack(c)
         IN Chan(d, lo) /\ SameStream(c, d) /\ (d.state = c.state \/ d.state \notin Early)
<1>1. CASE c.state \in {"LastAck", "Closing"}
  <2>1. handle_fin_ack(c) = close(c)
    BY <1>1 DEF handle_fin_ack
  <2> QED BY <2>1, CloseChan, CloseFields
<1>2. CASE c.state = "FinWait1"
  <2> DEFINE d == handle_fin_ack(c)
  <2>1. d = [c EXCEPT !.state = "FinWait2"]
    BY <1>2 DEF handle_fin_ack
  <2>2. c \in Connection
    BY DEF Steady
  <2> HIDE DEF d
  <2>3. SameStream(c, d) /\ SameQueue(c, d) /\ d.state = "FinWait2"
    BY <2>1, <2>2 DEF Connection, SameStream, SameQueue
  <2>4. Told(c) \in Nat /\ Told(d) = Told(c) /\ Told(c) <= Told(d)
    BY <2>3, Counted, SameTold
  <2>5. Chan(d, lo)
    BY <2>3, <2>4, ChanFrame
  <2> QED BY <2>3, <2>5 DEF d, Early
<1>3. CASE c.state \notin {"LastAck", "Closing", "FinWait1"}
  <2>1. handle_fin_ack(c) = c
    BY <1>3 DEF handle_fin_ack
  <2> QED BY <2>1 DEF SameStream
<1> QED BY <1>1, <1>2, <1>3

\* The bytes of a packet join the stream, unless it completes the handshake or there
\* is no room for it.
Buffered(c, p) == IF c.state = "SynReceived" \/ StreamCapacity - Len(c.client_to_network) < Len(p.data)
                  THEN c.client_to_network ELSE c.client_to_network \o p.data

\* handle_ack() buffers the bytes and completes the handshake.
LEMMA HandleAckChan ==
  ASSUME NEW c, Steady(c), c.state # "Init", NEW p \in DevicePacket,
         NEW lo \in Nat, Chan(c, lo)
  PROVE  LET d == handle_ack(c, p)
         IN /\ Chan(d, lo) /\ d.written = c.written
            /\ d.client_to_network = Buffered(c, p)
            /\ d.fins = c.fins /\ d.fin_received = c.fin_received
            /\ c.state = "SynReceived" => d.state = "Established"
            /\ c.state # "SynReceived" => d.state = c.state
<1> DEFINE d == handle_ack(c, p)
<1>1. c \in Connection
  BY DEF Steady
<1>2. /\ d.written = c.written /\ SameQueue(c, d)
      /\ d.client_to_network = Buffered(c, p)
      /\ d.fins = c.fins /\ d.fin_received = c.fin_received
      /\ c.state = "SynReceived" => d.state = "Established"
      /\ c.state # "SynReceived" => d.state = c.state
  BY <1>1 DEF handle_ack, Buffered, Connection, SameQueue
<1> HIDE DEF d
<1>3. Told(c) \in Nat /\ Told(d) = Told(c) /\ Told(c) <= Told(d)
  BY <1>2, Counted DEF Told
<1>4. Chan(d, lo)
  BY <1>2, <1>3, ChanFrame
<1> QED BY <1>2, <1>4 DEF d

\* What the expected packet does to the stream.
Taken(c, p, d) ==
  LET buffered == IF "ACK" \in p.flags THEN Buffered(c, p) ELSE c.client_to_network
  IN /\ d.written = c.written
     /\ \/ "RST" \in p.flags /\ SameStream(c, d) /\ d.state = c.state
        \/ /\ "RST" \notin p.flags /\ d.client_to_network = buffered
           /\ "FIN" \notin p.flags => d.fins = c.fins /\ d.fin_received = c.fin_received
           /\ "FIN" \in p.flags => /\ d.fin_received
                                   /\ d.fins = IF buffered = << >> THEN c.fins + 1 ELSE c.fins
           /\ \/ d.state \notin Early
              \/ d.state = c.state /\ ("ACK" \in p.flags => c.state # "SynReceived")

\* handle_expected_packet() as a whole.
LEMMA ExpectedChan ==
  ASSUME NEW c, Steady(c), c.state # "Init", NEW p \in DevicePacket,
         NEW lo \in Nat, Chan(c, lo)
  PROVE  LET d == handle_expected_packet(c, p)
         IN Chan(d, lo) /\ Taken(c, p, d)
<1> DEFINE w == [c EXCEPT !.client_window = p.window, !.their_acknowledgement_number = p.ack]
           a == IF "ACK" \in p.flags THEN handle_ack(w, p) ELSE w
           f == IF "FIN" \in p.flags THEN handle_fin(a) ELSE a
           e == handle_expected_packet(c, p)
           buffered == IF "ACK" \in p.flags THEN Buffered(c, p) ELSE c.client_to_network
<1>1. c \in Connection /\ p.window \in 0 .. MaxWindow /\ p.ack \in Seqno
  BY DEF Steady, DevicePacket
<1>2. w \in Connection
  BY <1>1 DEF Connection
<1>3. /\ w.state = c.state /\ SamePending(c, w) /\ SameStream(c, w) /\ SameQueue(c, w)
      /\ w.syn_sequence_number = c.syn_sequence_number
      /\ w.acknowledgement_number = c.acknowledgement_number
      /\ w.written = c.written /\ w.fins = c.fins
  BY <1>1 DEF Connection, SamePending, SameStream, SameQueue
<1>4. /\ "RST" \in p.flags => e = close(w)
      /\ "RST" \notin p.flags => e \in {f, handle_fin_ack(f)}
  BY DEF handle_expected_packet
<1> HIDE DEF w, e
<1>5. Steady(w) /\ w.state # "Init"
  BY <1>2, <1>3, SteadyFrame
<1>6. Chan(w, lo)
  <2>1. Told(c) \in Nat /\ Told(w) = Told(c) /\ Told(c) <= Told(w)
    BY <1>3, Counted, SameTold
  <2> QED BY <1>3, <1>5, <2>1, ChanFrame
<1>7. Steady(a) /\ a.state # "Init"
  BY <1>5, HandleAck
<1>8. /\ Chan(a, lo) /\ a.written = c.written /\ a.client_to_network = buffered
      /\ a.fins = c.fins /\ a.fin_received = c.fin_received
      /\ \/ a.state \notin Early
         \/ a.state = c.state /\ ("ACK" \in p.flags => c.state # "SynReceived")
  <2>1. CASE "ACK" \in p.flags
    <3>1. Buffered(w, p) = Buffered(c, p)
      BY <1>3 DEF Buffered, SameStream
    <3>2. LET d == handle_ack(w, p)
          IN /\ Chan(d, lo) /\ d.written = w.written
             /\ d.client_to_network = Buffered(w, p)
             /\ d.fins = w.fins /\ d.fin_received = w.fin_received
             /\ w.state = "SynReceived" => d.state = "Established"
             /\ w.state # "SynReceived" => d.state = w.state
      BY <1>5, <1>6, HandleAckChan
    <3> QED BY <1>3, <2>1, <3>1, <3>2 DEF SameStream, Early
  <2>2. CASE "ACK" \notin p.flags
    BY <1>3, <1>6, <2>2 DEF SameStream
  <2> QED BY <2>1, <2>2
<1> HIDE DEF a, buffered
<1>9. Steady(f) /\ f.state # "Init"
  BY <1>7, HandleFin DEF SamePending
<1>10. /\ Chan(f, lo) /\ f.written = c.written /\ f.client_to_network = buffered
       /\ "FIN" \notin p.flags => f.fins = c.fins /\ f.fin_received = c.fin_received
       /\ "FIN" \in p.flags => /\ f.fin_received
                               /\ f.fins = IF buffered = << >> THEN c.fins + 1 ELSE c.fins
       /\ \/ f.state \notin Early
          \/ f.state = c.state /\ ("ACK" \in p.flags => c.state # "SynReceived")
  <2>1. CASE "FIN" \in p.flags
    <3>1. LET d == handle_fin(a)
          IN /\ Chan(d, lo) /\ d.fin_received
             /\ d.state = a.state \/ d.state \notin Early
             /\ d.written = a.written /\ d.client_to_network = a.client_to_network
             /\ d.fins = IF a.client_to_network = << >> THEN a.fins + 1 ELSE a.fins
      BY <1>7, <1>8, HandleFinChan
    <3> QED BY <1>8, <2>1, <3>1
  <2>2. CASE "FIN" \notin p.flags
    BY <1>8, <2>2
  <2> QED BY <2>1, <2>2
<1> HIDE DEF f
<1>11. LET d == handle_fin_ack(f)
       IN Chan(d, lo) /\ SameStream(f, d) /\ (d.state = f.state \/ d.state \notin Early)
  BY <1>9, <1>10, HandleFinAckChan
<1>12. CASE "RST" \in p.flags
  <2>1. Chan(e, lo) /\ SameStream(w, e) /\ e.state = w.state
    BY <1>4, <1>5, <1>6, <1>12, CloseChan, CloseFields
  <2> QED BY <1>3, <1>12, <2>1 DEF Taken, SameStream, e
<1>13. CASE "RST" \notin p.flags
  <2>1. CASE e = f
    BY <1>10, <1>13, <2>1 DEF Taken, buffered, e
  <2>2. CASE e = handle_fin_ack(f)
    BY <1>10, <1>11, <1>13, <2>2 DEF Taken, SameStream, buffered, e
  <2> QED BY <1>4, <1>13, <2>1, <2>2
<1> QED BY <1>12, <1>13

\* The SYN stands at the device's initial sequence number.
LEMMA DeviceSeqZero == DeviceSeq(0) = DeviceIsn
<1>1. DeviceIsn \in Nat /\ DeviceIsn < SeqSpace /\ DeviceIsn + 0 = DeviceIsn
  BY TunnelFacts, ConstantFacts DEF Seqno
<1>2. DeviceIsn % SeqSpace = DeviceIsn
  BY <1>1, ConstantFacts, ModSmall
<1> QED BY <1>1, <1>2 DEF DeviceSeq, wrapping_add

\* The first packet: a SYN starts the count, anything else is answered by a reset.
LEMMA FirstChan ==
  ASSUME NEW c, Steady(c), c.state = "Init", c.channel = << >>, NEW p \in DevicePacket,
         NEW isn \in Seqno, NEW lo \in Nat, Chan(c, lo),
         "SYN" \in p.flags => p.seq = DeviceSeq(0)
  PROVE  LET d == handle_first_packet(c, p, isn)
         IN /\ Chan(d, lo) /\ SameStream(c, d)
            /\ "SYN" \in p.flags => d.state = "SynSent" /\ d.closed = c.closed /\ d.channel = << >>
            /\ "SYN" \notin p.flags => d.state = "Init" /\ d.closed
<1> DEFINE d == handle_first_packet(c, p, isn)
<1>1. c \in Connection /\ c.written = << >> /\ c.fins = 0
  BY DEF Steady
<1>2. c.packet_for_client_length = 0 /\ lo <= 1
  BY DEF Chan
<1>3. CASE "SYN" \in p.flags
  <2>1. /\ d.state = "SynSent" /\ d.channel = << >> /\ SameStream(c, d) /\ d.closed = c.closed
        /\ d.packet_for_client_length = 0 /\ d.syn_sequence_number = p.seq
    BY <1>1, <1>2, <1>3 DEF handle_first_packet, Connection, SameStream
  <2> HIDE DEF d
  <2>2. Told(d) = 1 /\ Len(d.channel) = 0
    BY <1>1, <2>1 DEF Told, SameStream
  <2> DEFINE g == [i \in 1 .. 0 |-> 0]
  <2>3. g \in [1 .. Len(d.channel) -> Nat] /\ 1 \in Nat
    BY <2>2
  <2>4. Ascending(d, lo, g, 1)
    BY <1>2, <2>1, <2>2 DEF Ascending
  <2>5. Queued(d, lo)
    BY <2>3, <2>4 DEF Queued
  <2>6. Whole(d)
    BY <2>1, <2>2 DEF Whole
  <2>7. Chan(d, lo)
    BY <1>3, <2>1, <2>5, <2>6, DeviceSeqZero DEF Chan
  <2> QED BY <1>3, <2>1, <2>7 DEF d
<1>4. CASE "SYN" \notin p.flags
  <2> DEFINE b == [c EXCEPT !.sequence_number = p.ack]
             r == reply_empty_packet_to_client(b, {"RST"})
             q == empty_packet(b, {"RST"})
  <2>1. d = close(r)
    BY <1>4 DEF handle_first_packet
  <2>2. p.ack \in Seqno
    BY DEF DevicePacket
  <2>3. b \in Connection
    BY <1>1, <2>2 DEF Connection
  <2>4. SameStream(c, b) /\ SameQueue(c, b) /\ b.state = c.state
    BY <1>1 DEF Connection, SameStream, SameQueue
  <2> HIDE DEF b
  <2>5. r \in Connection /\ SameBut(b, r)
    BY <2>3, Reply DEF Flags
  <2>6. r.channel \in {b.channel, Append(b.channel, q)} /\ q.total_length = Headers
    BY <2>3, ReplyFields DEF Flags, empty_packet
  <2> HIDE DEF r, q
  <2>7. SameStream(r, d) /\ SameQueue(r, d) /\ d.state = r.state /\ d.closed
    BY <2>1, <2>5 DEF close, Connection, SameStream, SameQueue
  <2> HIDE DEF d
  <2>8. SameStream(c, d) /\ d.state = "Init" /\ d.packet_for_client_length = 0
    BY <1>2, <2>4, <2>5, <2>7 DEF SameStream, SameQueue, SameBut
  <2>9. \A i \in 1 .. Len(d.channel) : d.channel[i] = q
    <3>1. d.channel \in {<< >>, Append(<< >>, q)}
      BY <2>4, <2>6, <2>7 DEF SameQueue
    <3> QED BY <3>1
  <2>10. Chan(d, lo)
    BY <1>2, <2>6, <2>8, <2>9, ConstantFacts DEF Chan, Whole
  <2> QED BY <1>4, <2>7, <2>8, <2>10 DEF d
<1> QED BY <1>3, <1>4

\* A repeated SYN of the same connection changes nothing the device can see.
LEMMA DuplicateSynChan ==
  ASSUME NEW c, Steady(c), c.state # "Init", c.state = "SynSent" => c.fins = 0,
         NEW p \in DevicePacket, p.seq = DeviceSeq(0), NEW lo \in Nat, Chan(c, lo)
  PROVE  LET d == handle_duplicate_syn(c, p)
         IN /\ Chan(d, lo) /\ SameStream(c, d) /\ d.state = c.state
            /\ d.closed = c.closed /\ d.channel = c.channel
<1> DEFINE d == handle_duplicate_syn(c, p)
<1>1. c \in Connection /\ c.syn_sequence_number = p.seq
  BY DeviceSeqZero DEF Steady, Chan
<1>2. /\ SameQueue(c, d) /\ SameStream(c, d) /\ d.state = c.state /\ d.closed = c.closed
  BY <1>1 DEF handle_duplicate_syn, Connection, SameQueue, SameStream
<1> HIDE DEF d
<1>3. Told(c) \in Nat /\ Told(d) = Told(c) /\ Told(c) <= Told(d)
  BY <1>2, Counted, SameTold
<1>4. Chan(d, lo)
  BY <1>2, <1>3, ChanFrame
<1> QED BY <1>2, <1>4 DEF d, SameQueue

\* update_interests() concerns neither the channel nor the stream.
LEMMA InterestsFields ==
  ASSUME NEW c, Steady(c)
  PROVE  LET d == update_interests(c)
         IN SameQueue(c, d) /\ SameStream(c, d) /\ d.state = c.state /\ d.closed = c.closed
<1>1. c \in Connection
  BY DEF Steady
<1> QED BY <1>1 DEF update_interests, Connection, SameQueue, SameStream

\* So it keeps the channel invariant.
LEMMA InterestsChan ==
  ASSUME NEW c, Steady(c), NEW lo \in Nat, Chan(c, lo)
  PROVE  Chan(update_interests(c), lo)
<1> DEFINE d == update_interests(c)
<1>1. SameQueue(c, d) /\ SameStream(c, d) /\ d.state = c.state
  BY InterestsFields
<1> HIDE DEF d
<1>2. Told(c) \in Nat /\ Told(d) = Told(c) /\ Told(c) <= Told(d)
  BY <1>1, Counted, SameTold
<1>3. CASE c.state # "Init"
  BY <1>1, <1>2, <1>3, ChanFrame DEF d
<1>4. CASE c.state = "Init"
  BY <1>1, <1>4 DEF Chan, Whole, SameQueue, d
<1> QED BY <1>3, <1>4

\* What a packet of the device does, by the state it finds.
Handled(c, p, d) ==
  /\ c.state = "Init" /\ "SYN" \in p.flags =>
       SameStream(c, d) /\ d.state = "SynSent" /\ d.channel = << >> /\ d.closed = c.closed
  /\ c.state = "Init" /\ "SYN" \notin p.flags => SameStream(c, d) /\ d.state = "Init" /\ d.closed
  /\ c.state # "Init" /\ "SYN" \in p.flags =>
       SameStream(c, d) /\ d.state = c.state /\ d.channel = c.channel /\ d.closed = c.closed
  /\ c.state # "Init" /\ "SYN" \notin p.flags =>
       \/ p.seq = expected_packet(c) /\ Taken(c, p, d)
       \/ p.seq # expected_packet(c) /\ SameStream(c, d) /\ d.state = c.state

\* send_to_network() as a whole.
LEMMA SendToNetworkChan ==
  ASSUME NEW c, Steady(c), NEW p \in DevicePacket, NEW isn \in Seqno,
         NEW lo \in Nat, Chan(c, lo), c.state = "Init" => c.channel = << >>,
         c.state = "SynSent" => c.fins = 0,
         "SYN" \in p.flags => p.seq = DeviceSeq(0)
  PROVE  LET d == send_to_network(c, p, isn)
         IN Chan(d, lo) /\ Handled(c, p, d)
<1> DEFINE d == handle_packet(c, p, isn)
           e == send_to_network(c, p, isn)
<1>1. Steady(d)
  BY HandlePacket
<1>2. Chan(d, lo) /\ Handled(c, p, d)
  <2>1. CASE c.state = "Init"
    <3>1. d = handle_first_packet(c, p, isn)
      BY <2>1 DEF handle_packet
    <3> HIDE DEF d
    <3> QED BY <2>1, <3>1, FirstChan DEF Handled
  <2>2. CASE c.state # "Init" /\ "SYN" \in p.flags
    <3>1. d = handle_duplicate_syn(c, p)
      BY <2>2 DEF handle_packet
    <3> HIDE DEF d
    <3> QED BY <2>2, <3>1, DuplicateSynChan DEF Handled
  <2>3. CASE c.state # "Init" /\ "SYN" \notin p.flags /\ p.seq = expected_packet(c)
    <3>1. d = handle_expected_packet(c, p)
      BY <2>3 DEF handle_packet
    <3> HIDE DEF d
    <3> QED BY <2>3, <3>1, ExpectedChan DEF Handled
  <2>4. CASE c.state # "Init" /\ "SYN" \notin p.flags /\ p.seq # expected_packet(c)
    <3>1. d = c
      BY <2>4 DEF handle_packet
    <3> QED BY <2>4, <3>1 DEF Handled, SameStream
  <2> QED BY <2>1, <2>2, <2>3, <2>4
<1>3. e = IF d.closed THEN d ELSE update_interests(d)
  BY DEF send_to_network
<1> HIDE DEF d, e
<1>4. Chan(e, lo) /\ SameQueue(d, e) /\ SameStream(d, e) /\ e.state = d.state /\ e.closed = d.closed
  BY <1>1, <1>2, <1>3, InterestsChan, InterestsFields DEF SameQueue, SameStream
<1>5. Handled(c, p, e)
  BY <1>2, <1>4 DEF Handled, SameQueue, SameStream, Taken
<1> QED BY <1>4, <1>5 DEF e

-----------------------------------------------------------------------------
(***************************************************************************)
(* A socket event.                                                         *)
(***************************************************************************)
\* The SYN-ACK leaves the stream alone.
LEMMA ConnectChan ==
  ASSUME NEW c, Steady(c), c.state = "SynSent", NEW lo \in Nat, Chan(c, lo)
  PROVE  LET d == process_connect(c)
         IN Chan(d, lo) /\ SameStream(c, d) /\ d.state = "SynReceived"
<1> DEFINE b == [c EXCEPT !.state = "SynReceived"]
           r == reply_empty_packet_to_client(b, {"SYN", "ACK"})
           d == process_connect(c)
<1>1. Steady(b) /\ b.state = "SynReceived"
  BY StateSteady DEF TcpState
<1>2. c \in Connection
  BY DEF Steady
<1>3. SameQueue(c, b) /\ SameStream(c, b)
  BY <1>2 DEF Connection, SameQueue, SameStream
<1>4. d = [r EXCEPT !.sequence_number = wrapping_add(r.sequence_number, 1)]
  BY DEF process_connect
<1> HIDE DEF b
<1>5. Told(c) \in Nat /\ Told(b) = Told(c) /\ Told(c) <= Told(b)
  BY <1>3, Counted, SameTold
<1>6. Chan(b, lo)
  BY <1>1, <1>3, <1>5, ChanFrame
<1>7. Steady(r) /\ Chan(r, lo) /\ SameStream(b, r) /\ r.state = "SynReceived"
  BY <1>1, <1>6, ReplySteady, ReplyChan, ReplyKeeps DEF Flags
<1> HIDE DEF r, d
<1>8. r \in Connection
  BY <1>7 DEF Steady
<1>9. SameQueue(r, d) /\ SameStream(r, d) /\ d.state = r.state
  BY <1>4, <1>8 DEF Connection, SameQueue, SameStream
<1>10. Told(r) \in Nat /\ Told(d) = Told(r) /\ Told(r) <= Told(d)
  BY <1>7, <1>9, Counted, SameTold
<1>11. Chan(d, lo)
  BY <1>7, <1>9, <1>10, ChanFrame
<1> QED BY <1>3, <1>7, <1>9, <1>11 DEF SameStream, d

\* The bytes the socket takes move from the buffer to what was written.
Moved(c, d, w) ==
  /\ d.written = c.written \o SubSeq(c.client_to_network, 1, w)
  /\ d.client_to_network = SubSeq(c.client_to_network, w + 1, Len(c.client_to_network))
  /\ d.fin_received = c.fin_received

\* written_to_socket() acknowledges what it moves.
LEMMA WrittenChan ==
  ASSUME NEW c, Steady(c), c.state \notin {"Init", "SynSent"},
         NEW w \in 1 .. Len(c.client_to_network), NEW lo \in Nat, Chan(c, lo)
  PROVE  LET d == written_to_socket(c, w)
         IN Chan(d, lo) /\ Moved(c, d, w) /\ d.fins = c.fins /\ d.state = c.state
<1> DEFINE d == written_to_socket(c, w)
<1>1. c \in Connection
  BY DEF Steady
<1>2. SameQueue(c, d) /\ Moved(c, d, w) /\ d.fins = c.fins /\ d.state = c.state
  BY <1>1 DEF written_to_socket, Connection, SameQueue, Moved
<1>3. Steady(d)
  BY WrittenToSocket
<1> HIDE DEF d
<1>4. Told(c) \in Nat /\ Told(d) \in Nat /\ Told(c) <= Told(d)
  <2>1. /\ c.written \in Seq(Nat) /\ c.client_to_network \in Seq(Nat)
        /\ c.fins \in Nat /\ Told(c) \in Nat /\ Told(d) \in Nat
    BY <1>3, Counted
  <2>2. SubSeq(c.client_to_network, 1, w) \in Seq(Nat)
    BY <2>1
  <2>3. Len(d.written) = Len(c.written) + Len(SubSeq(c.client_to_network, 1, w))
    BY <1>2, <2>1, <2>2, ConcatProperties DEF Moved
  <2>4. Len(c.written) \in Nat /\ Len(SubSeq(c.client_to_network, 1, w)) \in Nat
    BY <2>1, <2>2, LenProperties
  <2> QED BY <1>2, <2>1, <2>3, <2>4 DEF Told
<1>5. Chan(d, lo)
  BY <1>2, <1>4, ChanFrame
<1> QED BY <1>2, <1>5 DEF d

\* What a socket event does to the stream.
Wrote(c, d) ==
  \/ Keeps(c, d)
  \/ /\ c.state \notin {"Init", "SynSent"} /\ (d.state \in Early => c.state \in Early)
     /\ \E w \in 1 .. Len(c.client_to_network) : Moved(c, d, w)
     /\ d.fins = IF d.fin_received /\ d.client_to_network = << >> THEN c.fins + 1 ELSE c.fins

\* process_send(): the FIN that was waiting for the last byte is counted then.
LEMMA ProcessSendChan ==
  ASSUME NEW c, Steady(c), c.state \notin {"Init", "SynSent"},
         NEW w, w \in WriteResults(c), w # WouldBlock, NEW lo \in Nat, Chan(c, lo)
  PROVE  LET d == process_send(c, w)
         IN Chan(d, lo) /\ Wrote(c, d) /\ d.state \notin {"Init", "SynSent"}
<1>1. CASE w = Error
  <2>1. process_send(c, w) = close(reply_empty_packet_to_client(c, {"RST"}))
    BY <1>1 DEF process_send, Error, WouldBlock
  <2> QED BY <2>1, ReplyCloseChan DEF Flags, Wrote, Keeps
<1>2. CASE w = 0
  <2>1. process_send(c, w) = close(c)
    BY <1>2 DEF process_send, Error, WouldBlock
  <2> QED BY <2>1, CloseChan, CloseFields DEF Wrote, Keeps
<1>3. CASE w # Error /\ w # 0
  <2> DEFINE d == written_to_socket(c, w)
             a == reply_empty_packet_to_client(d, {"ACK"})
             e == process_send(c, w)
  <2>1. w \in 1 .. Len(c.client_to_network)
    BY <1>3 DEF WriteResults
  <2>2. e = IF d.fin_received /\ d.client_to_network = << >> THEN do_handle_fin(d) ELSE a
    BY <1>3 DEF process_send
  <2>3. Steady(d) /\ Chan(d, lo) /\ Moved(c, d, w) /\ d.fins = c.fins /\ d.state = c.state
    BY <2>1, WrittenToSocket, WrittenChan
  <2> HIDE DEF d, e
  <2>4. CASE d.fin_received /\ d.client_to_network = << >>
    <3>1. /\ Chan(e, lo) /\ e.fins = d.fins + 1
          /\ e.state = d.state \/ e.state \notin Early
          /\ e.written = d.written /\ e.client_to_network = d.client_to_network
          /\ e.fin_received = d.fin_received
      BY <2>2, <2>3, <2>4, DoHandleFinChan
    <3> QED BY <2>1, <2>3, <2>4, <3>1 DEF Wrote, Moved, Early, e
  <2>5. CASE ~(d.fin_received /\ d.client_to_network = << >>)
    <3>1. Chan(e, lo) /\ SameStream(d, e) /\ e.state = d.state
      BY <2>2, <2>3, <2>5, ReplyChan, ReplyKeeps DEF Flags
    <3> QED BY <2>1, <2>3, <2>5, <3>1 DEF Wrote, Moved, SameStream, e
  <2> QED BY <2>4, <2>5
<1> QED BY <1>1, <1>2, <1>3

\* The first half of process().
LEMMA SentPartChan ==
  ASSUME NEW c, Steady(c), c.state # "Init", NEW events, NEW lo \in Nat, Chan(c, lo),
         NEW w, w \in WriteResults(c), ~write_blocked(c, events, w)
  PROVE  LET s == sent_part(c, events, w)
         IN /\ Chan(s, lo) /\ Wrote(c, s) /\ s.state # "Init"
            /\ "writable" \in events => s.state # "SynSent"
            /\ s.state = "SynSent" => c.state = "SynSent"
<1>1. CASE "writable" \notin events
  BY <1>1 DEF sent_part, Wrote, Keeps, SameStream
<1>2. CASE "writable" \in events /\ c.state = "SynSent"
  <2>1. sent_part(c, events, w) = process_connect(c)
    BY <1>2 DEF sent_part
  <2> QED BY <1>2, <2>1, ConnectChan DEF Wrote, Keeps, Early
<1>3. CASE "writable" \in events /\ c.state # "SynSent"
  <2>1. sent_part(c, events, w) = process_send(c, w) /\ w # WouldBlock
    BY <1>3 DEF sent_part, write_blocked
  <2> QED BY <1>3, <2>1, ProcessSendChan
<1> QED BY <1>1, <1>2, <1>3

\* The channel grows by one packet that acknowledges what is acknowledged now.
LEMMA AppendChan ==
  ASSUME NEW c, NEW d, NEW p, NEW lo \in Nat, Steady(c), c.state # "Init", Chan(c, lo),
         d.channel = Append(c.channel, p), p.ack = DeviceSeq(Told(c)), Headers <= p.total_length,
         d.packet_for_client_length = 0, Told(d) = Told(c), d.state = c.state,
         d.syn_sequence_number = c.syn_sequence_number
  PROVE  Chan(d, lo)
<1>1. c.channel \in Seq(ClientPacket) /\ Told(c) \in Nat
  BY Counted DEF Steady, Connection
<1>2. Queued(d, lo)
  <2>1. Told(c) <= Told(d) /\ Told(d) \in Nat
    BY <1>1
  <2> QED BY <1>1, <2>1, QueuedAppend DEF Chan
<1>3. Whole(d)
  <2>1. \A i \in 1 .. Len(d.channel) :
        (i \in 1 .. Len(c.channel) /\ d.channel[i] = c.channel[i]) \/ d.channel[i] = p
    BY <1>1, AppendProperties
  <2> QED BY <2>1 DEF Chan, Whole
<1> QED BY <1>2, <1>3 DEF Chan

\* The bytes of the server are sent, or deferred, with the current acknowledgement.
LEMMA ReceiveDataChan ==
  ASSUME NEW c, Steady(c), c.state # "Init", c.packet_for_client_length = 0, NEW r \in Nat,
         NEW lo \in Nat, Chan(c, lo)
  PROVE  LET d == receive_data(c, r)
         IN Chan(d, lo) /\ SameStream(c, d) /\ d.state = c.state
<1> DEFINE p == data_packet(c, r)
           d == [c EXCEPT !.taken = @ + r]
           e == receive_data(c, r)
<1>1. c \in Connection /\ Told(c) \in Nat
  BY Counted DEF Steady
<1>2. p.ack = DeviceSeq(Told(c)) /\ Headers <= p.total_length /\ p.raw = p.total_length
  <2>1. Headers <= Headers + r
    BY ConstantFacts
  <2> QED BY <2>1, ToldIsAcked DEF Chan, data_packet
<1>3. e = IF p.total_length <= room(c)
          THEN [send_to_client(d, p) EXCEPT !.sequence_number = wrapping_add(@, r)]
          ELSE defer(d, p)
  BY DEF receive_data
<1>4. /\ SameStream(c, d) /\ SameQueue(c, d) /\ d.state = c.state /\ room(d) = room(c)
      /\ d \in Connection
  <2>1. c.taken + r \in Nat
    BY <1>1 DEF Connection
  <2> QED BY <1>1, <2>1 DEF Connection, SameStream, SameQueue, room
<1> HIDE DEF p, d, e
<1>5. CASE p.total_length <= room(c)
  <2> DEFINE q == [d EXCEPT !.channel = Append(@, p), !.used = @ + p.raw]
  <2>1. e = [q EXCEPT !.sequence_number = wrapping_add(@, r)]
    BY <1>2, <1>3, <1>4, <1>5 DEF send_to_client
  <2>2. /\ e.channel = Append(c.channel, p) /\ SameStream(c, e) /\ e.state = c.state
        /\ e.packet_for_client_length = 0 /\ e.syn_sequence_number = c.syn_sequence_number
    BY <1>4, <2>1 DEF Connection, SameStream, SameQueue
  <2>3. Chan(e, lo)
    BY <1>2, <2>2, SameTold, AppendChan
  <2> QED BY <2>2, <2>3 DEF e
<1>6. CASE ~(p.total_length <= room(c))
  <2>1. e = [d EXCEPT !.packetizer = p, !.packet_for_client_length = p.total_length,
                      !.pending_packet_sources = @ + 1, !.deferred = TRUE]
    BY <1>3, <1>6 DEF defer
  <2>2. /\ e.channel = c.channel /\ SameStream(c, e) /\ e.state = c.state
        /\ e.packetizer = p /\ e.syn_sequence_number = c.syn_sequence_number
    BY <1>4, <2>1 DEF Connection, SameStream, SameQueue
  <2>3. Told(e) = Told(c) /\ Told(c) <= Told(e)
    BY <1>1, <2>2, SameTold
  <2>4. Queued(e, lo)
    BY <1>1, <1>2, <2>2, <2>3, QueuedHeader DEF Chan
  <2>5. Whole(e)
    BY <1>2, <2>2 DEF Chan, Whole
  <2> QED BY <2>2, <2>4, <2>5 DEF Chan, e
<1> QED BY <1>5, <1>6

\* process_receive() as a whole.
LEMMA ProcessReceiveChan ==
  ASSUME NEW c, Steady(c), c.state # "Init", c.packet_for_client_length = 0,
         NEW r, r \in ReadResults(c), NEW lo \in Nat, Chan(c, lo)
  PROVE  LET d == process_receive(c, r)
         IN Chan(d, lo) /\ SameStream(c, d) /\ (d.state = c.state \/ d.state \notin Early)
<1> DEFINE d == process_receive(c, r)
<1>1. CASE remaining_client_window(c) = 0
  <2>1. c \in Connection /\ Told(c) \in Nat
    BY Counted DEF Steady
  <2>2. d = [c EXCEPT !.panic = "window"]
    BY <1>1 DEF process_receive
  <2>3. SameQueue(c, d) /\ SameStream(c, d) /\ d.state = c.state
    BY <2>1, <2>2 DEF Connection, SameQueue, SameStream
  <2> HIDE DEF d
  <2>4. Told(c) \in Nat /\ Told(d) = Told(c) /\ Told(c) <= Told(d)
    BY <2>1, <2>3, SameTold
  <2>5. Chan(d, lo)
    BY <2>3, <2>4, ChanFrame
  <2> QED BY <2>3, <2>5 DEF d
<1>2. CASE remaining_client_window(c) # 0
  <2>1. CASE r = WouldBlock
    <3>1. d = c
      BY <1>2, <2>1 DEF process_receive, Error, WouldBlock
    <3> QED BY <3>1 DEF SameStream
  <2>2. CASE r = Error
    <3>1. d = close(reply_empty_packet_to_client(c, {"RST"}))
      BY <1>2, <2>2 DEF process_receive, Error, WouldBlock
    <3> QED BY <3>1, ReplyCloseChan DEF Flags
  <2>3. CASE r = 0
    <3> DEFINE s == IF c.state = "CloseWait" THEN "LastAck" ELSE "FinWait1"
               q == reply_empty_packet_to_client(c, {"FIN", "ACK"})
    <3>1. s \in TcpState \ Early
      BY DEF TcpState, Early
    <3>2. q.state = c.state
      BY ReplySteady DEF Flags, SameBut
    <3>3. d = eof(c)
      BY <1>2, <2>3 DEF process_receive, Error, WouldBlock
    <3>4. d = FinSent(c, s)
      BY <3>2, <3>3 DEF eof, FinSent
    <3> HIDE DEF s
    <3> QED BY <3>1, <3>4, FinSentChan
  <2>4. CASE r \notin {WouldBlock, Error, 0}
    <3>1. d = receive_data(c, r)
      BY <1>2, <2>4 DEF process_receive
    <3>2. r \in Nat
      BY <2>4, ConstantFacts DEF ReadResults, WouldBlock, Error
    <3> QED BY <3>1, <3>2, ReceiveDataChan
  <2> QED BY <2>1, <2>2, <2>3, <2>4
<1> QED BY <1>1, <1>2

\* What follows a write keeps the stream.
LEMMA WroteKeeps ==
  ASSUME NEW c, NEW s, NEW d, Wrote(c, s), SameStream(s, d), d.state = s.state \/ d.state \notin Early
  PROVE  Wrote(c, d)
  BY DEF Wrote, Keeps, SameStream, Moved

\* process() as a whole.
LEMMA ProcessChan ==
  ASSUME NEW c, Safe(c), c.panic = "none", ~c.closed, c.state # "Init",
         NEW events, "readable" \in events => c.packet_for_client_length = 0,
         c.state = "SynSent" => "writable" \in events \/ events \cap Interest = {},
         NEW w, w \in WriteResults(c),
         NEW r, r \in ReadResults(sent_part(c, events, w)), NEW lo \in Nat, Chan(c, lo)
  PROVE  LET d == process(c, events, w, r)
         IN /\ Chan(d, lo) /\ Wrote(c, d) /\ d.state # "Init"
            /\ d.state = "SynSent" => d.closed
<1> DEFINE s == sent_part(c, events, w)
           receives == ~s.closed /\ "readable" \in events
           t == IF receives THEN process_receive(s, r) ELSE s
           d == process(c, events, w, r)
<1>0. Steady(c)
  BY DEF Safe
<1>1. CASE events \cap Interest = {}
  <2>1. d = close(c)
    BY <1>1 DEF process
  <2> QED BY <1>0, <2>1, CloseChan, CloseFields DEF Wrote, Keeps
<1>2. CASE events \cap Interest # {} /\ write_blocked(c, events, w)
  <2>1. d = c /\ c.state # "SynSent"
    BY <1>2 DEF process, write_blocked
  <2> QED BY <2>1 DEF Wrote, Keeps, SameStream
<1>3. CASE events \cap Interest # {} /\ ~write_blocked(c, events, w)
  <2>1. d = IF (receives /\ r = WouldBlock) \/ t.closed \/ t.panic # "none"
            THEN t ELSE update_interests(t)
    BY <1>3 DEF process
  <2>2. Steady(s) /\ Calmer(c, s)
    BY <1>0, <1>3, SentPart
  <2>3. /\ Chan(s, lo) /\ Wrote(c, s) /\ s.state # "Init" /\ s.state # "SynSent"
    <3>1. /\ Chan(s, lo) /\ Wrote(c, s) /\ s.state # "Init"
          /\ "writable" \in events => s.state # "SynSent"
          /\ s.state = "SynSent" => c.state = "SynSent"
      BY <1>0, <1>3, SentPartChan
    <3> HIDE DEF s
    <3> QED BY <1>3, <3>1
  <2>4. r \in ReadResults(s)
    OBVIOUS
  <2> HIDE DEF s, d
  <2>5. receives => s.packet_for_client_length = 0
    BY <2>2 DEF Calmer, SamePending
  <2>6. Steady(t) /\ Chan(t, lo) /\ SameStream(s, t) /\ (t.state = s.state \/ t.state \notin Early)
    <3>1. CASE receives
      BY <2>2, <2>3, <2>4, <2>5, <3>1, ProcessReceive, ProcessReceiveChan
    <3>2. CASE ~receives
      BY <2>2, <2>3, <3>2 DEF SameStream
    <3> QED BY <3>1, <3>2
  <2> HIDE DEF t, receives
  <2>7. LET u == update_interests(t)
        IN Chan(u, lo) /\ SameStream(t, u) /\ u.state = t.state
    BY <2>6, InterestsChan, InterestsFields
  <2>8. Chan(d, lo) /\ SameStream(s, d) /\ (d.state = s.state \/ d.state \notin Early)
    BY <2>1, <2>6, <2>7 DEF SameStream
  <2> QED BY <2>3, <2>8, WroteKeeps DEF Early, d
<1> QED BY <1>1, <1>2, <1>3

-----------------------------------------------------------------------------
(***************************************************************************)
(* The client writes to the device, then pulls the deferred packet.        *)
(***************************************************************************)
\* A lower bound may be lowered.
LEMMA ChanLower ==
  ASSUME NEW c, NEW lo \in Nat, NEW hi \in Nat, lo <= hi, Chan(c, hi)
  PROVE  Chan(c, lo)
<1>1. CASE c.state # "Init"
  <2>1. PICK g \in [1 .. Len(c.channel) -> Nat], top \in Nat : Ascending(c, hi, g, top)
    BY <1>1 DEF Chan, Queued
  <2>2. Ascending(c, lo, g, top)
    BY <2>1 DEF Ascending
  <2> QED BY <1>1, <2>2 DEF Chan, Queued
<1>2. CASE c.state = "Init"
  BY <1>2 DEF Chan
<1> QED BY <1>1, <1>2

\* The first packet leaves: the others acknowledge at least as much.
LEMMA DropChan ==
  ASSUME NEW c, NEW d, NEW lo \in Nat, Steady(c), c.state # "Init", Chan(c, lo),
         c.channel # << >>, d.channel = SubSeq(c.channel, 2, Len(c.channel)),
         d.packetizer = c.packetizer, d.packet_for_client_length = c.packet_for_client_length,
         d.syn_sequence_number = c.syn_sequence_number, d.state = c.state, Told(d) = Told(c)
  PROVE  \E hi \in Nat : /\ c.channel[1].ack = DeviceSeq(hi) /\ lo <= hi /\ hi <= Told(c)
                         /\ Chan(d, hi)
<1> DEFINE n == Len(c.channel)
<1>1. PICK g \in [1 .. n -> Nat], top \in Nat : Ascending(c, lo, g, top)
  BY DEF Chan, Queued
<1>2. c.channel \in Seq(ClientPacket) /\ n \in Nat \ {0} /\ 1 \in 1 .. n
  <2>1. c.channel \in Seq(ClientPacket)
    BY DEF Steady, Connection
  <2> QED BY <2>1, EmptySeq
<1>3. Len(d.channel) = n - 1 /\ \A i \in 1 .. n - 1 : d.channel[i] = c.channel[i + 1]
  <2>1. 2 \in 1 .. n + 1 /\ n \in 2 - 1 .. n
    BY <1>2
  <2>2. Len(SubSeq(c.channel, 2, n)) = n - 2 + 1
        /\ \A i \in 1 .. n - 2 + 1 : SubSeq(c.channel, 2, n)[i] = c.channel[2 + i - 1]
    BY <1>2, <2>1, SubSeqProperties
  <2>3. n - 2 + 1 = n - 1 /\ \A i \in 1 .. n - 1 : 2 + i - 1 = i + 1
    BY <1>2
  <2> QED BY <2>2, <2>3
<1> DEFINE h == [i \in 1 .. n - 1 |-> g[i + 1]]
<1>4. h \in [1 .. Len(d.channel) -> Nat] /\ g[1] \in Nat
  BY <1>1, <1>2, <1>3
<1>5. \A i \in 1 .. n - 1 : h[i] = g[i + 1] /\ i + 1 \in 1 .. n
  BY <1>2
<1>6. \A i, j \in 1 .. n : i <= j => g[i] <= g[j]
  BY <1>1 DEF Ascending
<1>7. /\ \A i \in 1 .. n : c.channel[i].ack = DeviceSeq(g[i]) /\ lo <= g[i] /\ g[i] <= top
      /\ lo <= top /\ top <= Told(c)
      /\ c.packet_for_client_length # 0 => c.packetizer.ack = DeviceSeq(top)
  BY <1>1 DEF Ascending
<1> HIDE DEF h, n
<1>8. Ascending(d, g[1], h, top)
  <2>1. \A i \in 1 .. n - 1 :
           d.channel[i].ack = DeviceSeq(h[i]) /\ g[1] <= h[i] /\ h[i] <= top
    <3> TAKE i \in 1 .. n - 1
    <3>1. h[i] = g[i + 1] /\ i + 1 \in 1 .. n /\ d.channel[i] = c.channel[i + 1] /\ 1 <= i + 1
      BY <1>3, <1>5
    <3> QED BY <1>2, <1>6, <1>7, <3>1
  <2>2. \A i, j \in 1 .. n - 1 : i <= j => h[i] <= h[j]
    <3> TAKE i, j \in 1 .. n - 1
    <3> HAVE i <= j
    <3>1. i + 1 \in 1 .. n /\ j + 1 \in 1 .. n /\ i + 1 <= j + 1
      BY <1>5
    <3> QED BY <1>5, <1>6, <3>1
  <2> QED BY <1>2, <1>3, <1>7, <2>1, <2>2 DEF Ascending
<1>9. Told(c) \in Nat /\ g[1] <= Told(c)
  BY <1>2, <1>4, <1>7, Counted
<1>10. Whole(d)
  <2>1. \A i \in 1 .. Len(d.channel) : i + 1 \in 1 .. Len(c.channel) /\ d.channel[i] = c.channel[i + 1]
    BY <1>3, <1>5 DEF n
  <2> QED BY <2>1 DEF Chan, Whole
<1>11. Chan(d, g[1])
  BY <1>4, <1>8, <1>10 DEF Chan, Queued
<1> QED BY <1>2, <1>4, <1>7, <1>9, <1>11

\* process_pending(): the deferred packet leaves with the acknowledgement it was built with.
LEMMA PendingChan ==
  ASSUME NEW c, Safe(c), c.panic = "none", NEW lo \in Nat, Chan(c, lo)
  PROVE  LET d == process_pending(c)
         IN /\ Chan(d, lo) /\ SameStream(c, d) /\ d.state = c.state /\ d.closed = c.closed
            /\ c.pending_packet_sources = 0 => d = c
            /\ ~d.closed /\ d.panic = "none" /\ d # c => d.interests = wanted(d)
<1> DEFINE p == deferred_packet(c)
           b == [c EXCEPT !.pending_packet_sources = @ - 1]
           q == send_to_client(b, p)
           d == process_pending(c)
<1>1. CASE c.pending_packet_sources = 0 \/ p.total_length > room(c)
  BY <1>1 DEF process_pending, SameStream
<1>2. CASE ~(c.pending_packet_sources = 0 \/ p.total_length > room(c))
  <2>1. c \in Connection /\ Steady(c) /\ c.channel \in Seq(ClientPacket)
    BY DEF Safe, Steady, Connection
  <2>2. c.packet_for_client_length # 0 /\ c.state # "Init"
    BY <1>2, <2>1 DEF Steady, Registered, Chan
  <2>3. d = IF q.panic # "none" THEN q ELSE next(q)
    BY <1>2 DEF process_pending
  <2>4. p.ack = c.packetizer.ack /\ p.total_length = c.packetizer.total_length
    BY <2>1 DEF deferred_packet, Connection, ClientPacket
  <2>5. /\ SameStream(c, q) /\ q.state = c.state /\ q.closed = c.closed
        /\ q.syn_sequence_number = c.syn_sequence_number
        /\ q.packetizer = c.packetizer
        /\ q.packet_for_client_length = c.packet_for_client_length
        /\ \/ q.channel = Append(c.channel, p) /\ q.panic = "none"
           \/ q.channel = c.channel /\ q.panic # "none"
    BY <2>1 DEF send_to_client, Connection, SameStream
  <2>6. d.closed = c.closed
    BY <2>1, PendingClosed
  <2> HIDE DEF p, d, b
  <2>7. CASE q.panic # "none"
    <3>1. d = q /\ SameQueue(c, d) /\ SameStream(c, d) /\ d.state = c.state
      BY <2>3, <2>5, <2>7 DEF SameQueue
    <3>2. Told(c) \in Nat /\ Told(d) = Told(c) /\ Told(c) <= Told(d)
      BY <2>1, <3>1, Counted, SameTold
    <3>3. Chan(d, lo)
      BY <2>2, <3>1, <3>2, ChanFrame
    <3> QED BY <1>2, <2>6, <2>7, <3>1, <3>3 DEF d
  <2>8. CASE q.panic = "none"
    <3> DEFINE x == [q EXCEPT !.sequence_number = wrapping_add(@, q.packet_for_client_length),
                              !.packet_for_client_length = 0,
                              !.packetizer = NoPacket]
    <3>0. p \in ClientPacket /\ b \in Connection
      <4>1. c.pending_packet_sources - 1 \in Nat
        BY <2>1, <2>2 DEF Steady, Registered
      <4> QED BY <2>1, <4>1 DEF p, b, deferred_packet, Connection, ClientPacket
    <3>1. q \in Connection
      BY <3>0, SendToClient
    <3>2. d = update_interests(x)
      BY <2>3, <2>8 DEF next
    <3> HIDE DEF q
    <3>3. /\ x.channel = q.channel /\ x.packet_for_client_length = 0 /\ SameStream(q, x)
          /\ x.state = q.state /\ x.closed = q.closed
          /\ x.syn_sequence_number = q.syn_sequence_number
      BY <3>1 DEF Connection, SameStream
    <3>4. x \in Connection
      <4>1. wrapping_add(q.sequence_number, q.packet_for_client_length) \in Seqno
        <5>1. q.sequence_number \in Int /\ q.packet_for_client_length \in Int
          BY <3>1, ConstantFacts DEF Connection, Seqno
        <5> QED BY <5>1, WrapType
      <4>2. NoPacket \in ClientPacket
        BY ConstantFacts DEF NoPacket, ClientPacket, Seqno
      <4> QED BY <3>1, <4>1, <4>2 DEF Connection
    <3> HIDE DEF x
    <3>5. SameQueue(x, d) /\ SameStream(x, d) /\ d.state = x.state
      BY <3>2, <3>4 DEF update_interests, Connection, SameQueue, SameStream
    <3>6. /\ d.channel = Append(c.channel, p) /\ d.packet_for_client_length = 0
          /\ SameStream(c, d) /\ d.state = c.state
          /\ d.syn_sequence_number = c.syn_sequence_number
      BY <2>5, <2>8, <3>3, <3>5 DEF SameQueue, SameStream
    <3>7. PICK g \in [1 .. Len(c.channel) -> Nat], top \in Nat : Ascending(c, lo, g, top)
      BY <2>2 DEF Chan, Queued
    <3>8. /\ top <= top /\ p.ack = DeviceSeq(top) /\ Told(d) \in Nat /\ top <= Told(d)
      BY <2>1, <2>2, <2>4, <3>6, <3>7, Counted, SameTold DEF Ascending
    <3>9. Queued(d, lo)
      BY <2>1, <3>6, <3>7, <3>8, QueuedAppendAt
    <3>10. Whole(d)
      <4>1. \A i \in 1 .. Len(d.channel) :
            (i \in 1 .. Len(c.channel) /\ d.channel[i] = c.channel[i]) \/ d.channel[i] = p
        BY <2>1, <3>6, AppendProperties
      <4> QED BY <2>2, <2>4, <3>6, <4>1 DEF Chan, Whole
    <3>11. Chan(d, lo)
      BY <2>2, <3>6, <3>9, <3>10 DEF Chan
    <3>12. ~d.closed => d.interests = wanted(d)
      <4>1. x.closed = d.closed
        BY <2>5, <2>6, <3>3
      <4>2. ~d.closed => d = [x EXCEPT !.interests = wanted(x)]
        BY <3>2, <4>1 DEF update_interests
      <4>3. ~d.closed => wanted(d) = wanted(x) /\ d.interests = wanted(x)
        BY <3>4, <4>2, SameWanted DEF Connection
      <4> QED BY <4>3
    <3> QED BY <1>2, <2>6, <3>6, <3>11, <3>12 DEF d
  <2> QED BY <2>7, <2>8
<1> QED BY <1>1, <1>2

-----------------------------------------------------------------------------
(***************************************************************************)
(* The handlers, on the connection they run on.                            *)
(***************************************************************************)
\* After update_interests(), exactly what the connection waits for.
LEMMA ExactInterests ==
  ASSUME NEW c, Steady(c), ~c.closed
  PROVE  LET d == update_interests(c) IN d.interests = wanted(d) /\ ~d.closed
<1> DEFINE d == update_interests(c)
<1>1. c \in Connection
  BY DEF Steady
<1>2. d = [c EXCEPT !.interests = wanted(c)]
  BY DEF update_interests
<1>3. d.interests = wanted(c) /\ wanted(d) = wanted(c) /\ ~d.closed
  BY <1>1, <1>2, SameWanted DEF Connection
<1> QED BY <1>3

\* A socket event, when nothing but the connecting of the socket is awaited in SynSent.
LEMMA OnReadyChan ==
  ASSUME IInv, NEW w \in Int, NEW r \in Int, on_ready(w, r), NEW lo \in Nat, Chan(conn, lo),
         conn.state = "SynSent" /\ ~conn.closed => ready \subseteq {"writable"} \/ ready = {"hup"}
  PROVE  /\ Chan(conn', lo) /\ Wrote(conn, conn') /\ conn'.state # "Init"
         /\ conn'.state = "SynSent" => conn'.closed
<1>1. /\ w \in WriteResults(conn) /\ r \in ReadResults(sent_part(conn, ready, w))
      /\ conn' = IF conn.closed THEN conn ELSE process(conn, ready, w, r)
      /\ conn.panic = "none" /\ ready # {}
  BY DEF on_ready, Running
<1>2. Safe(conn) /\ conn.state # "Init"
  BY <1>1 DEF IInv
<1>3. CASE conn.closed
  BY <1>1, <1>2, <1>3 DEF Wrote, Keeps, SameStream
<1>4. CASE ~conn.closed
  <2>1. "readable" \in ready => conn.packet_for_client_length = 0
    BY <1>1, <1>4 DEF IInv
  <2>2. conn.state = "SynSent" => "writable" \in ready \/ ready \cap Interest = {}
    BY <1>1, <1>4 DEF Interest
  <2>3. conn' = process(conn, ready, w, r)
    BY <1>1, <1>4
  <2> QED BY <1>1, <1>2, <1>4, <2>1, <2>2, <2>3, ProcessChan
<1> QED BY <1>3, <1>4

\* A packet of the device.
LEMMA PushChan ==
  ASSUME IInv, NEW p \in DevicePacket, NEW isn \in Seqno, push_packet(p, isn),
         NEW lo \in Nat, Chan(conn, lo), conn.state = "Init" => conn.channel = << >>,
         conn.state = "SynSent" => conn.fins = 0,
         "SYN" \in p.flags => p.seq = DeviceSeq(0)
  PROVE  /\ Chan(conn', lo) /\ Handled(conn, p, conn') /\ ~conn.closed
         /\ conn'.packet_for_client_length = conn.packet_for_client_length
         /\ ~conn'.closed => conn'.interests = wanted(conn')
<1> DEFINE d == handle_packet(conn, p, isn)
<1>1. conn' = send_to_network(conn, p, isn) /\ ~conn.closed /\ Steady(conn)
  BY DEF push_packet, IInv, Safe
<1>2. Chan(conn', lo) /\ Handled(conn, p, conn')
  BY <1>1, SendToNetworkChan
<1>3. conn'.packet_for_client_length = conn.packet_for_client_length
  BY <1>1, SendToNetwork
<1>4. Steady(d)
  BY <1>1, HandlePacket
<1>5. conn' = IF d.closed THEN d ELSE update_interests(d)
  BY <1>1 DEF send_to_network
<1> HIDE DEF d
<1>6. ~conn'.closed => conn'.interests = wanted(conn')
  BY <1>4, <1>5, ExactInterests
<1> QED BY <1>1, <1>2, <1>3, <1>6

\* The client writes n packets: the first of the channel reaches the device.
LEMMA ClientSendChan ==
  ASSUME IInv, NEW n \in {0, 1}, NEW f \in Nat, client_send(n, f), NEW lo \in Nat, Chan(conn, lo),
         n = 1 => conn.state # "Init"
  PROVE  /\ SameStream(conn, conn') /\ conn'.state = conn.state /\ conn'.closed = conn.closed
         /\ n = 0 => Chan(conn', lo)
         /\ n = 1 => /\ conn.channel # << >> /\ conn.channel[1] \in ClientPacket
                     /\ Headers <= conn.channel[1].total_length
                     /\ \E hi \in Nat : /\ conn.channel[1].ack = DeviceSeq(hi)
                                        /\ lo <= hi /\ hi <= Told(conn) /\ Chan(conn', hi)
         /\ conn.channel = << >> /\ conn.packet_for_client_length = 0 =>
              /\ n = 0 /\ conn'.channel = << >> /\ conn'.packet_for_client_length = 0
              /\ conn'.interests = conn.interests
<1> DEFINE d == [conn EXCEPT !.channel = SubSeq(@, n + 1, Len(@)),
                             !.used = IF n = 0 THEN @ ELSE @ - conn.channel[1].raw,
                             !.foreign = f]
<1>1. /\ Safe(conn) /\ Steady(conn) /\ conn \in Connection /\ conn.channel \in Seq(ClientPacket)
      /\ conn.panic = "none" /\ n <= Len(conn.channel) /\ conn' = process_pending(d)
  BY DEF client_send, Running, IInv, Safe, Steady, Connection
<1>2. Safe(d) /\ SameBut(conn, d) /\ d.panic = "none"
  BY <1>1, ClientSendSafe, ZenonT(40)
<1>3. /\ d.channel = SubSeq(conn.channel, n + 1, Len(conn.channel))
      /\ d.packetizer = conn.packetizer
  BY <1>1 DEF Connection
<1> HIDE DEF d
<1>4. /\ SameStream(conn, d) /\ d.state = conn.state /\ d.closed = conn.closed
      /\ d.packet_for_client_length = conn.packet_for_client_length
      /\ d.syn_sequence_number = conn.syn_sequence_number /\ d.interests = conn.interests
      /\ d.pending_packet_sources = conn.pending_packet_sources
  BY <1>2 DEF SameBut, SameStream
<1>5. Told(conn) \in Nat /\ Told(d) = Told(conn) /\ Told(conn) <= Told(d)
  BY <1>1, <1>4, Counted, SameTold
<1>6. ASSUME NEW x \in Nat, Chan(d, x)
      PROVE  /\ Chan(conn', x) /\ SameStream(d, conn') /\ conn'.state = d.state
             /\ conn'.closed = d.closed /\ (d.pending_packet_sources = 0 => conn' = d)
  BY <1>1, <1>2, <1>6, PendingChan
<1>7. n = 0 => Chan(d, lo)
  <2> SUFFICES ASSUME n = 0 PROVE Chan(d, lo)
    OBVIOUS
  <2>1. d.channel = conn.channel
    <3>1. \A s \in Seq(ClientPacket) : SubSeq(s, 1, Len(s)) = s
      OBVIOUS
    <3> QED BY <1>1, <1>3, <3>1
  <2>2. SameQueue(conn, d)
    BY <1>3, <1>4, <2>1 DEF SameQueue
  <2>3. CASE conn.state # "Init"
    BY <1>4, <1>5, <2>2, <2>3, ChanFrame
  <2>4. CASE conn.state = "Init"
    BY <1>4, <2>2, <2>4 DEF Chan, Whole, SameQueue
  <2> QED BY <2>3, <2>4
<1>8. n = 1 => /\ conn.channel # << >> /\ conn.channel[1] \in ClientPacket
               /\ Headers <= conn.channel[1].total_length
               /\ \E hi \in Nat : /\ conn.channel[1].ack = DeviceSeq(hi)
                                  /\ lo <= hi /\ hi <= Told(conn) /\ Chan(d, hi)
  <2> SUFFICES ASSUME n = 1
               PROVE  /\ conn.channel # << >> /\ conn.channel[1] \in ClientPacket
                      /\ Headers <= conn.channel[1].total_length
                      /\ \E hi \in Nat : /\ conn.channel[1].ack = DeviceSeq(hi)
                                         /\ lo <= hi /\ hi <= Told(conn) /\ Chan(d, hi)
    OBVIOUS
  <2>1. conn.channel # << >> /\ 1 \in 1 .. Len(conn.channel) /\ conn.channel[1] \in ClientPacket
    BY <1>1
  <2>2. Headers <= conn.channel[1].total_length
    BY <2>1 DEF Chan, Whole
  <2>3. d.channel = SubSeq(conn.channel, 2, Len(conn.channel))
    BY <1>3
  <2> QED BY <1>1, <1>3, <1>4, <1>5, <2>1, <2>2, <2>3, DropChan
<1>9. /\ SameStream(conn, conn') /\ conn'.state = conn.state /\ conn'.closed = conn.closed
  <2>1. \E x \in Nat : Chan(d, x)
    BY <1>7, <1>8
  <2>2. PICK x \in Nat : Chan(d, x)
    BY <2>1
  <2> QED BY <1>4, <1>6, <2>2 DEF SameStream
<1>10. ASSUME conn.channel = << >>, conn.packet_for_client_length = 0
       PROVE  /\ n = 0 /\ conn'.channel = << >> /\ conn'.packet_for_client_length = 0
              /\ conn'.interests = conn.interests
  <2>1. n = 0 /\ d.channel = << >>
    BY <1>1, <1>3, <1>10
  <2>2. d.pending_packet_sources = 0
    BY <1>1, <1>4, <1>10 DEF Steady, Registered
  <2>3. conn' = d
    BY <1>6, <1>7, <2>1, <2>2
  <2> QED BY <1>4, <1>10, <2>1, <2>3
<1> QED BY <1>6, <1>7, <1>8, <1>9, <1>10

-----------------------------------------------------------------------------
(***************************************************************************)
(* The device.                                                             *)
(***************************************************************************)
Bit(b) == IF b THEN 1 ELSE 0

\* The device's own bytes.
LEMMA BytesType ==
  ASSUME NEW from \in Nat, NEW to \in Nat, from <= to
  PROVE  Bytes(from, to) \in Seq(Nat) /\ Len(Bytes(from, to)) = to - from
<1> DEFINE n == to - from
<1>1. n \in Nat
  OBVIOUS
<1>2. Bytes(from, to) = [i \in 1 .. n |-> from + i - 1]
  BY DEF Bytes
<1> HIDE DEF n
<1>3. Bytes(from, to) \in [1 .. n -> Nat]
  BY <1>1, <1>2
<1> QED BY <1>1, <1>3 DEF n

\* The packet the device emits.
Segment(flags, from, data) ==
  [seq |-> DeviceSeq(from), ack |-> wrapping_add(device.irs, device.rcv),
   window |-> Window, flags |-> flags, data |-> data]

\* A packet of the device is well formed, and everything else is left alone.
LEMMA EmitType ==
  ASSUME device \in Device, device.edge <= device.rcv + MaxWindow, from_device \in Seq(DevicePacket),
         NEW flags \in SUBSET Flags, NEW from \in Nat, NEW data \in Seq(Nat),
         Emit(flags, from, data)
  PROVE  LET p == Segment(flags, from, data)
         IN /\ Running /\ ~conn.closed
            /\ p \in DevicePacket /\ from_device' = Append(from_device, p)
            /\ p.seq = DeviceSeq(from) /\ p.flags = flags /\ p.data = data
            /\ from_device' \in Seq(DevicePacket)
            /\ conn' = conn /\ ready' = ready /\ client_ran' = client_ran /\ server' = server
<1> DEFINE p == Segment(flags, from, data)
<1>1. DeviceSeq(from) \in Seqno
  BY DeviceSeqType
<1>2. wrapping_add(device.irs, device.rcv) \in Seqno
  <2>1. device.irs \in Int /\ device.rcv \in Int
    BY ConstantFacts DEF Device, Seqno
  <2> QED BY <2>1, WrapType
<1>3. Window \in 0 .. MaxWindow
  BY ConstantFacts DEF Window, Device
<1>4. p \in DevicePacket
  BY <1>1, <1>2, <1>3 DEF Segment, DevicePacket
<1>5. from_device' = Append(from_device, p)
  BY DEF Emit, Segment
<1>6. p.seq = DeviceSeq(from) /\ p.flags = flags /\ p.data = data
  BY DEF Segment
<1> HIDE DEF p
<1>7. from_device' \in Seq(DevicePacket)
  BY <1>4, <1>5
<1> QED BY <1>4, <1>5, <1>6, <1>7 DEF Emit, p

\* The packets the new queue holds.
LEMMA AppendedPackets ==
  ASSUME NEW s \in Seq(DevicePacket), NEW p \in DevicePacket
  PROVE  /\ Len(Append(s, p)) = Len(s) + 1 /\ Len(s) \in Nat
         /\ \A i \in 1 .. Len(s) : Append(s, p)[i] = s[i] /\ s[i] \in DevicePacket
         /\ Append(s, p)[Len(s) + 1] = p
         /\ \A i \in 1 .. Len(s) + 1 : i \in 1 .. Len(s) \/ i = Len(s) + 1
  BY AppendProperties

\* The packets left once the first is handled.
LEMMA RemainingPackets ==
  ASSUME NEW s \in Seq(DevicePacket), s # << >>
  PROVE  /\ Head(s) = s[1] /\ s[1] \in DevicePacket /\ Tail(s) \in Seq(DevicePacket)
         /\ Len(Tail(s)) = Len(s) - 1 /\ Len(s) \in Nat \ {0} /\ 1 \in 1 .. Len(s)
         /\ \A i \in 1 .. Len(s) - 1 : Tail(s)[i] = s[i + 1] /\ i + 1 \in 1 .. Len(s)
  BY HeadTailProperties, EmptySeq

\* A packet of the relay keeps the device well formed, and its window within bounds.
LEMMA ReceivedType ==
  ASSUME NEW d \in Device, d.edge <= d.rcv + MaxWindow, NEW p \in ClientPacket,
         Headers <= p.total_length
  PROVE  LET e == Received(d, p)
         IN /\ e \in Device /\ e.edge <= e.rcv + MaxWindow
            /\ e.nxt = d.nxt /\ e.fin = d.fin
            /\ e.phase \in {d.phase, "reset"} \/ (d.phase = "syn" /\ e.phase = "handshake")
            /\ \/ e.una = d.una
               \/ e.una \in d.una .. d.nxt + Bit(d.fin) /\ DeviceSeq(e.una) = p.ack
<1> DEFINE e == Received(d, p)
           len == p.total_length - Headers
           space == len + (IF "FIN" \in p.flags THEN 1 ELSE 0)
           acked == {n \in d.una .. d.nxt + (IF d.fin THEN 1 ELSE 0) : DeviceSeq(n) = p.ack}
           u == IF acked = {} THEN d.una ELSE CHOOSE n \in acked : TRUE
           v == IF p.seq = wrapping_add(d.irs, d.rcv) THEN d.rcv + space ELSE d.rcv
           o == d.owes_ack \/ space > 0
<1>1. p.total_length \in Nat /\ p.seq \in Seqno /\ Headers \in Nat /\ MaxWindow \in Nat
  BY ConstantFacts DEF ClientPacket
<1>2. d.rcv \in Nat /\ d.edge \in Nat /\ d.una \in Nat /\ d.nxt \in Nat
  BY DEF Device
<1>3. space \in Nat
  BY <1>1
<1>4. u = d.una \/ (u \in d.una .. d.nxt + Bit(d.fin) /\ DeviceSeq(u) = p.ack)
  BY DEF Bit
<1>5. u \in Nat
  BY <1>2, <1>4 DEF Bit
<1> HIDE DEF space, acked
<1>6. v \in Nat /\ d.rcv <= v
  BY <1>2, <1>3
<1>7. Accepted(d, p) = [d EXCEPT !.una = u, !.rcv = v, !.owes_ack = o]
  BY DEF Accepted, space, acked
<1>8. o \in BOOLEAN
  BY DEF Device
<1> HIDE DEF u, v, o
<1>9. LET x == Accepted(d, p)
      IN /\ x \in Device /\ x.una = u /\ x.rcv = v /\ x.edge = d.edge
         /\ x.phase = d.phase /\ x.nxt = d.nxt /\ x.fin = d.fin
  BY <1>5, <1>6, <1>7, <1>8 DEF Device
<1>10. CASE e = d
  BY <1>10
<1>11. CASE e = [d EXCEPT !.phase = "reset"]
  BY <1>11 DEF Device
<1>12. CASE e = [d EXCEPT !.phase = "handshake", !.irs = p.seq, !.owes_ack = TRUE] /\ d.phase = "syn"
  BY <1>1, <1>12 DEF Device
<1>13. CASE e = Accepted(d, p)
  BY <1>1, <1>2, <1>4, <1>6, <1>9, <1>13
<1> QED BY <1>10, <1>11, <1>12, <1>13 DEF Received

-----------------------------------------------------------------------------
(***************************************************************************)
(* The invariant that ties the connection to its device.  A connection the *)
(* relay has not answered yet has sent nothing, waits for its socket only, *)
(* and its device has sent SYNs only (or, of an old connection, none).     *)
(***************************************************************************)
AllSyn == \A i \in 1 .. Len(from_device) : "SYN" \in from_device[i].flags
NoSyn == \A i \in 1 .. Len(from_device) : "SYN" \notin from_device[i].flags
SynSeq == \A i \in 1 .. Len(from_device) :
            "SYN" \in from_device[i].flags => from_device[i].seq = DeviceSeq(0)

Unanswered ==
  /\ conn.state \in {"Init", "SynSent"} /\ ~conn.closed =>
       conn.channel = << >> /\ conn.packet_for_client_length = 0 /\ conn.fins = 0
  /\ conn.state = "SynSent" /\ ~conn.closed =>
       /\ conn.interests = {"writable"} /\ (ready \subseteq {"writable"} \/ ready = {"hup"})
       /\ device.phase \in {"closed", "syn"} /\ AllSyn
  /\ conn.state = "Init" /\ ~conn.closed =>
       \/ device.phase \in {"closed", "syn"} /\ AllSyn
       \/ device.phase \in {"open", "reset"} /\ NoSyn

Link == /\ TypeOK /\ device.edge <= device.rcv + MaxWindow
        /\ IInv /\ Chan(conn, 0) /\ SynSeq /\ Unanswered

\* The initial states.
LEMMA InitLink == Init => Link
<1> SUFFICES ASSUME Init PROVE Link
  OBVIOUS
<1>1. PICK phase \in {"closed", "open"}, irs \in RelayIsns :
        device = [phase |-> phase, una |-> 1, nxt |-> 1, fin |-> FALSE,
                  irs |-> irs, rcv |-> 1, edge |-> 1 + MaxWindow, owes_ack |-> FALSE]
  BY DEF Init
<1>2. device \in Device /\ device.phase \in {"closed", "open"} /\ device.edge <= device.rcv + MaxWindow
  <2>1. irs \in Seqno /\ 1 + MaxWindow \in Nat
    BY TunnelFacts, ConstantFacts
  <2> QED BY <1>1, <2>1 DEF Device
<1>3. conn = create /\ IInv
  BY ConnInitIInv DEF Init, ConnInit
<1>4. /\ conn.state = "Init" /\ conn.channel = << >> /\ conn.packet_for_client_length = 0
      /\ conn.fins = 0
  BY <1>3 DEF create
<1>5. Chan(conn, 0)
  BY <1>4 DEF Chan, Whole
<1>6. from_device = << >> /\ server \in Server
  BY DEF Init, Server
<1>7. ConnTypeOK
  BY <1>3 DEF IInv, Safe, Steady, ConnTypeOK
<1> QED BY <1>2, <1>3, <1>4, <1>5, <1>6, <1>7
    DEF Link, TypeOK, SynSeq, AllSyn, NoSyn, Unanswered

\* The types of the connection follow from its own invariant.
LEMMA ConnTypes == IInv => ConnTypeOK
  BY DEF IInv, Safe, Steady, ConnTypeOK

\* The device emits a packet.
LEMMA EmitLink ==
  ASSUME Link, NEW flags \in SUBSET Flags, NEW from \in Nat, NEW data \in Seq(Nat),
         Emit(flags, from, data), device' \in Device, device'.edge <= device'.rcv + MaxWindow,
         \/ /\ "SYN" \in flags /\ from = 0
            /\ device.phase \in {"closed", "syn"} /\ device'.phase = "syn"
         \/ /\ "SYN" \notin flags
            /\ device.phase \in {"handshake", "open"} /\ device'.phase \in {"open", "reset"}
  PROVE  Link'
<1> DEFINE p == Segment(flags, from, data)
           n == Len(from_device)
<1>1. /\ p \in DevicePacket /\ from_device' = Append(from_device, p)
      /\ p.seq = DeviceSeq(from) /\ p.flags = flags
      /\ from_device' \in Seq(DevicePacket)
      /\ conn' = conn /\ ready' = ready /\ client_ran' = client_ran /\ server' = server
  <2>1. /\ device \in Device /\ device.edge <= device.rcv + MaxWindow
        /\ from_device \in Seq(DevicePacket)
    BY DEF Link, TypeOK
  <2>2. LET q == Segment(flags, from, data)
        IN /\ Running /\ ~conn.closed
           /\ q \in DevicePacket /\ from_device' = Append(from_device, q)
           /\ q.seq = DeviceSeq(from) /\ q.flags = flags /\ q.data = data
           /\ from_device' \in Seq(DevicePacket)
           /\ conn' = conn /\ ready' = ready /\ client_ran' = client_ran /\ server' = server
    BY <2>1, EmitType
  <2> QED BY <2>2
<1> HIDE DEF p
<1>2. /\ Len(from_device') = n + 1 /\ n \in Nat
      /\ \A i \in 1 .. n : from_device'[i] = from_device[i]
      /\ from_device'[n + 1] = p
      /\ \A i \in 1 .. n + 1 : i \in 1 .. n \/ i = n + 1
  BY <1>1, AppendedPackets DEF Link, TypeOK
<1> HIDE DEF n
<1>3. IInv' /\ Chan(conn, 0)' /\ TypeOK'
  BY <1>1 DEF Link, IInv, TypeOK, ConnTypeOK
<1>4. SynSeq'
  <2>1. \A i \in 1 .. n : "SYN" \in from_device[i].flags => from_device[i].seq = DeviceSeq(0)
    BY DEF Link, SynSeq, n
  <2>2. \A i \in 1 .. n + 1 :
          "SYN" \in (from_device'[i]).flags => (from_device'[i]).seq = DeviceSeq(0)
    BY <1>1, <1>2, <2>1
  <2> QED BY <1>2, <2>2 DEF SynSeq
<1>5. /\ "SYN" \in flags /\ AllSyn => AllSyn'
      /\ "SYN" \notin flags /\ NoSyn => NoSyn'
  BY <1>1, <1>2 DEF AllSyn, NoSyn, n
<1>6. Unanswered'
  BY <1>1, <1>5 DEF Link, Unanswered
<1> QED BY <1>1, <1>3, <1>4, <1>6 DEF Link

\* The actions of the device.
DeviceNext ==
  \/ DeviceConnect \/ DeviceResendSyn \/ DeviceResend \/ DeviceAck \/ DeviceRead \/ DeviceReset
  \/ \E n \in 0 .. DeviceBytes, fin \in BOOLEAN : DeviceSend(n, fin)

\* Whatever the device does.
LEMMA DeviceLink == Link /\ DeviceNext => Link'
<1> SUFFICES ASSUME Link, DeviceNext PROVE Link'
  OBVIOUS
<1>0. /\ device \in Device /\ device.edge <= device.rcv + MaxWindow
      /\ device.nxt \in Nat /\ device.una \in Nat /\ device.rcv \in Nat /\ device.fin \in BOOLEAN
      /\ MaxWindow \in Nat /\ << >> \in Seq(Nat) /\ DeviceBytes \in Nat
  BY TunnelFacts, ConstantFacts DEF Link, TypeOK, Device
<1>1. CASE DeviceConnect
  <2>1. /\ device.phase = "closed" /\ Emit({"SYN"}, 0, << >>)
        /\ device' = [device EXCEPT !.phase = "syn"]
    BY <1>1 DEF DeviceConnect
  <2>2. device' \in Device /\ device'.edge <= device'.rcv + MaxWindow /\ device'.phase = "syn"
    BY <1>0, <2>1 DEF Device
  <2>3. {"SYN"} \in SUBSET Flags /\ "SYN" \in {"SYN"}
    BY DEF Flags
  <2> QED BY <1>0, <2>1, <2>2, <2>3, EmitLink
<1>2. CASE DeviceResendSyn
  <2>1. device.phase = "syn" /\ Emit({"SYN"}, 0, << >>) /\ device' = device
    BY <1>2 DEF DeviceResendSyn
  <2>2. {"SYN"} \in SUBSET Flags /\ "SYN" \in {"SYN"}
    BY DEF Flags
  <2> QED BY <1>0, <2>1, <2>2, EmitLink
<1>3. CASE DeviceResend
  <2> DEFINE flags == {"ACK"} \cup FinFlag(device.fin)
             data == Bytes(device.una, device.nxt)
  <2>1. /\ device.phase = "open" /\ Emit(flags, device.una, data)
        /\ device.una <= device.nxt /\ device' = [device EXCEPT !.owes_ack = FALSE]
    BY <1>0, <1>3 DEF DeviceResend
  <2>2. device' \in Device /\ device'.edge <= device'.rcv + MaxWindow /\ device'.phase = "open"
    BY <1>0, <2>1 DEF Device
  <2>3. flags \in SUBSET Flags /\ "SYN" \notin flags /\ data \in Seq(Nat)
    BY <1>0, <2>1, BytesType DEF Flags, FinFlag
  <2> HIDE DEF flags, data
  <2> QED BY <1>0, <2>1, <2>2, <2>3, EmitLink
<1>4. CASE DeviceAck
  <2> DEFINE from == device.nxt + (IF device.fin THEN 1 ELSE 0)
  <2>1. /\ device.phase \in {"handshake", "open"} /\ Emit({"ACK"}, from, << >>)
        /\ device' = [device EXCEPT !.owes_ack = FALSE, !.phase = "open"]
    BY <1>4 DEF DeviceAck, HasPeer
  <2>2. device' \in Device /\ device'.edge <= device'.rcv + MaxWindow /\ device'.phase = "open"
    BY <1>0, <2>1 DEF Device
  <2>3. {"ACK"} \in SUBSET Flags /\ "SYN" \notin {"ACK"} /\ from \in Nat
    BY <1>0 DEF Flags
  <2> HIDE DEF from
  <2> QED BY <1>0, <2>1, <2>2, <2>3, EmitLink
<1>5. CASE DeviceRead
  <2>1. /\ device.phase = "open"
        /\ device' = [device EXCEPT !.edge = device.rcv + MaxWindow, !.owes_ack = TRUE]
        /\ conn' = conn /\ ready' = ready /\ client_ran' = client_ran
        /\ from_device' = from_device /\ server' = server
    BY <1>5 DEF DeviceRead
  <2>2. device.rcv + MaxWindow \in Nat /\ device.rcv + MaxWindow <= device.rcv + MaxWindow
    BY <1>0
  <2>3. device' \in Device /\ device'.edge <= device'.rcv + MaxWindow /\ device'.phase = "open"
    BY <1>0, <2>1, <2>2 DEF Device
  <2>4. IInv' /\ Chan(conn, 0)' /\ TypeOK' /\ SynSeq'
    BY <2>1, <2>3 DEF Link, IInv, TypeOK, ConnTypeOK, SynSeq
  <2>5. Unanswered'
    BY <2>1, <2>3 DEF Link, Unanswered, AllSyn, NoSyn
  <2> QED BY <2>3, <2>4, <2>5 DEF Link
<1>6. CASE DeviceReset
  <2> DEFINE from == device.nxt + (IF device.fin THEN 1 ELSE 0)
  <2>1. /\ device.phase = "open" /\ Emit({"RST"}, from, << >>)
        /\ device' = [device EXCEPT !.phase = "reset"]
    BY <1>6 DEF DeviceReset
  <2>2. device' \in Device /\ device'.edge <= device'.rcv + MaxWindow /\ device'.phase = "reset"
    BY <1>0, <2>1 DEF Device
  <2>3. {"RST"} \in SUBSET Flags /\ "SYN" \notin {"RST"} /\ from \in Nat
    BY <1>0 DEF Flags
  <2> HIDE DEF from
  <2> QED BY <1>0, <2>1, <2>2, <2>3, EmitLink
<1>7. ASSUME NEW n \in 0 .. DeviceBytes, NEW fin \in BOOLEAN, DeviceSend(n, fin)
      PROVE  Link'
  <2> DEFINE flags == {"ACK"} \cup FinFlag(fin)
             data == Bytes(device.nxt, device.nxt + n)
  <2>1. /\ device.phase \in {"handshake", "open"} /\ Emit(flags, device.nxt, data)
        /\ device' = [device EXCEPT !.nxt = @ + n, !.fin = fin, !.owes_ack = FALSE, !.phase = "open"]
    BY <1>7 DEF DeviceSend, HasPeer
  <2>2. n \in Nat /\ device.nxt + n \in Nat /\ device.nxt <= device.nxt + n
    BY <1>0
  <2>3. device' \in Device /\ device'.edge <= device'.rcv + MaxWindow /\ device'.phase = "open"
    BY <1>0, <2>1, <2>2 DEF Device
  <2>4. flags \in SUBSET Flags /\ "SYN" \notin flags /\ data \in Seq(Nat)
    BY <1>0, <2>2, BytesType DEF Flags, FinFlag
  <2> HIDE DEF flags, data
  <2> QED BY <1>0, <2>1, <2>3, <2>4, EmitLink
<1> QED BY <1>1, <1>2, <1>3, <1>4, <1>5, <1>6, <1>7 DEF DeviceNext

\* The server only changes what the socket has to say.
ServerNext == ServerSend \/ ServerFin \/ ServerReset

\* It keeps its type and leaves the rest alone.
LEMMA ServerFrame ==
  ASSUME Link, ServerNext
  PROVE  /\ server' \in Server /\ conn' = conn /\ ready' = ready /\ client_ran' = client_ran
         /\ device' = device /\ from_device' = from_device
<1>1. server \in Server /\ conn.taken \in Nat
  BY DEF Link, TypeOK, ConnTypeOK, Connection
<1>2. \A s : ServerStep(s) => /\ server' = s /\ conn' = conn /\ ready' = ready
                              /\ client_ran' = client_ran /\ device' = device
                              /\ from_device' = from_device
  BY DEF ServerStep
<1>3. /\ [server EXCEPT !.sent = @ + 1] \in Server /\ [server EXCEPT !.fin = TRUE] \in Server
      /\ [sent |-> conn.taken, fin |-> FALSE, reset |-> TRUE] \in Server
  <2>1. server.sent \in Nat /\ server.sent + 1 \in Nat
    BY <1>1 DEF Server
  <2> QED BY <1>1, <2>1 DEF Server
<1>4. CASE ServerSend
  BY <1>2, <1>3, <1>4 DEF ServerSend
<1>5. CASE ServerFin
  BY <1>2, <1>3, <1>5 DEF ServerFin
<1>6. CASE ServerReset
  BY <1>2, <1>3, <1>6 DEF ServerReset
<1> QED BY <1>4, <1>5, <1>6 DEF ServerNext

\* The steps of the relay are those of TcpConnection, whatever the device.
RelayNext == Poll \/ OnReady \/ PushPacket \/ ClientSend \/ Fill \/ ClientClose

\* Every step of the relay is a step of the connection on its own.
LEMMA RelayIsConn == Link /\ RelayNext => ConnNext
<1> SUFFICES ASSUME Link, RelayNext PROVE ConnNext
  OBVIOUS
<1>0. conn \in Connection /\ from_device \in Seq(DevicePacket)
  BY DEF Link, TypeOK, ConnTypeOK
<1>1. CASE Poll
  BY <1>1 DEF Poll, ConnNext
<1>2. CASE OnReady
  <2>1. PICK w \in WriteResults(conn), r \in {WouldBlock, Error} \cup 0 .. ServerBytes : on_ready(w, r)
    BY <1>2 DEF OnReady
  <2>2. w \in Int
    BY <1>0 DEF WriteResults, WouldBlock, Error, Connection
  <2>3. r \in Int
    BY DEF WouldBlock, Error
  <2> QED BY <2>1, <2>2, <2>3 DEF ConnNext
<1>3. CASE PushPacket
  <2>1. PICK isn \in RelayIsns : push_packet(Head(from_device), isn) /\ from_device # << >>
    BY <1>3 DEF PushPacket
  <2>2. Head(from_device) \in DevicePacket /\ isn \in Seqno
    BY <1>0, <2>1, RemainingPackets, TunnelFacts
  <2> QED BY <2>1, <2>2 DEF ConnNext
<1>4. CASE ClientSend
  <2>1. PICK n \in {0, 1}, f \in {0, conn.foreign} : client_send(n, f)
    BY <1>4 DEF ClientSend
  <2>2. f \in Nat
    BY <1>0 DEF Connection
  <2> QED BY <2>1, <2>2 DEF ConnNext
<1>5. CASE Fill
  <2> DEFINE f == ClientCapacity - conn.used
  <2>1. fill(f)
    BY <1>5 DEF Fill
  <2>2. f > conn.foreign /\ conn.foreign \in Nat /\ f \in Int
    BY <1>0, <2>1, ConstantFacts DEF fill, Connection
  <2>3. f \in Nat
    BY <2>2
  <2> HIDE DEF f
  <2> QED BY <2>1, <2>3 DEF ConnNext
<1>6. CASE ClientClose
  BY <1>6 DEF ClientClose, ConnNext
<1> QED BY <1>1, <1>2, <1>3, <1>4, <1>5, <1>6 DEF RelayNext

\* The parts of Link that only depend on what did not change.
LEMMA LinkFrame ==
  ASSUME Link, IInv', device' \in Device, device'.edge <= device'.rcv + MaxWindow,
         server' \in Server, from_device' = from_device, Chan(conn', 0), Unanswered'
  PROVE  Link'
<1>1. TypeOK'
  <2>1. ConnTypeOK'
    BY ConnTypes DEF IInv, Safe, Steady, ConnTypeOK
  <2> QED BY <2>1 DEF Link, TypeOK
<1>2. SynSeq'
  BY DEF Link, SynSeq
<1> QED BY <1>1, <1>2 DEF Link

\* Whatever the relay does.
LEMMA RelayLink == Link /\ RelayNext => Link'
<1> SUFFICES ASSUME Link, RelayNext PROVE Link'
  OBVIOUS
<1>0. /\ IInv /\ Chan(conn, 0) /\ 0 \in Nat /\ Unanswered
      /\ device \in Device /\ device.edge <= device.rcv + MaxWindow
      /\ server \in Server /\ from_device \in Seq(DevicePacket)
  BY DEF Link, TypeOK
<1>1. IInv'
  BY RelayIsConn, ConnNextIInv DEF Link
<1>2. CASE Poll
  <2>1. PICK events \in SUBSET Readiness : poll(events)
    BY <1>2 DEF Poll
  <2>2. /\ conn' = conn /\ ready' = events /\ (events \subseteq conn.interests \/ events = {"hup"})
        /\ device' = device /\ from_device' = from_device /\ server' = server
    BY <1>2, <2>1 DEF Poll, poll
  <2>3. Unanswered'
    BY <1>0, <2>2 DEF Unanswered, AllSyn, NoSyn
  <2> QED BY <1>0, <1>1, <2>2, <2>3, LinkFrame
<1>3. CASE OnReady
  <2>1. PICK w \in WriteResults(conn), r \in {WouldBlock, Error} \cup 0 .. ServerBytes : on_ready(w, r)
    BY <1>3 DEF OnReady
  <2>2. w \in Int /\ r \in Int
    <3>1. conn \in Connection
      BY DEF Link, TypeOK, ConnTypeOK
    <3>2. w \in Int
      BY <3>1 DEF WriteResults, WouldBlock, Error, Connection
    <3> QED BY <3>2 DEF WouldBlock, Error
  <2>3. /\ Chan(conn', 0) /\ Wrote(conn, conn') /\ conn'.state # "Init"
        /\ conn'.state = "SynSent" => conn'.closed
    BY <1>0, <2>1, <2>2, OnReadyChan DEF Unanswered
  <2>4. device' = device /\ from_device' = from_device /\ server' = server
    BY <1>3 DEF OnReady
  <2>5. Unanswered'
    BY <2>3 DEF Unanswered
  <2> QED BY <1>0, <1>1, <2>3, <2>4, <2>5, LinkFrame
<1>4. CASE PushPacket
  <2> DEFINE p == from_device[1]
             n == Len(from_device)
  <2>1. PICK isn \in RelayIsns : push_packet(p, isn)
    BY <1>0, <1>4, RemainingPackets DEF PushPacket
  <2>2. /\ isn \in Seqno /\ p \in DevicePacket /\ n \in Nat \ {0} /\ 1 \in 1 .. n
        /\ from_device' = Tail(from_device) /\ device' = device /\ server' = server
        /\ from_device' \in Seq(DevicePacket) /\ Len(from_device') = n - 1
        /\ \A i \in 1 .. n - 1 : from_device'[i] = from_device[i + 1] /\ i + 1 \in 1 .. n
    BY <1>0, <1>4, RemainingPackets, TunnelFacts DEF PushPacket
  <2>3. /\ "SYN" \in p.flags => p.seq = DeviceSeq(0)
        /\ AllSyn => "SYN" \in p.flags /\ AllSyn'
        /\ NoSyn => "SYN" \notin p.flags
        /\ SynSeq'
    BY <2>2 DEF Link, SynSeq, AllSyn, NoSyn
  <2>4. ready' = ready /\ ~conn.closed
    BY <2>1 DEF push_packet
  <2> HIDE DEF p, n
  <2>5. /\ Chan(conn', 0) /\ Handled(conn, p, conn')
        /\ conn'.packet_for_client_length = conn.packet_for_client_length
        /\ ~conn'.closed => conn'.interests = wanted(conn')
    BY <1>0, <2>1, <2>2, <2>3, <2>4, PushChan DEF Unanswered
  <2>6. Unanswered'
    <3>1. CASE conn.state = "Init" /\ "SYN" \in p.flags
      <4>1. /\ conn'.state = "SynSent" /\ conn'.channel = << >> /\ conn'.fins = conn.fins
            /\ ~conn'.closed
        BY <2>4, <2>5, <3>1 DEF Handled, SameStream
      <4>2. conn'.interests = {"writable"} /\ ready' = {}
        BY <1>0, <2>4, <2>5, <3>1, <4>1 DEF wanted, IInv
      <4> QED BY <1>0, <2>2, <2>3, <2>4, <2>5, <3>1, <4>1, <4>2 DEF Unanswered
    <3>2. CASE conn.state = "Init" /\ "SYN" \notin p.flags
      BY <2>5, <3>2 DEF Handled, Unanswered
    <3>3. CASE conn.state = "SynSent"
      <4>1. /\ conn'.state = "SynSent" /\ conn'.channel = << >> /\ conn'.fins = conn.fins
            /\ ~conn'.closed
        BY <1>0, <2>3, <2>4, <2>5, <3>3 DEF Handled, SameStream, Unanswered
      <4>2. conn'.interests = {"writable"}
        BY <2>5, <4>1 DEF wanted
      <4> QED BY <1>0, <2>2, <2>3, <2>4, <2>5, <3>3, <4>1, <4>2 DEF Unanswered
    <3>4. CASE conn.state \notin {"Init", "SynSent"}
      <4>1. conn'.state \notin {"Init", "SynSent"}
        BY <2>5, <3>4 DEF Handled, Taken, Early
      <4> QED BY <4>1 DEF Unanswered
    <3> QED BY <3>1, <3>2, <3>3, <3>4
  <2>7. TypeOK'
    <3>1. ConnTypeOK'
      BY <1>1 DEF IInv, Safe, Steady, ConnTypeOK
    <3> QED BY <1>0, <2>2, <3>1 DEF TypeOK
  <2> QED BY <1>0, <1>1, <2>2, <2>3, <2>5, <2>6, <2>7 DEF Link
<1>5. CASE ClientSend
  <2>1. PICK n \in {0, 1}, f \in {0, conn.foreign} :
          /\ conn.closed => conn.pending_packet_sources > 0
          /\ client_send(n, f)
          /\ device' = IF n = 0 THEN device ELSE Received(device, conn.channel[1])
          /\ from_device' = from_device /\ server' = server
    BY <1>5 DEF ClientSend
  <2>2. f \in Nat /\ ready' = ready /\ conn.panic = "none" /\ n <= Len(conn.channel)
    BY <1>0, <2>1 DEF IInv, Safe, Steady, Connection, client_send, Running
  <2>3. n = 1 => conn.state # "Init"
    BY <1>0, <2>1, <2>2 DEF Unanswered, Chan, IInv, Safe, Steady, Registered
  <2>4. /\ SameStream(conn, conn') /\ conn'.state = conn.state /\ conn'.closed = conn.closed
        /\ n = 0 => Chan(conn', 0)
        /\ n = 1 => /\ conn.channel # << >> /\ conn.channel[1] \in ClientPacket
                    /\ Headers <= conn.channel[1].total_length
                    /\ \E hi \in Nat : /\ conn.channel[1].ack = DeviceSeq(hi)
                                       /\ 0 <= hi /\ hi <= Told(conn) /\ Chan(conn', hi)
        /\ conn.channel = << >> /\ conn.packet_for_client_length = 0 =>
             /\ n = 0 /\ conn'.channel = << >> /\ conn'.packet_for_client_length = 0
             /\ conn'.interests = conn.interests
    BY <1>0, <2>1, <2>2, <2>3, ClientSendChan
  <2>5. Chan(conn', 0)
    <3>1. CASE n = 0
      BY <2>4, <3>1
    <3>2. CASE n = 1
      <4>1. PICK hi \in Nat : 0 <= hi /\ Chan(conn', hi)
        BY <2>4, <3>2
      <4> QED BY <1>0, <4>1, ChanLower
    <3> QED BY <3>1, <3>2
  <2>6. device' \in Device /\ device'.edge <= device'.rcv + MaxWindow
    <3>1. CASE n = 0
      BY <1>0, <2>1, <3>1
    <3>2. CASE n = 1
      BY <1>0, <2>1, <2>4, <3>2, ReceivedType
    <3> QED BY <3>1, <3>2
  <2>7. Unanswered'
    <3>1. conn.channel = << >> /\ conn.packet_for_client_length = 0 => device' = device
      BY <2>1, <2>4
    <3> QED BY <1>0, <2>1, <2>2, <2>4, <3>1 DEF Unanswered, AllSyn, NoSyn, SameStream
  <2> QED BY <1>0, <1>1, <2>1, <2>5, <2>6, <2>7, LinkFrame
<1>6. CASE Fill
  <2>1. /\ conn' = [conn EXCEPT !.foreign = ClientCapacity - conn.used] /\ ready' = ready
        /\ device' = device /\ from_device' = from_device /\ server' = server
    BY <1>6 DEF Fill, fill
  <2>2. /\ SameQueue(conn, conn') /\ SameStream(conn, conn') /\ conn'.state = conn.state
        /\ conn'.closed = conn.closed /\ conn'.interests = conn.interests
    BY <1>0, <2>1 DEF IInv, Safe, Steady, Connection, SameQueue, SameStream
  <2>3. Chan(conn', 0)
    <3>1. Told(conn) \in Nat /\ Told(conn') = Told(conn) /\ Told(conn) <= Told(conn')
      BY <1>0, <2>2, Counted, SameTold DEF IInv, Safe
    <3>2. CASE conn.state # "Init"
      BY <1>0, <2>2, <3>1, <3>2, ChanFrame
    <3>3. CASE conn.state = "Init"
      BY <1>0, <2>2, <3>3 DEF Chan, Whole, SameQueue
    <3> QED BY <3>2, <3>3
  <2>4. Unanswered'
    BY <1>0, <2>1, <2>2 DEF Unanswered, AllSyn, NoSyn, SameQueue, SameStream
  <2> QED BY <1>0, <1>1, <2>1, <2>3, <2>4, LinkFrame
<1>7. CASE ClientClose
  <2>1. /\ conn' = [close(conn) EXCEPT !.client_closed = TRUE]
        /\ device' = device /\ from_device' = from_device /\ server' = server
    BY <1>7 DEF ClientClose, client_close
  <2>2. /\ SameQueue(conn, conn') /\ SameStream(conn, conn') /\ conn'.state = conn.state
        /\ conn'.closed
    BY <1>0, <2>1 DEF close, IInv, Safe, Steady, Connection, SameQueue, SameStream
  <2>3. Chan(conn', 0)
    <3>1. Told(conn) \in Nat /\ Told(conn') = Told(conn) /\ Told(conn) <= Told(conn')
      BY <1>0, <2>2, Counted, SameTold DEF IInv, Safe
    <3>2. CASE conn.state # "Init"
      BY <1>0, <2>2, <3>1, <3>2, ChanFrame
    <3>3. CASE conn.state = "Init"
      BY <1>0, <2>2, <3>3 DEF Chan, Whole, SameQueue
    <3> QED BY <3>2, <3>3
  <2>4. Unanswered'
    BY <2>2 DEF Unanswered
  <2> QED BY <1>0, <1>1, <2>1, <2>3, <2>4, LinkFrame
<1> QED BY <1>2, <1>3, <1>4, <1>5, <1>6, <1>7 DEF RelayNext

\* The invariant of the tunnel.
LEMMA NextLink == Link /\ [Next]_vars => Link'
<1> SUFFICES ASSUME Link, [Next]_vars PROVE Link'
  OBVIOUS
<1>1. CASE DeviceNext
  BY <1>1, DeviceLink
<1>2. CASE ServerNext
  <2>1. /\ server' \in Server /\ conn' = conn /\ ready' = ready /\ client_ran' = client_ran
        /\ device' = device /\ from_device' = from_device
    BY <1>2, ServerFrame
  <2> QED BY <2>1 DEF Link, TypeOK, ConnTypeOK, IInv, SynSeq, Unanswered, AllSyn, NoSyn
<1>3. CASE RelayNext
  BY <1>3, RelayLink
<1>4. CASE UNCHANGED vars
  BY <1>4 DEF vars, Link, TypeOK, ConnTypeOK, IInv, SynSeq, Unanswered, AllSyn, NoSyn
<1> QED BY <1>1, <1>2, <1>3, <1>4 DEF Next, DeviceNext, ServerNext, RelayNext

\* With any device that keeps to the tunnel's packets, every state is well
\* formed: the device's window never leaves 0 .. MaxWindow, whatever the headers of
\* the deferred packets claim.
THEOREM TunnelTypes == Spec => []TypeOK
<1>1. Link => TypeOK
  BY DEF Link
<1> QED BY <1>1, InitLink, NextLink, PTL DEF Spec

\* A step of the tunnel is a step of the connection, or does not concern it.
LEMMA NextIsConn == Link /\ [Next]_vars => [ConnNext]_connVars
<1> SUFFICES ASSUME Link, [Next]_vars PROVE [ConnNext]_connVars
  OBVIOUS
<1>1. CASE DeviceNext
  BY <1>1 DEF DeviceNext, DeviceConnect, DeviceResendSyn, DeviceResend, DeviceAck, DeviceRead,
              DeviceReset, DeviceSend, Emit, connVars
<1>2. CASE ServerNext
  BY <1>2, ServerFrame DEF connVars
<1>3. CASE RelayNext
  BY <1>3, RelayIsConn
<1>4. CASE UNCHANGED vars
  BY <1>4 DEF vars, connVars
<1> QED BY <1>1, <1>2, <1>3, <1>4 DEF Next, DeviceNext, ServerNext, RelayNext

\* The connection between a device and a server implements the connection
\* specified for a device and a network that do anything.
THEOREM TunnelImplementsConnection == Spec => ConnSpec
<1>1. Init => ConnInit
  BY DEF Init
<1> QED BY <1>1, InitLink, NextLink, NextIsConn, PTL DEF Spec, ConnSpec

\* The assertion "A pending packet was not sent" of process_receive() cannot fail.
THEOREM PendingIsNeverOverrun == Spec => []NoPendingOverrun
  BY TunnelImplementsConnection, ConnectionSafety, PTL

\* The socket stays registered for all that the connection waits for.
THEOREM WakeupIsNeverLost == Spec => []NoLostWakeup
  BY TunnelImplementsConnection, ConnectionSafety, PTL

\* The client lists the connection exactly while it holds a deferred packet.
THEOREM PendingIsRegistered == Spec => []RegisteredWhilePending
  BY TunnelImplementsConnection, ConnectionSafety, PTL

-----------------------------------------------------------------------------
(***************************************************************************)
(* The order of the device's stream.  Reach is the position after the last *)
(* byte the relay took, Top also counts the FIN.  The order is kept because *)
(* every packet in flight stands less than a turn of the sequence numbers  *)
(* away from the one expected, so a packet accepted is the one expected.   *)
(***************************************************************************)
Reach(c) == 1 + Len(c.written) + Len(c.client_to_network)
Top(c) == Reach(c) + Bit(c.fin_received)

\* What a device that respects the window keeps.
Sender(d) ==
  /\ 1 <= d.una /\ d.una <= d.nxt + Bit(d.fin) /\ d.nxt <= d.una + MaxWindow
  /\ d.phase \in {"closed", "syn", "handshake"} => d.nxt = 1 /\ ~d.fin

\* What the relay holds of the stream of device d.
Stream(c, d) ==
  /\ \A i \in 1 .. Len(c.written) : c.written[i] = i
  /\ \A i \in 1 .. Len(c.client_to_network) : c.client_to_network[i] = Len(c.written) + i
  /\ Reach(c) <= d.nxt
  /\ c.fin_received => d.fin /\ Reach(c) = d.nxt
  /\ c.fins = Bit(c.fin_received /\ c.client_to_network = << >>)
  /\ c.state \in Early => Reach(c) = 1 /\ ~c.fin_received
  /\ d.una <= Told(c)

\* The packet p of device d stands at position f of the stream.
At(p, f, d) ==
  /\ p.seq = DeviceSeq(f) /\ p.data = Bytes(f, f + Len(p.data))
  /\ f + Len(p.data) <= d.nxt + Bit(d.fin)
  /\ p.data # << >> => f + Len(p.data) <= d.nxt
  /\ "RST" \notin p.flags => "ACK" \in p.flags
  /\ "FIN" \in p.flags => d.fin /\ f + Len(p.data) = d.nxt

EndOf(p, f) == f + Len(p.data) + Bit("FIN" \in p.flags)

\* The packet that completes the handshake.
Opens(p) == /\ p.seq = DeviceSeq(1) /\ "ACK" \in p.flags /\ "RST" \notin p.flags
            /\ "FIN" \in p.flags => p.data = << >>

\* The counters of a connection and of a device.
LEMMA StreamTypes ==
  ASSUME NEW c, Steady(c), NEW d \in Device
  PROVE  /\ Len(c.written) \in Nat /\ Len(c.client_to_network) \in Nat /\ c.fins \in Nat
         /\ c.written \in Seq(Nat) /\ c.client_to_network \in Seq(Nat)
         /\ Told(c) \in Nat /\ Reach(c) \in Nat /\ Top(c) \in Nat
         /\ c.fin_received \in BOOLEAN
         /\ d.una \in Nat /\ d.nxt \in Nat /\ d.fin \in BOOLEAN /\ Bit(d.fin) \in {0, 1}
         /\ c.client_to_network = << >> <=> Len(c.client_to_network) = 0
<1>1. c \in Connection
  BY DEF Steady
<1>2. /\ c.written \in Seq(Nat) /\ c.client_to_network \in Seq(Nat) /\ c.fins \in Nat
      /\ c.fin_received \in BOOLEAN
  BY <1>1 DEF Connection
<1>3. Len(c.written) \in Nat /\ Len(c.client_to_network) \in Nat
  BY <1>2
<1>4. Told(c) \in Nat /\ Reach(c) \in Nat /\ Top(c) \in Nat
  <2>1. Bit(c.fin_received) \in Nat
    BY DEF Bit
  <2>2. Told(c) \in Nat /\ Reach(c) \in Nat
    <3> DEFINE l == Len(c.written)
               m == Len(c.client_to_network)
               n == c.fins
    <3>1. Told(c) = 1 + l + n /\ Reach(c) = 1 + l + m /\ l \in Nat /\ m \in Nat /\ n \in Nat
      BY <1>2, <1>3 DEF Told, Reach
    <3> HIDE DEF l, m, n
    <3> QED BY <3>1
  <2> QED BY <2>1, <2>2 DEF Top
<1>5. d.una \in Nat /\ d.nxt \in Nat /\ d.fin \in BOOLEAN /\ Bit(d.fin) \in {0, 1}
  BY DEF Device, Bit
<1> QED BY <1>2, <1>3, <1>4, <1>5

\* The position the relay expects next.
LEMMA ExpectedSeq ==
  ASSUME NEW c, Steady(c), c.state # "Init", c.syn_sequence_number = DeviceIsn
  PROVE  expected_packet(c) = DeviceSeq(Told(c) + Len(c.client_to_network))
<1> DEFINE t == Told(c)
           l == Len(c.client_to_network)
           x == DeviceIsn + t
<1>1. t \in Nat /\ l \in Nat /\ c.acknowledgement_number = DeviceSeq(t)
  BY ToldIsAcked, Counted
<1>2. expected_packet(c) = wrapping_add(DeviceSeq(t), l)
  BY <1>1 DEF expected_packet
<1> HIDE DEF t, l
<1>3. x \in Int /\ x + l = DeviceIsn + (t + l)
  BY <1>1, TunnelFacts
<1>4. DeviceSeq(t) = x % SeqSpace /\ DeviceSeq(t + l) = (DeviceIsn + (t + l)) % SeqSpace
  BY DEF DeviceSeq, wrapping_add
<1> HIDE DEF x
<1>5. wrapping_add(x % SeqSpace, l) = (x + l) % SeqSpace
  BY <1>1, <1>3, WrapSum
<1> QED BY <1>2, <1>3, <1>4, <1>5 DEF t, l

\* Nothing is acknowledged that the device did not send.
LEMMA ToldBound ==
  ASSUME NEW c, Steady(c), NEW d \in Device, Stream(c, d)
  PROVE  /\ Told(c) <= d.nxt + Bit(d.fin) /\ Told(c) <= Top(c) /\ Top(c) <= d.nxt + Bit(d.fin)
         /\ Told(c) + Len(c.client_to_network) <= Top(c)
<1>1. /\ Len(c.written) \in Nat /\ Len(c.client_to_network) \in Nat
      /\ d.nxt \in Nat /\ d.fin \in BOOLEAN /\ c.fin_received \in BOOLEAN
      /\ c.client_to_network = << >> <=> Len(c.client_to_network) = 0
  BY StreamTypes
<1>2. /\ Reach(c) <= d.nxt
      /\ c.fin_received => d.fin /\ Reach(c) = d.nxt
      /\ c.fins = Bit(c.fin_received /\ c.client_to_network = << >>)
  BY DEF Stream
<1> DEFINE l == Len(c.written)
           m == Len(c.client_to_network)
           n == d.nxt
<1>3. /\ Told(c) = 1 + l + c.fins /\ Reach(c) = 1 + l + m /\ Top(c) = Reach(c) + Bit(c.fin_received)
      /\ l \in Nat /\ m \in Nat /\ n \in Nat
  BY <1>1 DEF Told, Reach, Top
<1> SUFFICES /\ Told(c) <= n + Bit(d.fin) /\ Told(c) <= Top(c) /\ Top(c) <= n + Bit(d.fin)
             /\ Told(c) + m <= Top(c)
  OBVIOUS
<1>4. CASE c.fin_received
  <2>1. /\ Bit(c.fin_received) = 1 /\ Bit(d.fin) = 1 /\ Reach(c) = n
        /\ c.fins = IF m = 0 THEN 1 ELSE 0
    BY <1>1, <1>2, <1>4 DEF Bit
  <2> HIDE DEF l, m, n
  <2> QED BY <1>3, <2>1
<1>5. CASE ~c.fin_received
  <2>1. Bit(c.fin_received) = 0 /\ Bit(d.fin) \in {0, 1} /\ c.fins = 0 /\ Reach(c) <= n
    BY <1>2, <1>5 DEF Bit
  <2> HIDE DEF l, m, n
  <2> QED BY <1>3, <2>1
<1> QED BY <1>4, <1>5

\* A step that leaves the stream alone.
LEMMA StreamKeeps ==
  ASSUME NEW c, NEW e, NEW d, Stream(c, d), SameStream(c, e), e.state \in Early => c.state \in Early
  PROVE  Stream(e, d) /\ Top(e) = Top(c) /\ Told(e) = Told(c)
<1>1. /\ e.written = c.written /\ e.client_to_network = c.client_to_network
      /\ e.fins = c.fins /\ e.fin_received = c.fin_received
  BY DEF SameStream
<1>2. Reach(e) = Reach(c) /\ Top(e) = Top(c) /\ Told(e) = Told(c)
  BY <1>1 DEF Top, Reach, Told
<1>3. Bit(e.fin_received /\ e.client_to_network = << >>)
        = Bit(c.fin_received /\ c.client_to_network = << >>)
  BY <1>1
<1> QED BY <1>1, <1>2, <1>3 DEF Stream

\* Bytes written move from the buffer to the socket, in order.
LEMMA MovedSeq ==
  ASSUME NEW c, Steady(c), NEW e, NEW w \in 1 .. Len(c.client_to_network), Moved(c, e, w)
  PROVE  LET l == Len(c.written)
             m == Len(c.client_to_network)
         IN /\ Len(e.written) = l + w /\ Len(e.client_to_network) = m - w
            /\ \A i \in 1 .. l : e.written[i] = c.written[i]
            /\ \A i \in 1 .. w : e.written[l + i] = c.client_to_network[i]
            /\ \A i \in 1 .. m - w : e.client_to_network[i] = c.client_to_network[w + i]
            /\ e.client_to_network \in Seq(Nat)
<1> DEFINE l == Len(c.written)
           m == Len(c.client_to_network)
           s == c.client_to_network
           a == SubSeq(s, 1, w)
           b == SubSeq(s, w + 1, m)
<1>1. c.written \in Seq(Nat) /\ s \in Seq(Nat) /\ l \in Nat /\ m \in Nat /\ w \in Nat /\ w <= m
  BY Counted
<1>0. \A i \in 1 .. m : s[i] \in Nat
  BY <1>1
<1>2. a \in Seq(Nat) /\ Len(a) = w /\ \A i \in 1 .. w : a[i] = s[i]
  <2> HIDE DEF s, m
  <2>1. 1 \in Int /\ w \in Int /\ \A i \in 1 .. w : s[i] \in Nat
    BY <1>0, <1>1
  <2>2. /\ a \in Seq(Nat) /\ Len(a) = (IF 1 <= w THEN w - 1 + 1 ELSE 0)
        /\ \A i \in 1 .. w - 1 + 1 : a[i] = s[1 + i - 1]
    BY <2>1, SubSeqProperties
  <2>3. w - 1 + 1 = w /\ 1 <= w /\ \A i \in 1 .. w : 1 + i - 1 = i
    BY <1>1
  <2> QED BY <2>2, <2>3
<1>3. b \in Seq(Nat) /\ Len(b) = m - w /\ \A i \in 1 .. m - w : b[i] = s[w + i]
  <2> HIDE DEF s, m
  <2> DEFINE v == w + 1
  <2>1. v \in Int /\ m \in Int /\ \A i \in v .. m : s[i] \in Nat
    BY <1>0, <1>1
  <2> HIDE DEF v
  <2>2. LET x == SubSeq(s, v, m)
        IN /\ x \in Seq(Nat) /\ Len(x) = (IF v <= m THEN m - v + 1 ELSE 0)
           /\ \A i \in 1 .. m - v + 1 : x[i] = s[v + i - 1]
    BY <2>1, SubSeqProperties
  <2>3. /\ m - v + 1 = m - w /\ (v <= m \/ m - w = 0)
        /\ \A i \in 1 .. m - w : v + i - 1 = w + i
    BY <1>1 DEF v
  <2> QED BY <2>2, <2>3 DEF v
<1> HIDE DEF a
<1>4. /\ Len(c.written \o a) = l + w
      /\ \A i \in 1 .. l : (c.written \o a)[i] = c.written[i]
      /\ \A i \in 1 .. w : (c.written \o a)[l + i] = a[i]
  <2>1. l + w \in Nat /\ \A i \in 1 .. l : i \in 1 .. l + w /\ i <= l
    BY <1>1
  <2>2. \A i \in 1 .. w : l + i \in 1 .. l + w /\ ~(l + i <= l) /\ (l + i) - l = i
    BY <1>1
  <2> DEFINE t == c.written
             x == t \o a
  <2>3. t \in Seq(Nat) /\ a \in Seq(Nat) /\ Len(t) = l /\ Len(a) = w
    BY <1>1, <1>2
  <2> HIDE DEF t, l
  <2>4. /\ Len(x) = l + w
        /\ \A i \in 1 .. l + w : x[i] = IF i <= l THEN t[i] ELSE a[i - l]
    BY <2>3, ConcatProperties
  <2> HIDE DEF x
  <2> QED BY <2>1, <2>2, <2>4 DEF x, t
<1>5. e.written = c.written \o a /\ e.client_to_network = b
  BY DEF Moved, a
<1> HIDE DEF b, l, m, s
<1> QED BY <1>2, <1>3, <1>4, <1>5 DEF l, m, s

\* A socket event keeps the order of the stream.
LEMMA StreamWrote ==
  ASSUME NEW c, Steady(c), NEW e, NEW d \in Device, Stream(c, d), Wrote(c, e)
  PROVE  Stream(e, d) /\ Top(e) = Top(c)
<1>1. CASE Keeps(c, e)
  BY <1>1, StreamKeeps DEF Keeps
<1>2. CASE ~Keeps(c, e)
  <2>1. PICK w \in 1 .. Len(c.client_to_network) : Moved(c, e, w)
    BY <1>2 DEF Wrote
  <2>2. /\ e.fins = (IF e.fin_received /\ e.client_to_network = << >> THEN c.fins + 1 ELSE c.fins)
        /\ e.state \in Early => c.state \in Early
    BY <1>2 DEF Wrote
  <2> DEFINE l == Len(c.written)
             m == Len(c.client_to_network)
             k == Len(e.written)
             n == Len(e.client_to_network)
  <2>3. /\ l \in Nat /\ m \in Nat /\ d.una \in Nat /\ Told(c) \in Nat /\ Reach(c) \in Nat
        /\ c.client_to_network = << >> <=> m = 0
    BY StreamTypes
  <2>4. /\ k = l + w /\ n = m - w
        /\ \A i \in 1 .. l : e.written[i] = c.written[i]
        /\ \A i \in 1 .. w : e.written[l + i] = c.client_to_network[i]
        /\ \A i \in 1 .. m - w : e.client_to_network[i] = c.client_to_network[w + i]
        /\ e.client_to_network \in Seq(Nat)
    BY <2>1, MovedSeq
  <2>5. /\ \A i \in 1 .. l : c.written[i] = i
        /\ \A i \in 1 .. m : c.client_to_network[i] = l + i
        /\ c.state \in Early => Reach(c) = 1
        /\ Reach(c) <= d.nxt
        /\ c.fin_received => d.fin /\ Reach(c) = d.nxt
        /\ c.fins = Bit(c.fin_received /\ c.client_to_network = << >>)
        /\ d.una <= Told(c)
    BY DEF Stream
  <2>6. e.fin_received = c.fin_received
    BY <2>1 DEF Moved
  <2>7. /\ Told(c) = 1 + l + c.fins /\ Reach(c) = 1 + l + m
        /\ Told(e) = 1 + k + e.fins /\ Reach(e) = 1 + k + n
        /\ Top(e) = Reach(e) + Bit(e.fin_received) /\ Top(c) = Reach(c) + Bit(c.fin_received)
    BY DEF Told, Reach, Top
  <2>8. w \in Nat /\ 1 <= w /\ w <= m
    BY <2>3
  <2>9. c.client_to_network # << >>
    BY <2>3, <2>8
  <2>10. c.fins = 0 /\ e.fins = Bit(e.fin_received /\ e.client_to_network = << >>)
         /\ e.fins \in {0, 1}
    BY <2>2, <2>5, <2>9 DEF Bit
  <2> SUFFICES /\ \A i \in 1 .. k : e.written[i] = i
               /\ \A i \in 1 .. n : e.client_to_network[i] = k + i
               /\ Reach(e) = Reach(c) /\ e.state \notin Early /\ d.una <= Told(e)
    BY <2>5, <2>6, <2>7, <2>10 DEF Stream
  <2> HIDE DEF l, m, k, n
  <2>11. Reach(e) = Reach(c)
    BY <2>3, <2>4, <2>7, <2>8
  <2>12. e.state \notin Early
    BY <2>2, <2>3, <2>5, <2>7, <2>8
  <2>13. d.una <= Told(e)
    BY <2>3, <2>4, <2>5, <2>7, <2>8, <2>10
  <2>14. \A i \in 1 .. k : e.written[i] = i
    <3> TAKE i \in 1 .. k
    <3>1. CASE i <= l
      <4>1. i \in 1 .. l
        BY <2>3, <2>4, <3>1
      <4> QED BY <2>4, <2>5, <4>1
    <3>2. CASE ~(i <= l)
      <4>1. i - l \in 1 .. w /\ i - l \in 1 .. m /\ l + (i - l) = i
        BY <2>3, <2>4, <2>8, <3>2
      <4> QED BY <2>4, <2>5, <4>1
    <3> QED BY <3>1, <3>2
  <2>15. \A i \in 1 .. n : e.client_to_network[i] = k + i
    <3> TAKE i \in 1 .. n
    <3>1. i \in 1 .. m - w /\ w + i \in 1 .. m /\ l + (w + i) = k + i
      BY <2>3, <2>4, <2>8
    <3> QED BY <2>4, <2>5, <3>1
  <2> QED BY <2>11, <2>12, <2>13, <2>14, <2>15
<1> QED BY <1>1, <1>2

\* The bytes of the expected packet continue those in the buffer.
LEMMA BufferedSeq ==
  ASSUME NEW c, Steady(c), NEW d \in Device, Sender(d), Stream(c, d), ~c.fin_received,
         c.state # "SynReceived", NEW p \in DevicePacket,
         NEW f \in Nat, At(p, f, d), f = Told(c) + Len(c.client_to_network)
  PROVE  LET b == Buffered(c, p)
         IN /\ b \in Seq(Nat) /\ Len(b) = Len(c.client_to_network) + Len(p.data)
            /\ \A i \in 1 .. Len(b) : b[i] = Len(c.written) + i
<1> DEFINE l == Len(c.written)
           m == Len(c.client_to_network)
           n == Len(p.data)
           b == Buffered(c, p)
<1>1. /\ l \in Nat /\ m \in Nat /\ d.una \in Nat /\ d.nxt \in Nat /\ c.client_to_network \in Seq(Nat)
      /\ c.fins = 0 /\ Told(c) = 1 + l + c.fins /\ d.una <= Told(c)
      /\ \A i \in 1 .. m : c.client_to_network[i] = l + i
  BY StreamTypes DEF Stream, Told, Bit
<1>2. p.data \in Seq(Nat) /\ n \in Nat
  BY DEF DevicePacket
<1>a. /\ l \in Nat /\ m \in Nat /\ n \in Nat /\ d.una \in Nat /\ d.nxt \in Nat
      /\ f = (1 + l + 0) + m /\ d.una <= 1 + l + 0
  BY <1>1, <1>2
<1>3. f = 1 + l + m /\ d.una <= 1 + l
  <2> HIDE DEF l, m, n
  <2> QED BY <1>a
<1>4. CASE p.data = << >>
  <2>1. n = 0 /\ c.client_to_network \o p.data = c.client_to_network
    BY <1>1, <1>4
  <2>2. b = c.client_to_network
    BY <2>1 DEF Buffered
  <2> QED BY <1>1, <2>1, <2>2
<1>5. CASE p.data # << >>
  <2>1. f + n <= d.nxt /\ d.nxt <= d.una + MaxWindow /\ p.data = Bytes(f, f + n)
    BY <1>5 DEF At, Sender
  <2>2. ~(StreamCapacity - m < n)
    <3> DEFINE u == d.una
               x == d.nxt
    <3>1. f + n <= x /\ x <= u + MaxWindow /\ u <= 1 + l /\ x \in Nat /\ u \in Nat
      BY <1>3, <1>a, <2>1
    <3> HIDE DEF l, m, n, u, x
    <3> QED BY <1>3, <1>a, <3>1, TunnelFacts, ConstantFacts
  <2>3. b = c.client_to_network \o p.data
    BY <2>2 DEF Buffered
  <2>4. /\ b \in Seq(Nat) /\ Len(b) = m + n
        /\ \A i \in 1 .. m + n : b[i] = IF i <= m THEN c.client_to_network[i] ELSE p.data[i - m]
    <3> DEFINE s == c.client_to_network
               r == p.data
    <3>1. s \in Seq(Nat) /\ r \in Seq(Nat) /\ b = s \o r
      BY <1>1, <1>2, <2>3
    <3> HIDE DEF s, r, b
    <3>2. /\ s \o r \in Seq(Nat) /\ Len(s \o r) = Len(s) + Len(r)
          /\ \A i \in 1 .. Len(s) + Len(r) : (s \o r)[i] = IF i <= Len(s) THEN s[i] ELSE r[i - Len(s)]
      BY <3>1, ConcatProperties
    <3> QED BY <3>1, <3>2 DEF s, r
  <2>5. \A i \in 1 .. n : p.data[i] = f + i - 1
    <3> HIDE DEF n
    <3>1. (f + n) - f = n
      BY <1>2
    <3> QED BY <2>1, <3>1 DEF Bytes
  <2> HIDE DEF b, l, m, n
  <2>6. \A i \in 1 .. m + n : b[i] = l + i
    <3> TAKE i \in 1 .. m + n
    <3>1. CASE i <= m
      <4>1. i \in 1 .. m
        BY <1>1, <1>2, <3>1
      <4> QED BY <1>1, <2>4, <3>1, <4>1
    <3>2. CASE ~(i <= m)
      <4>1. i - m \in 1 .. n /\ f + (i - m) - 1 = l + i
        BY <1>3, <1>a, <3>2
      <4> QED BY <2>4, <2>5, <3>2, <4>1
    <3> QED BY <3>1, <3>2
  <2> QED BY <2>4, <2>6 DEF b, l, m, n
<1> QED BY <1>4, <1>5

\* The expected packet keeps the order of the stream.
LEMMA StreamTaken ==
  ASSUME NEW c, Steady(c), c.state \notin {"Init", "SynSent"}, NEW e,
         NEW d \in Device, Sender(d), Stream(c, d), NEW p \in DevicePacket,
         NEW f \in Nat, At(p, f, d), f = Told(c) + Len(c.client_to_network),
         c.state = "SynReceived" => Opens(p), Taken(c, p, e)
  PROVE  Stream(e, d) /\ (Top(e) = Top(c) \/ Top(e) = EndOf(p, f))
<1> DEFINE l == Len(c.written)
           m == Len(c.client_to_network)
           n == Len(p.data)
           b == Buffered(c, p)
<1>1. /\ l \in Nat /\ m \in Nat /\ d.una \in Nat /\ d.nxt \in Nat /\ c.client_to_network \in Seq(Nat)
      /\ c.client_to_network = << >> <=> m = 0
      /\ c.fin_received \in BOOLEAN /\ d.fin \in BOOLEAN /\ Told(c) \in Nat
  BY StreamTypes
<1>2. p.data \in Seq(Nat) /\ n \in Nat /\ (p.data = << >> <=> n = 0)
  BY DEF DevicePacket
<1>3. /\ Told(c) = 1 + l + c.fins /\ Reach(c) = 1 + l + m
      /\ Top(c) = Reach(c) + Bit(c.fin_received) /\ EndOf(p, f) = f + n + Bit("FIN" \in p.flags)
  BY DEF Told, Reach, Top, EndOf
<1>4. /\ Reach(c) <= d.nxt
      /\ c.fin_received => d.fin /\ Reach(c) = d.nxt
      /\ c.fins = Bit(c.fin_received /\ c.client_to_network = << >>)
      /\ c.state \in Early => Reach(c) = 1 /\ ~c.fin_received
      /\ d.una <= Told(c)
  BY DEF Stream
<1>5. /\ f + n <= d.nxt + Bit(d.fin)
      /\ p.data # << >> => f + n <= d.nxt
      /\ "RST" \notin p.flags => "ACK" \in p.flags
      /\ "FIN" \in p.flags => d.fin /\ f + n = d.nxt
  BY DEF At
<1>6. CASE "RST" \in p.flags
  BY <1>6, StreamKeeps DEF Taken
<1>7. CASE "RST" \notin p.flags
  <2>1. /\ e.written = c.written /\ e.client_to_network = b
        /\ "FIN" \notin p.flags => e.fins = c.fins /\ e.fin_received = c.fin_received
        /\ "FIN" \in p.flags => /\ e.fin_received
                                /\ e.fins = IF b = << >> THEN c.fins + 1 ELSE c.fins
        /\ e.state \notin Early
    BY <1>5, <1>7 DEF Taken, Early
  <2>2. CASE c.fin_received
    <3>1. Bit(d.fin) = 1 /\ Reach(c) = d.nxt /\ c.fins = (IF m = 0 THEN 1 ELSE 0)
      BY <1>1, <1>4, <2>2 DEF Bit
    <3>2. n = 0 /\ (m = 0 => "FIN" \notin p.flags)
      <4> DEFINE x == d.nxt
      <4>1. /\ l \in Nat /\ m \in Nat /\ n \in Nat /\ x \in Nat /\ 1 + l + m = x
            /\ f = (1 + l + (IF m = 0 THEN 1 ELSE 0)) + m
            /\ f + n <= x + 1 /\ (n # 0 => f + n <= x) /\ ("FIN" \in p.flags => f + n = x)
        BY <1>1, <1>2, <1>3, <1>5, <3>1
      <4> HIDE DEF l, m, n, x
      <4> QED BY <4>1
    <3>3. b = c.client_to_network
      <4>1. c.client_to_network \o p.data = c.client_to_network
        <5>1. p.data = << >> /\ c.client_to_network \in Seq(Nat)
          BY <1>1, <1>2, <3>2
        <5> QED BY <5>1
      <4> QED BY <4>1 DEF Buffered
    <3>4. SameStream(c, e)
      BY <1>1, <2>1, <2>2, <3>2, <3>3 DEF SameStream
    <3> QED BY <2>1, <3>4, StreamKeeps
  <2>3. CASE ~c.fin_received /\ c.state = "SynReceived" /\ "FIN" \notin p.flags
    <3>1. SameStream(c, e)
      BY <2>1, <2>3 DEF SameStream, Buffered
    <3> QED BY <2>1, <3>1, StreamKeeps
  <2>4. CASE ~c.fin_received /\ (c.state = "SynReceived" => "FIN" \in p.flags)
    <3>1. c.fins = 0 /\ f = Reach(c) /\ f = 1 + l + m
      <4>1. c.fins = 0
        BY <1>4, <2>4 DEF Bit
      <4> HIDE DEF l, m
      <4> QED BY <1>1, <1>3, <4>1 DEF m
    <3>2. b \in Seq(Nat) /\ Len(b) = m + n /\ \A i \in 1 .. Len(b) : b[i] = l + i
      <4>1. CASE c.state = "SynReceived"
        <5>1. n = 0 /\ b = c.client_to_network
          BY <1>2, <2>4, <4>1 DEF Opens, Buffered
        <5> QED BY <1>1, <5>1 DEF Stream
      <4>2. CASE c.state # "SynReceived"
        BY <2>4, <4>2, BufferedSeq
      <4> QED BY <4>1, <4>2
    <3> HIDE DEF b
    <3>3. /\ Reach(e) = 1 + l + Len(b) /\ Told(e) = 1 + l + e.fins
          /\ Top(e) = Reach(e) + Bit(e.fin_received) /\ e.fins \in {0, 1}
      BY <2>1, <3>1 DEF Reach, Told, Top
    <3>4. Reach(e) = f + n /\ d.una <= Told(e)
      <4> DEFINE k == Len(b)
                 u == d.una
      <4>1. /\ l \in Nat /\ m \in Nat /\ n \in Nat /\ u \in Nat /\ k = m + n /\ f = 1 + l + m
            /\ Reach(e) = 1 + l + k /\ u <= 1 + l + 0 /\ Told(e) = 1 + l + e.fins
            /\ e.fins \in {0, 1}
        BY <1>1, <1>2, <1>3, <1>4, <3>1, <3>2, <3>3
      <4> HIDE DEF l, m, n, k, u
      <4>2. Reach(e) = f + n /\ u <= Told(e)
        BY <4>1
      <4> QED BY <4>2 DEF u, n
    <3>5. e.fins = Bit(e.fin_received /\ e.client_to_network = << >>)
      BY <2>1, <2>4, <3>1 DEF Bit
    <3>6. Top(e) = EndOf(p, f)
      BY <1>3, <2>1, <2>4, <3>3, <3>4 DEF Bit
    <3>7. Reach(e) <= d.nxt /\ (e.fin_received => d.fin /\ Reach(e) = d.nxt)
      <4> HIDE DEF l, m, n
      <4>1. CASE "FIN" \in p.flags
        BY <1>1, <1>5, <3>4, <4>1
      <4>2. CASE "FIN" \notin p.flags
        <5>1. ~e.fin_received
          BY <2>1, <2>4, <4>2
        <5> QED BY <1>1, <1>2, <1>4, <1>5, <3>1, <3>4, <5>1
      <4> QED BY <4>1, <4>2
    <3>8. Stream(e, d)
      BY <2>1, <3>2, <3>4, <3>5, <3>7 DEF Stream
    <3> QED BY <3>6, <3>8
  <2> QED BY <2>2, <2>3, <2>4
<1> QED BY <1>6, <1>7

-----------------------------------------------------------------------------
(***************************************************************************)
(* The packets in flight.  Each stands at a position f[i] that is at most  *)
(* a window behind what the relay took, now and once the packets ahead of  *)
(* it are handled.                                                         *)
(***************************************************************************)
Flight(q, f, c, d) ==
  \A i \in 1 .. Len(q) : "SYN" \notin q[i].flags =>
    /\ At(q[i], f[i], d) /\ Top(c) <= f[i] + MaxWindow + 1
    /\ \A j \in 1 .. Len(q) :
         j < i /\ "SYN" \notin q[j].flags => EndOf(q[j], f[j]) <= f[i] + MaxWindow + 1

Flying(q, c, d) == \E f \in [1 .. Len(q) -> Nat] : Flight(q, f, c, d)

\* Flying depends on the top of the connection, and on what the device sent.
LEMMA FlyingFrame ==
  ASSUME NEW q, NEW c, NEW e, NEW d, NEW g, Flying(q, c, d), Top(e) = Top(c),
         g.nxt = d.nxt, g.fin = d.fin
  PROVE  Flying(q, e, g)
<1>1. PICK f \in [1 .. Len(q) -> Nat] : Flight(q, f, c, d)
  BY DEF Flying
<1>2. \A p, x : At(p, x, d) => At(p, x, g)
  BY DEF At
<1>3. Flight(q, f, e, g)
  BY <1>1, <1>2 DEF Flight
<1> QED BY <1>3 DEF Flying

\* A packet ends where the device's stream does, at the latest.
LEMMA EndBound ==
  ASSUME NEW d \in Device, NEW p \in DevicePacket, NEW f \in Nat, At(p, f, d)
  PROVE  /\ EndOf(p, f) <= d.nxt + 1 /\ f <= d.nxt + 1 /\ EndOf(p, f) \in Nat
<1> DEFINE n == Len(p.data)
           x == d.nxt
<1>1. n \in Nat /\ x \in Nat
  BY DEF DevicePacket, Device
<1>2. /\ f + n <= x + Bit(d.fin) /\ ("FIN" \in p.flags => f + n = x) /\ Bit(d.fin) \in {0, 1}
      /\ EndOf(p, f) = f + n + Bit("FIN" \in p.flags)
  BY DEF At, Bit, EndOf
<1>3. Bit("FIN" \in p.flags) = IF "FIN" \in p.flags THEN 1 ELSE 0
  BY DEF Bit
<1> HIDE DEF n, x
<1>4. EndOf(p, f) <= x + 1 /\ f <= x + 1 /\ EndOf(p, f) \in Nat
  BY <1>1, <1>2, <1>3
<1> QED BY <1>4 DEF x

\* The device emits a packet: g is the device after it.
LEMMA FlyingEmit ==
  ASSUME NEW q \in Seq(DevicePacket), NEW c, Steady(c), NEW d \in Device, NEW g \in Device,
         Sender(d), Sender(g), Stream(c, d), Flying(q, c, d), g.una = d.una, d.nxt <= g.nxt,
         d.fin => g.fin /\ g.nxt = d.nxt,
         NEW p \in DevicePacket, NEW x \in Nat, "SYN" \notin p.flags => At(p, x, g) /\ g.una <= x
  PROVE  Flying(Append(q, p), c, g)
<1> DEFINE n == Len(q)
           r == Append(q, p)
<1>1. PICK f \in [1 .. n -> Nat] : Flight(q, f, c, d)
  BY DEF Flying
<1> DEFINE h == [i \in 1 .. n + 1 |-> IF i <= n THEN f[i] ELSE x]
<1>2. /\ Len(r) = n + 1 /\ n \in Nat
      /\ \A i \in 1 .. n : r[i] = q[i] /\ q[i] \in DevicePacket
      /\ r[n + 1] = p
      /\ \A i \in 1 .. n + 1 : i \in 1 .. n \/ i = n + 1
  BY AppendedPackets
<1>3. h \in [1 .. n + 1 -> Nat]
  OBVIOUS
<1>4. /\ \A i \in 1 .. n : h[i] = f[i] /\ f[i] \in Nat
      /\ h[n + 1] = x
  <2>1. \A i \in 1 .. n + 1 : h[i] = IF i <= n THEN f[i] ELSE x
    OBVIOUS
  <2> HIDE DEF h, n
  <2>2. /\ \A i \in 1 .. n : i \in 1 .. n + 1 /\ i <= n
        /\ n + 1 \in 1 .. n + 1 /\ ~(n + 1 <= n)
    BY <1>2
  <2>3. \A i \in 1 .. n : f[i] \in Nat
    BY <1>1 DEF n
  <2> QED BY <2>1, <2>2, <2>3
<1> HIDE DEF h, r, n
<1>5. /\ d.nxt \in Nat /\ g.nxt \in Nat /\ g.una \in Nat /\ Top(c) \in Nat
      /\ d.fin \in BOOLEAN /\ g.fin \in BOOLEAN
  BY StreamTypes
<1>6. ASSUME NEW y, NEW z \in Nat, y \in DevicePacket, At(y, z, d)
      PROVE  At(y, z, g)
  <2> DEFINE m == z + Len(y.data)
  <2>1. m \in Nat
    BY <1>6 DEF DevicePacket
  <2>2. /\ m <= d.nxt + Bit(d.fin) /\ (y.data # << >> => m <= d.nxt)
        /\ ("FIN" \in y.flags => d.fin /\ m = d.nxt)
    BY <1>6 DEF At
  <2> HIDE DEF m
  <2>3. /\ m <= g.nxt + Bit(g.fin) /\ (y.data # << >> => m <= g.nxt)
        /\ ("FIN" \in y.flags => g.fin /\ m = g.nxt)
    BY <1>5, <2>1, <2>2 DEF Bit
  <2> QED BY <1>6, <2>3 DEF At, m
<1>7. g.nxt + 1 <= g.una + MaxWindow + 1 /\ d.nxt + 1 <= g.nxt + 1
  BY <1>5, ConstantFacts DEF Sender
<1>8. Top(c) <= d.nxt + 1
  BY <1>5, ToldBound DEF Bit
<1>9. \A i \in 1 .. n : "SYN" \notin q[i].flags =>
         /\ At(q[i], f[i], d) /\ Top(c) <= f[i] + MaxWindow + 1
         /\ \A j \in 1 .. n :
              j < i /\ "SYN" \notin q[j].flags => EndOf(q[j], f[j]) <= f[i] + MaxWindow + 1
  BY <1>1 DEF Flight, n
<1>10. ASSUME NEW i \in 1 .. n + 1, "SYN" \notin r[i].flags
       PROVE  /\ At(r[i], h[i], g) /\ Top(c) <= h[i] + MaxWindow + 1
              /\ \A j \in 1 .. n + 1 :
                   j < i /\ "SYN" \notin r[j].flags => EndOf(r[j], h[j]) <= h[i] + MaxWindow + 1
  <2>1. CASE i \in 1 .. n
    <3>1. \A j \in 1 .. n + 1 : j < i => j \in 1 .. n
      BY <1>2, <2>1
    <3> QED BY <1>2, <1>4, <1>6, <1>9, <1>10, <2>1, <3>1
  <2>2. CASE i = n + 1
    <3>1. At(p, x, g) /\ g.una <= x /\ r[i] = p /\ h[i] = x
      BY <1>2, <1>4, <1>10, <2>2
    <3>2. \A k \in Nat : k <= d.nxt + 1 => k <= x + MaxWindow + 1
      BY <1>5, <1>7, <3>1, ConstantFacts
    <3>3. ASSUME NEW j \in 1 .. n + 1, j < i, "SYN" \notin r[j].flags
          PROVE  EndOf(r[j], h[j]) <= h[i] + MaxWindow + 1
      <4>1. j \in 1 .. n
        BY <1>2, <2>2, <3>3
      <4>2. At(q[j], f[j], d) /\ q[j] \in DevicePacket /\ f[j] \in Nat /\ r[j] = q[j] /\ h[j] = f[j]
        BY <1>2, <1>4, <1>9, <3>3, <4>1
      <4>3. EndOf(q[j], f[j]) <= d.nxt + 1 /\ EndOf(q[j], f[j]) \in Nat
        BY <4>2, EndBound
      <4> QED BY <3>1, <3>2, <4>2, <4>3
    <3> QED BY <1>5, <1>8, <3>1, <3>2, <3>3
  <2> QED BY <1>2, <2>1, <2>2
<1>11. Flight(r, h, c, g)
  BY <1>2, <1>10 DEF Flight
<1> QED BY <1>2, <1>3, <1>11 DEF Flying, r

\* The relay handled the first packet: it took nothing, or what that packet carries.
LEMMA FlyingTail ==
  ASSUME NEW q \in Seq(DevicePacket), q # << >>, NEW c, NEW e, NEW d,
         NEW f \in [1 .. Len(q) -> Nat], Flight(q, f, c, d),
         Top(e) = Top(c) \/ ("SYN" \notin q[1].flags /\ Top(e) = EndOf(q[1], f[1]))
  PROVE  Flying(Tail(q), e, d)
<1> DEFINE n == Len(q)
           r == Tail(q)
           h == [i \in 1 .. n - 1 |-> f[i + 1]]
<1>1. /\ Len(r) = n - 1 /\ n \in Nat \ {0} /\ 1 \in 1 .. n
      /\ \A i \in 1 .. n - 1 : r[i] = q[i + 1] /\ i + 1 \in 1 .. n
  BY RemainingPackets
<1>2. h \in [1 .. n - 1 -> Nat] /\ \A i \in 1 .. n - 1 : h[i] = f[i + 1]
  BY <1>1
<1>3. \A i \in 1 .. n : "SYN" \notin q[i].flags =>
        /\ At(q[i], f[i], d) /\ Top(c) <= f[i] + MaxWindow + 1
        /\ \A j \in 1 .. n :
             j < i /\ "SYN" \notin q[j].flags => EndOf(q[j], f[j]) <= f[i] + MaxWindow + 1
  BY DEF Flight
<1> HIDE DEF h, r, n
<1>4. ASSUME NEW i \in 1 .. n - 1, "SYN" \notin r[i].flags
      PROVE  /\ At(r[i], h[i], d) /\ Top(e) <= h[i] + MaxWindow + 1
             /\ \A j \in 1 .. n - 1 :
                  j < i /\ "SYN" \notin r[j].flags => EndOf(r[j], h[j]) <= h[i] + MaxWindow + 1
  <2>1. /\ r[i] = q[i + 1] /\ h[i] = f[i + 1] /\ i + 1 \in 1 .. n /\ 1 < i + 1
        /\ 1 \in 1 .. n
    BY <1>1, <1>2
  <2>2. At(r[i], h[i], d) /\ Top(e) <= h[i] + MaxWindow + 1
    BY <1>3, <1>4, <2>1
  <2>3. ASSUME NEW j \in 1 .. n - 1, j < i, "SYN" \notin r[j].flags
        PROVE  EndOf(r[j], h[j]) <= h[i] + MaxWindow + 1
    <3>1. r[j] = q[j + 1] /\ h[j] = f[j + 1] /\ j + 1 \in 1 .. n /\ j + 1 < i + 1
      BY <1>1, <1>2, <2>3
    <3> QED BY <1>3, <1>4, <2>1, <2>3, <3>1
  <2> QED BY <2>2, <2>3
<1>5. Flight(r, h, e, d)
  BY <1>1, <1>4 DEF Flight
<1> QED BY <1>1, <1>2, <1>5 DEF Flying, r

\* A packet accepted stands where the relay is: its sequence number is the
\* one expected, and it is less than a turn away.
LEMMA AcceptedIsNext ==
  ASSUME NEW c, Steady(c), c.state # "Init", c.syn_sequence_number = DeviceIsn,
         NEW d \in Device, Sender(d), Stream(c, d), NEW p \in DevicePacket, NEW f \in Nat,
         At(p, f, d), Top(c) <= f + MaxWindow + 1, p.seq = expected_packet(c)
  PROVE  f = Told(c) + Len(c.client_to_network)
<1> DEFINE t == Told(c)
           l == Len(c.client_to_network)
           m == t + l
           x == Top(c)
<1>1. t \in Nat /\ l \in Nat /\ x \in Nat /\ d.una \in Nat /\ d.nxt \in Nat
  BY StreamTypes
<1>2. t + l <= x
  BY ToldBound
<1>3. d.una <= t /\ d.nxt <= d.una + MaxWindow
  BY DEF Stream, Sender
<1>4. f <= d.nxt + 1
  BY EndBound
<1>5. DeviceSeq(f) = DeviceSeq(m)
  BY ExpectedSeq DEF At
<1>6. x <= f + MaxWindow + 1
  OBVIOUS
<1> HIDE DEF t, l, x
<1>7. m \in Int /\ f \in Int /\ f - m < SeqSpace /\ m - f < SeqSpace
  BY <1>1, <1>2, <1>3, <1>4, <1>6, TunnelFacts, ConstantFacts
<1> HIDE DEF m
<1>8. f = m
  BY <1>5, <1>7, DeviceSeqUnique
<1> QED BY <1>8 DEF m, t, l

-----------------------------------------------------------------------------
(***************************************************************************)
(* The invariant of the stream.  Until the handshake is over, the first    *)
(* packet that is not a SYN is the one that completes it.                  *)
(***************************************************************************)
Handshake ==
  conn.state = "SynReceived" /\ ~conn.closed =>
    /\ \A i \in 1 .. Len(from_device) :
         /\ "SYN" \notin from_device[i].flags
         /\ \A j \in 1 .. Len(from_device) : j < i => "SYN" \in from_device[j].flags
         => Opens(from_device[i])
    /\ AllSyn => device.phase # "open"

Order == /\ Link /\ Sender(device) /\ Stream(conn, device) /\ Chan(conn, device.una)
         /\ Flying(from_device, conn, device) /\ Handshake

\* The device sends more: what the relay took is still the device's.
LEMMA StreamDevice ==
  ASSUME NEW c, Steady(c), NEW d \in Device, NEW g \in Device, Stream(c, d),
         g.una = d.una, d.nxt <= g.nxt, d.fin => g.fin /\ g.nxt = d.nxt
  PROVE  Stream(c, g)
<1>1. Reach(c) \in Nat /\ d.nxt \in Nat /\ g.nxt \in Nat
  BY StreamTypes
<1>2. Reach(c) <= g.nxt
  BY <1>1 DEF Stream
<1> QED BY <1>2 DEF Stream

\* The initial states.
LEMMA InitOrder == Init => Order
<1> SUFFICES ASSUME Init PROVE Order
  OBVIOUS
<1>1. Link
  BY InitLink
<1>2. /\ device.una = 1 /\ device.nxt = 1 /\ device.fin = FALSE /\ from_device = << >>
  BY DEF Init
<1>3. /\ conn.state = "Init" /\ conn.written = << >> /\ conn.client_to_network = << >>
      /\ conn.fins = 0 /\ conn.fin_received = FALSE /\ conn.packet_for_client_length = 0
  BY DEF Init, ConnInit, create
<1>4. Sender(device)
  BY <1>2, ConstantFacts DEF Sender, Bit
<1>5. Reach(conn) = 1 /\ Told(conn) = 1
  BY <1>3 DEF Reach, Told
<1>6. Stream(conn, device)
  <2>1. Len(conn.written) = 0 /\ Len(conn.client_to_network) = 0
    BY <1>3
  <2> QED BY <1>2, <1>3, <1>5, <2>1 DEF Stream, Bit, Early
<1>7. Chan(conn, device.una)
  BY <1>1, <1>2, <1>3 DEF Link, Chan
<1>8. Len(from_device) = 0
  BY <1>2
<1>9. Flying(from_device, conn, device)
  <2>1. [i \in 1 .. Len(from_device) |-> 0] \in [1 .. Len(from_device) -> Nat]
    OBVIOUS
  <2>2. Flight(from_device, [i \in 1 .. Len(from_device) |-> 0], conn, device)
    BY <1>8 DEF Flight
  <2> QED BY <2>1, <2>2 DEF Flying
<1>10. Handshake
  BY <1>3 DEF Handshake
<1> QED BY <1>1, <1>4, <1>6, <1>7, <1>9, <1>10 DEF Order

\* The device emits a packet.
LEMMA EmitOrder ==
  ASSUME Order, Link', NEW flags \in SUBSET Flags, NEW from \in Nat, NEW data \in Seq(Nat),
         Emit(flags, from, data), Sender(device'), device'.una = device.una,
         device.nxt <= device'.nxt, device.fin => device'.fin /\ device'.nxt = device.nxt,
         "SYN" \in flags => device'.phase # "open",
         "SYN" \notin flags =>
            /\ At(Segment(flags, from, data), from, device') /\ device.una <= from
            /\ device.phase = "open" \/ Opens(Segment(flags, from, data))
  PROVE  Order'
<1> DEFINE p == Segment(flags, from, data)
           n == Len(from_device)
<1>1. /\ p \in DevicePacket /\ from_device' = Append(from_device, p) /\ p.flags = flags
      /\ conn' = conn
  <2>1. /\ device \in Device /\ device.edge <= device.rcv + MaxWindow
        /\ from_device \in Seq(DevicePacket)
    BY DEF Order, Link, TypeOK
  <2>2. LET s == Segment(flags, from, data)
        IN /\ Running /\ ~conn.closed
           /\ s \in DevicePacket /\ from_device' = Append(from_device, s)
           /\ s.seq = DeviceSeq(from) /\ s.flags = flags /\ s.data = data
           /\ from_device' \in Seq(DevicePacket)
           /\ conn' = conn /\ ready' = ready /\ client_ran' = client_ran /\ server' = server
    BY <2>1, EmitType
  <2> QED BY <2>2
<1>2. "SYN" \notin flags => At(p, from, device') /\ device.una <= from /\ (device.phase = "open" \/ Opens(p))
  OBVIOUS
<1> HIDE DEF p
<1>3. device \in Device /\ device' \in Device /\ Steady(conn) /\ from_device \in Seq(DevicePacket)
  BY DEF Order, Link, TypeOK, IInv, Safe
<1>4. /\ Len(from_device') = n + 1 /\ n \in Nat
      /\ \A i \in 1 .. n : from_device'[i] = from_device[i]
      /\ from_device'[n + 1] = p
      /\ \A i \in 1 .. n + 1 : i \in 1 .. n \/ i = n + 1
  BY <1>1, <1>3, AppendedPackets
<1>5. Stream(conn', device')
  BY <1>1, <1>3, StreamDevice DEF Order
<1>6. Flying(from_device', conn', device')
  <2>1. Sender(device) /\ Stream(conn, device) /\ Flying(from_device, conn, device)
    BY DEF Order
  <2> QED BY <1>1, <1>2, <1>3, <2>1, FlyingEmit
<1>7. Chan(conn', device'.una)
  BY <1>1 DEF Order
<1>8. Handshake'
  <2> SUFFICES ASSUME conn'.state = "SynReceived", ~conn'.closed PROVE Handshake'
    BY DEF Handshake
  <2>1. /\ \A i \in 1 .. n :
             /\ "SYN" \notin from_device[i].flags
             /\ \A j \in 1 .. n : j < i => "SYN" \in from_device[j].flags
             => Opens(from_device[i])
        /\ AllSyn => device.phase # "open"
    BY <1>1 DEF Order, Handshake
  <2> HIDE DEF n
  <2>2. ASSUME NEW i \in 1 .. n + 1, "SYN" \notin (from_device'[i]).flags,
               \A j \in 1 .. n + 1 : j < i => "SYN" \in (from_device'[j]).flags
        PROVE  Opens(from_device'[i])
    <3>1. CASE i \in 1 .. n
      <4>1. \A j \in 1 .. n : j \in 1 .. n + 1
        BY <1>4
      <4> QED BY <1>4, <2>1, <2>2, <3>1, <4>1
    <3>2. CASE i = n + 1
      <4>1. \A j \in 1 .. n : j \in 1 .. n + 1 /\ j < i
        BY <1>4, <3>2
      <4>2. AllSyn
        BY <1>4, <2>2, <4>1 DEF AllSyn, n
      <4>3. Opens(p)
        BY <1>1, <1>2, <1>4, <2>1, <2>2, <3>2, <4>2
      <4> QED BY <1>4, <3>2, <4>3
    <3> QED BY <1>4, <3>1, <3>2
  <2>3. AllSyn' => device'.phase # "open"
    <3>1. n + 1 \in 1 .. n + 1
      BY <1>4
    <3> QED BY <1>1, <1>4, <3>1 DEF AllSyn
  <2>4. \A i \in 1 .. n + 1 :
           /\ "SYN" \notin (from_device'[i]).flags
           /\ \A j \in 1 .. n + 1 : j < i => "SYN" \in (from_device'[j]).flags
           => Opens(from_device'[i])
    BY <2>2
  <2> QED BY <1>4, <2>3, <2>4 DEF Handshake
<1> QED BY <1>5, <1>6, <1>7, <1>8 DEF Order

\* What the device emits is a part of its stream.
LEMMA SegmentAt ==
  ASSUME NEW flags, NEW from \in Nat, NEW to \in Nat, from <= to, NEW g,
         to <= g.nxt + Bit(g.fin), from < to => to <= g.nxt,
         "RST" \notin flags => "ACK" \in flags, "FIN" \in flags => g.fin /\ to = g.nxt
  PROVE  At(Segment(flags, from, Bytes(from, to)), from, g)
<1> DEFINE s == Segment(flags, from, Bytes(from, to))
<1>1. s.seq = DeviceSeq(from) /\ s.flags = flags /\ s.data = Bytes(from, to)
  BY DEF Segment
<1> HIDE DEF s
<1>2. Bytes(from, to) \in Seq(Nat) /\ Len(Bytes(from, to)) = to - from
  BY BytesType
<1>3. Len(s.data) = to - from /\ from + Len(s.data) = to /\ (s.data # << >> => from < to)
  BY <1>1, <1>2, EmptySeq
<1> QED BY <1>1, <1>3 DEF At, s

\* No bytes at all.
LEMMA NoBytes ==
  ASSUME NEW from \in Nat
  PROVE  Bytes(from, from) = << >>
<1>1. Bytes(from, from) \in Seq(Nat) /\ Len(Bytes(from, from)) = 0
  BY BytesType
<1> QED BY <1>1, EmptySeq

\* Whatever the device does.
LEMMA DeviceOrder ==
  ASSUME HandshakeFin = FALSE, Order, DeviceNext
  PROVE  Order'
<1>0. /\ device \in Device /\ device.nxt \in Nat /\ device.una \in Nat /\ device.fin \in BOOLEAN
      /\ device.rcv \in Nat
      /\ MaxWindow \in Nat /\ << >> \in Seq(Nat) /\ DeviceBytes \in Nat
  BY TunnelFacts, ConstantFacts DEF Order, Link, TypeOK, Device
<1>1. /\ 1 <= device.una /\ device.una <= device.nxt + Bit(device.fin)
      /\ device.nxt <= device.una + MaxWindow
      /\ device.phase \in {"closed", "syn", "handshake"} => device.nxt = 1 /\ ~device.fin
      /\ Bit(device.fin) = IF device.fin THEN 1 ELSE 0
  BY DEF Order, Sender, Bit
<1>2. Link'
  BY DeviceLink DEF Order
<1>3. CASE DeviceConnect
  <2>1. /\ device.phase = "closed" /\ Emit({"SYN"}, 0, << >>)
        /\ device' = [device EXCEPT !.phase = "syn"]
    BY <1>3 DEF DeviceConnect
  <2>2. /\ device'.phase = "syn" /\ device'.una = device.una /\ device'.nxt = device.nxt
        /\ device'.fin = device.fin
    BY <1>0, <2>1 DEF Device
  <2>3. Sender(device')
    BY <1>1, <2>1, <2>2 DEF Sender
  <2>4. {"SYN"} \in SUBSET Flags /\ device.nxt <= device'.nxt
    BY <1>0, <2>2 DEF Flags
  <2> QED BY <1>0, <1>2, <2>1, <2>2, <2>3, <2>4, EmitOrder
<1>4. CASE DeviceResendSyn
  <2>1. device.phase = "syn" /\ Emit({"SYN"}, 0, << >>) /\ device' = device
    BY <1>4 DEF DeviceResendSyn
  <2>2. {"SYN"} \in SUBSET Flags /\ device.nxt <= device'.nxt /\ Sender(device')
    BY <1>0, <2>1 DEF Flags, Order
  <2> QED BY <1>0, <1>2, <2>1, <2>2, EmitOrder
<1>5. CASE DeviceResend
  <2> DEFINE flags == {"ACK"} \cup FinFlag(device.fin)
             data == Bytes(device.una, device.nxt)
  <2>1. /\ device.phase = "open" /\ Emit(flags, device.una, data)
        /\ device.una <= device.nxt /\ device' = [device EXCEPT !.owes_ack = FALSE]
    BY <1>0, <1>5 DEF DeviceResend
  <2>2. /\ device'.phase = "open" /\ device'.una = device.una /\ device'.nxt = device.nxt
        /\ device'.fin = device.fin
    BY <1>0, <2>1 DEF Device
  <2>3. Sender(device') /\ device.nxt <= device'.nxt /\ device.una <= device.una
    BY <1>0, <1>1, <2>2 DEF Sender
  <2>4. /\ flags \in SUBSET Flags /\ "SYN" \notin flags /\ data \in Seq(Nat)
        /\ "ACK" \in flags /\ ("FIN" \in flags => device.fin)
    BY <1>0, <2>1, BytesType DEF Flags, FinFlag
  <2>5. At(Segment(flags, device.una, data), device.una, device')
    <3>1. /\ device.nxt <= device'.nxt + Bit(device'.fin) /\ device.nxt <= device'.nxt
          /\ ("FIN" \in flags => device'.fin /\ device.nxt = device'.nxt)
      BY <1>0, <1>1, <2>2, <2>4
    <3> HIDE DEF flags
    <3> QED BY <1>0, <2>1, <2>4, <3>1, SegmentAt
  <2> HIDE DEF flags, data
  <2> QED BY <1>0, <1>2, <2>1, <2>2, <2>3, <2>4, <2>5, EmitOrder
<1>6. CASE DeviceAck
  <2> DEFINE from == device.nxt + (IF device.fin THEN 1 ELSE 0)
  <2>1. /\ device.phase \in {"handshake", "open"} /\ Emit({"ACK"}, from, << >>)
        /\ device' = [device EXCEPT !.owes_ack = FALSE, !.phase = "open"]
    BY <1>6 DEF DeviceAck, HasPeer
  <2>2. /\ device'.phase = "open" /\ device'.una = device.una /\ device'.nxt = device.nxt
        /\ device'.fin = device.fin
    BY <1>0, <2>1 DEF Device
  <2>3. Sender(device') /\ device.nxt <= device'.nxt
    BY <1>0, <1>1, <2>2 DEF Sender
  <2>4. /\ {"ACK"} \in SUBSET Flags /\ "SYN" \notin {"ACK"} /\ from \in Nat /\ device.una <= from
        /\ from <= device'.nxt + Bit(device'.fin) /\ from <= from /\ ~(from < from)
    BY <1>0, <1>1, <2>2 DEF Flags
  <2>5. device.phase = "open" \/ from = 1
    BY <1>1, <2>1
  <2> HIDE DEF from
  <2>6. << >> = Bytes(from, from)
    BY <2>4, NoBytes
  <2>7. At(Segment({"ACK"}, from, << >>), from, device')
    <3>1. At(Segment({"ACK"}, from, Bytes(from, from)), from, device')
      BY <2>4, SegmentAt
    <3> QED BY <2>6, <3>1
  <2>8. device.phase = "open" \/ Opens(Segment({"ACK"}, from, << >>))
    BY <2>5 DEF Opens, Segment
  <2> QED BY <1>0, <1>2, <2>1, <2>2, <2>3, <2>4, <2>7, <2>8, EmitOrder
<1>7. CASE DeviceRead
  <2>1. /\ device' = [device EXCEPT !.edge = device.rcv + MaxWindow, !.owes_ack = TRUE]
        /\ conn' = conn /\ from_device' = from_device /\ device.phase = "open"
    BY <1>7 DEF DeviceRead
  <2>2. /\ device'.phase = "open" /\ device'.una = device.una /\ device'.nxt = device.nxt
        /\ device'.fin = device.fin
    BY <1>0, <2>1 DEF Device
  <2>3. Sender(device') /\ Stream(conn', device') /\ Chan(conn', device'.una)
    BY <2>1, <2>2 DEF Order, Sender, Stream
  <2>4. Flying(from_device', conn', device')
    <3>1. Flying(from_device, conn, device) /\ Top(conn) = Top(conn)
      BY DEF Order
    <3>2. Flying(from_device, conn, device')
      BY <2>2, <3>1, FlyingFrame
    <3> QED BY <2>1, <3>2
  <2>5. Handshake'
    BY <2>1, <2>2 DEF Order, Handshake, AllSyn
  <2> QED BY <1>2, <2>3, <2>4, <2>5 DEF Order
<1>8. CASE DeviceReset
  <2> DEFINE from == device.nxt + (IF device.fin THEN 1 ELSE 0)
  <2>1. /\ device.phase = "open" /\ Emit({"RST"}, from, << >>)
        /\ device' = [device EXCEPT !.phase = "reset"]
    BY <1>8 DEF DeviceReset
  <2>2. /\ device'.phase = "reset" /\ device'.una = device.una /\ device'.nxt = device.nxt
        /\ device'.fin = device.fin
    BY <1>0, <2>1 DEF Device
  <2>3. Sender(device') /\ device.nxt <= device'.nxt
    BY <1>0, <1>1, <2>2 DEF Sender
  <2>4. /\ {"RST"} \in SUBSET Flags /\ "SYN" \notin {"RST"} /\ from \in Nat /\ device.una <= from
        /\ from <= device'.nxt + Bit(device'.fin) /\ from <= from /\ ~(from < from)
    BY <1>0, <1>1, <2>2 DEF Flags
  <2> HIDE DEF from
  <2>5. << >> = Bytes(from, from)
    BY <2>4, NoBytes
  <2>6. At(Segment({"RST"}, from, << >>), from, device')
    <3>1. At(Segment({"RST"}, from, Bytes(from, from)), from, device')
      BY <2>4, SegmentAt
    <3> QED BY <2>5, <3>1
  <2> QED BY <1>0, <1>2, <2>1, <2>2, <2>3, <2>4, <2>6, EmitOrder
<1>9. ASSUME NEW n \in 0 .. DeviceBytes, NEW fin \in BOOLEAN, DeviceSend(n, fin)
      PROVE  Order'
  <2> DEFINE flags == {"ACK"} \cup FinFlag(fin)
             to == device.nxt + n
             data == Bytes(device.nxt, to)
  <2>1. /\ device.phase \in {"handshake", "open"} /\ Emit(flags, device.nxt, data)
        /\ device' = [device EXCEPT !.nxt = @ + n, !.fin = fin, !.owes_ack = FALSE, !.phase = "open"]
    BY <1>9 DEF DeviceSend, HasPeer
  <2>2. to - device.una <= MaxWindow
    <3>1. device.nxt + n - device.una <= MaxWindow
      BY <1>9 DEF DeviceSend
    <3> QED BY <1>0, <3>1
  <2>3. ~device.fin
    BY <1>9, Zenon DEF DeviceSend
  <2>4. device.phase = "handshake" => ~(n > 0 /\ fin)
    <3>1. device.phase = "handshake" /\ n > 0 /\ fin => HandshakeFin
      BY <1>9 DEF DeviceSend
    <3> QED BY <3>1, Zenon
  <2>5. n \in Nat /\ to \in Nat /\ device.nxt <= to /\ device.una <= device.nxt
    BY <1>0, <1>1, <2>3
  <2>6. /\ device'.phase = "open" /\ device'.una = device.una /\ device'.nxt = to
        /\ device'.fin = fin
    BY <1>0, <2>1 DEF Device
  <2>7. /\ flags \in SUBSET Flags /\ "SYN" \notin flags /\ data \in Seq(Nat)
        /\ "ACK" \in flags /\ "RST" \notin flags /\ ("FIN" \in flags => fin)
        /\ Len(data) = to - device.nxt
    BY <1>0, <2>5, BytesType DEF Flags, FinFlag
  <2>8. to <= to + Bit(fin) /\ to <= to /\ Bit(fin) \in {0, 1}
    BY <2>5 DEF Bit
  <2>9. At(Segment(flags, device.nxt, data), device.nxt, device')
    BY <1>0, <2>5, <2>6, <2>7, <2>8, SegmentAt
  <2>10. device.phase = "open" \/ Opens(Segment(flags, device.nxt, data))
    <3> SUFFICES ASSUME device.phase = "handshake" PROVE Opens(Segment(flags, device.nxt, data))
      BY <2>1
    <3>1. device.nxt = 1
      BY <1>1
    <3>2. "FIN" \in flags => data = << >>
      <4> SUFFICES ASSUME "FIN" \in flags PROVE data = << >>
        OBVIOUS
      <4>1. ~(n > 0)
        BY <2>4, <2>7, Zenon
      <4>2. to = device.nxt
        BY <1>0, <2>5, <4>1
      <4> QED BY <1>0, <4>2, NoBytes
    <3> HIDE DEF flags, data
    <3> QED BY <2>7, <3>1, <3>2 DEF Opens, Segment
  <2> HIDE DEF flags, data, to
  <2>11. Sender(device')
    BY <1>0, <1>1, <2>2, <2>5, <2>6, <2>8 DEF Sender
  <2> QED BY <1>0, <1>2, <2>1, <2>3, <2>5, <2>6, <2>7, <2>9, <2>10, <2>11, EmitOrder
<1> QED BY <1>3, <1>4, <1>5, <1>6, <1>7, <1>8, <1>9 DEF DeviceNext

\* The device receives a packet that acknowledges position hi: that is what it
\* takes as acknowledged, for no other position it may still wait for looks the same.
LEMMA ReceivedOrder ==
  ASSUME NEW c, Steady(c), NEW d \in Device, d.edge <= d.rcv + MaxWindow, Sender(d), Stream(c, d),
         NEW p \in ClientPacket, Headers <= p.total_length,
         NEW hi \in Nat, p.ack = DeviceSeq(hi), d.una <= hi, hi <= Told(c)
  PROVE  LET e == Received(d, p)
         IN /\ Sender(e) /\ Stream(c, e) /\ e.una \in Nat /\ e.una <= hi
            /\ e.nxt = d.nxt /\ e.fin = d.fin /\ (e.phase = "open" => d.phase = "open")
<1> DEFINE e == Received(d, p)
           top == d.nxt + Bit(d.fin)
           t == Told(c)
<1>1. /\ e \in Device /\ e.nxt = d.nxt /\ e.fin = d.fin
      /\ e.phase \in {d.phase, "reset"} \/ (d.phase = "syn" /\ e.phase = "handshake")
      /\ e.una = d.una \/ (e.una \in d.una .. top /\ DeviceSeq(e.una) = p.ack)
  <2>1. LET x == Received(d, p)
        IN /\ x \in Device /\ x.edge <= x.rcv + MaxWindow
           /\ x.nxt = d.nxt /\ x.fin = d.fin
           /\ x.phase \in {d.phase, "reset"} \/ (d.phase = "syn" /\ x.phase = "handshake")
           /\ \/ x.una = d.una
              \/ x.una \in d.una .. d.nxt + Bit(d.fin) /\ DeviceSeq(x.una) = p.ack
    BY ReceivedType
  <2> QED BY <2>1
<1> HIDE DEF e
<1>2. /\ d.una \in Nat /\ d.nxt \in Nat /\ Bit(d.fin) \in {0, 1} /\ t \in Nat /\ e.una \in Nat
  BY <1>1, StreamTypes
<1>3. t <= top
  BY ToldBound
<1>4. /\ 1 <= d.una /\ d.una <= top /\ d.nxt <= d.una + MaxWindow
      /\ d.phase \in {"closed", "syn", "handshake"} => d.nxt = 1 /\ ~d.fin
      /\ d.una <= t /\ hi <= t
  BY DEF Sender, Stream
<1>5. e.una <= hi /\ d.una <= e.una
  <2>1. CASE e.una = d.una
    BY <1>2, <2>1
  <2>2. CASE e.una # d.una
    <3>1. e.una \in d.una .. top /\ DeviceSeq(e.una) = DeviceSeq(hi)
      BY <1>1, <2>2
    <3> HIDE DEF t
    <3>2. e.una \in Int /\ hi \in Int /\ e.una - hi < SeqSpace /\ hi - e.una < SeqSpace
      BY <1>2, <1>3, <1>4, <3>1, TunnelFacts, ConstantFacts
    <3>3. e.una = hi
      BY <3>1, <3>2, DeviceSeqUnique
    <3> QED BY <1>2, <3>3
  <2> QED BY <2>1, <2>2
<1>6. Sender(e)
  <2> HIDE DEF t
  <2>1. 1 <= e.una /\ e.una <= top /\ d.nxt <= e.una + MaxWindow
    BY <1>2, <1>3, <1>4, <1>5, ConstantFacts
  <2>2. e.phase \in {"closed", "syn", "handshake"} => d.nxt = 1 /\ ~d.fin
    BY <1>1, <1>4
  <2> QED BY <1>1, <2>1, <2>2 DEF Sender
<1>7. Stream(c, e)
  <2>1. e.una <= t
    BY <1>2, <1>4, <1>5
  <2> QED BY <1>1, <2>1 DEF Stream
<1> QED BY <1>1, <1>2, <1>5, <1>6, <1>7 DEF e

\* The parts of Order that depend on the connection, when the device is left alone.
LEMMA OrderFrame ==
  ASSUME Order, Link', Stream(conn', device), Top(conn') = Top(conn), Chan(conn', device.una),
         device' = device, from_device' = from_device,
         conn'.state = "SynReceived" /\ ~conn'.closed => conn.state = "SynReceived" /\ ~conn.closed
  PROVE  Order'
<1>1. Flying(from_device, conn', device)
  <2>1. Flying(from_device, conn, device)
    BY DEF Order
  <2> QED BY <2>1, FlyingFrame
<1>2. Handshake'
  BY DEF Order, Handshake, AllSyn
<1> QED BY <1>1, <1>2 DEF Order

\* The relay handles a packet of the device.
LEMMA PushOrder ==
  ASSUME Order, Link', PushPacket
  PROVE  Order'
<1> DEFINE p == from_device[1]
           n == Len(from_device)
<1>0. /\ IInv /\ Steady(conn) /\ Unanswered /\ device \in Device /\ device.una \in Nat
      /\ from_device \in Seq(DevicePacket) /\ Chan(conn, device.una)
      /\ Sender(device) /\ Stream(conn, device) /\ Handshake
  BY DEF Order, Link, TypeOK, IInv, Safe, Device
<1>1. PICK isn \in RelayIsns : push_packet(p, isn)
  BY <1>0, RemainingPackets DEF PushPacket
<1>2. /\ isn \in Seqno /\ p \in DevicePacket /\ n \in Nat \ {0} /\ 1 \in 1 .. n
      /\ from_device # << >> /\ from_device' = Tail(from_device) /\ device' = device
      /\ Len(from_device') = n - 1
      /\ \A i \in 1 .. n - 1 : from_device'[i] = from_device[i + 1] /\ i + 1 \in 1 .. n
  BY <1>0, RemainingPackets, TunnelFacts DEF PushPacket
<1>3. PICK f \in [1 .. n -> Nat] : Flight(from_device, f, conn, device)
  BY DEF Order, Flying
<1>4. f[1] \in Nat
  BY <1>2, <1>3
<1>5. "SYN" \notin p.flags => At(p, f[1], device) /\ Top(conn) <= f[1] + MaxWindow + 1
  BY <1>2, <1>3 DEF Flight
<1>6. /\ "SYN" \in p.flags => p.seq = DeviceSeq(0)
      /\ AllSyn => "SYN" \in p.flags
  BY <1>2 DEF Order, Link, SynSeq, AllSyn
<1>7. conn.state = "SynReceived" /\ ~conn.closed /\ "SYN" \notin p.flags => Opens(p)
  <2>1. \A j \in 1 .. n : ~(j < 1)
    BY <1>2
  <2> QED BY <1>0, <1>2, <2>1 DEF Handshake
<1> HIDE DEF p, n
<1>8. /\ Chan(conn', device.una) /\ Handled(conn, p, conn') /\ ~conn.closed
  <2>1. ~conn.closed
    BY <1>1 DEF push_packet
  <2> QED BY <1>0, <1>1, <1>2, <1>6, <2>1, PushChan DEF Unanswered
<1>9. conn.state # "Init" => conn.syn_sequence_number = DeviceIsn
  BY <1>0 DEF Chan
<1>10. conn.state = "SynSent" => "SYN" \in p.flags
  BY <1>0, <1>6, <1>8 DEF Unanswered
<1>11. ASSUME "SYN" \in p.flags \/ conn.state = "Init"
       PROVE  SameStream(conn, conn') /\ (conn'.state = conn.state \/ conn.state = "Init")
  BY <1>8, <1>11 DEF Handled
<1>12. ASSUME "SYN" \notin p.flags, conn.state # "Init", p.seq = expected_packet(conn)
       PROVE  /\ Stream(conn', device)
              /\ Top(conn') = Top(conn) \/ Top(conn') = EndOf(p, f[1])
              /\ conn.state = "SynReceived" => conn'.state # "SynReceived"
              /\ conn'.state = "SynReceived" => conn.state = "SynReceived"
  <2>1. Taken(conn, p, conn')
    BY <1>8, <1>12 DEF Handled
  <2>2. f[1] = Told(conn) + Len(conn.client_to_network)
    BY <1>0, <1>2, <1>4, <1>5, <1>9, <1>12, AcceptedIsNext
  <2>3. conn.state \notin {"Init", "SynSent"}
    BY <1>10, <1>12
  <2>4. conn.state = "SynReceived" => Opens(p)
    BY <1>7, <1>8, <1>12
  <2>5. Stream(conn', device) /\ (Top(conn') = Top(conn) \/ Top(conn') = EndOf(p, f[1]))
    <3> DEFINE x == f[1]
    <3>1. At(p, x, device) /\ x \in Nat /\ x = Told(conn) + Len(conn.client_to_network)
      BY <1>4, <1>5, <1>12, <2>2
    <3>2. Steady(conn) /\ device \in Device /\ Sender(device) /\ Stream(conn, device) /\ p \in DevicePacket
      BY <1>0, <1>2
    <3> HIDE DEF x
    <3>3. Stream(conn', device) /\ (Top(conn') = Top(conn) \/ Top(conn') = EndOf(p, x))
      BY <2>1, <2>3, <2>4, <3>1, <3>2, StreamTaken
    <3> QED BY <3>3 DEF x
  <2>6. /\ conn.state = "SynReceived" => conn'.state # "SynReceived"
        /\ conn'.state = "SynReceived" => conn.state = "SynReceived"
    BY <2>1, <2>4 DEF Taken, Opens, Early
  <2> QED BY <2>5, <2>6
<1>13. ASSUME "SYN" \notin p.flags, conn.state # "Init", p.seq # expected_packet(conn)
       PROVE  SameStream(conn, conn') /\ conn'.state = conn.state /\ conn.state # "SynReceived"
  <2>1. SameStream(conn, conn') /\ conn'.state = conn.state
    BY <1>8, <1>13 DEF Handled
  <2>2. conn.state # "SynReceived"
    <3> SUFFICES ASSUME conn.state = "SynReceived" PROVE FALSE
      OBVIOUS
    <3>1. Told(conn) + Len(conn.client_to_network) = 1
      <4> DEFINE l == Len(conn.written)
                 m == Len(conn.client_to_network)
      <4>1. l \in Nat /\ m \in Nat /\ Reach(conn) = 1 + l + m /\ Told(conn) = 1 + l + conn.fins
        BY <1>0, StreamTypes DEF Reach, Told
      <4>2. Reach(conn) = 1 /\ ~conn.fin_received
        BY <1>0 DEF Stream, Early
      <4>3. conn.fins = 0
        BY <1>0, <4>2 DEF Stream, Bit
      <4> HIDE DEF l, m
      <4>4. Told(conn) + m = 1
        BY <4>1, <4>2, <4>3
      <4> QED BY <4>4 DEF m
    <3>2. expected_packet(conn) = DeviceSeq(1)
      BY <1>0, <1>9, <1>13, <3>1, ExpectedSeq
    <3> QED BY <1>7, <1>8, <1>13, <3>2 DEF Opens
  <2> QED BY <2>1, <2>2
<1>14. /\ Stream(conn', device)
       /\ Top(conn') = Top(conn) \/ ("SYN" \notin p.flags /\ Top(conn') = EndOf(p, f[1]))
  <2>1. CASE SameStream(conn, conn') /\ (conn'.state = conn.state \/ conn.state = "Init")
    BY <1>0, <2>1, StreamKeeps DEF Early
  <2>2. CASE "SYN" \notin p.flags /\ conn.state # "Init" /\ p.seq = expected_packet(conn)
    BY <1>12, <2>2
  <2> QED BY <1>11, <1>13, <2>1, <2>2
<1>15. Flying(from_device', conn', device')
  BY <1>0, <1>2, <1>3, <1>14, FlyingTail DEF p, n
<1>16. Handshake'
  <2> SUFFICES ASSUME conn'.state = "SynReceived", ~conn'.closed PROVE Handshake'
    BY DEF Handshake
  <2>1. conn.state = "SynReceived" /\ "SYN" \in p.flags
    BY <1>8, <1>11, <1>12, <1>13 DEF Handled
  <2>2. /\ \A i \in 1 .. n :
             /\ "SYN" \notin from_device[i].flags
             /\ \A j \in 1 .. n : j < i => "SYN" \in from_device[j].flags
             => Opens(from_device[i])
        /\ AllSyn => device.phase # "open"
    BY <1>0, <1>8, <2>1 DEF Handshake, n
  <2>3. ASSUME NEW i \in 1 .. n - 1, "SYN" \notin (from_device'[i]).flags,
               \A j \in 1 .. n - 1 : j < i => "SYN" \in (from_device'[j]).flags
        PROVE  Opens(from_device'[i])
    <3>1. from_device'[i] = from_device[i + 1] /\ i + 1 \in 1 .. n
      BY <1>2
    <3>2. ASSUME NEW j \in 1 .. n, j < i + 1 PROVE "SYN" \in from_device[j].flags
      <4>1. CASE j = 1
        BY <2>1, <4>1 DEF p
      <4>2. CASE j # 1
        <5>1. j - 1 \in 1 .. n - 1 /\ j - 1 < i /\ (j - 1) + 1 = j
          BY <1>2, <3>2, <4>2
        <5> QED BY <1>2, <2>3, <5>1
      <4> QED BY <4>1, <4>2
    <3> QED BY <2>2, <2>3, <3>1, <3>2
  <2>4. AllSyn' => AllSyn
    <3> SUFFICES ASSUME AllSyn', NEW j \in 1 .. n PROVE "SYN" \in from_device[j].flags
      BY DEF AllSyn, n
    <3>1. CASE j = 1
      BY <2>1, <3>1 DEF p
    <3>2. CASE j # 1
      <4>1. j - 1 \in 1 .. n - 1 /\ (j - 1) + 1 = j
        BY <1>2, <3>2
      <4> QED BY <1>2, <4>1 DEF AllSyn
    <3> QED BY <3>1, <3>2
  <2>5. \A i \in 1 .. n - 1 :
          /\ "SYN" \notin (from_device'[i]).flags
          /\ \A j \in 1 .. n - 1 : j < i => "SYN" \in (from_device'[j]).flags
          => Opens(from_device'[i])
    BY <2>3
  <2> QED BY <1>2, <2>2, <2>4, <2>5 DEF Handshake
<1> QED BY <1>0, <1>2, <1>8, <1>14, <1>15, <1>16 DEF Order

\* A socket event: what is written was next, and the handshake starts after SYNs only.
LEMMA OnReadyOrder ==
  ASSUME Order, Link', OnReady
  PROVE  Order'
<1>0. /\ IInv /\ Steady(conn) /\ Unanswered /\ device \in Device /\ device.una \in Nat
      /\ Chan(conn, device.una) /\ Stream(conn, device) /\ conn \in Connection
      /\ Flying(from_device, conn, device)
  BY DEF Order, Link, TypeOK, ConnTypeOK, IInv, Safe, Device
<1>1. PICK w \in WriteResults(conn), r \in {WouldBlock, Error} \cup 0 .. ServerBytes : on_ready(w, r)
  BY DEF OnReady
<1>2. w \in Int /\ r \in Int
  <2>1. w \in Int
    BY <1>0 DEF WriteResults, WouldBlock, Error, Connection
  <2> QED BY <2>1 DEF WouldBlock, Error
<1>3. Chan(conn', device.una) /\ Wrote(conn, conn')
  BY <1>0, <1>1, <1>2, OnReadyChan DEF Unanswered
<1>4. Stream(conn', device) /\ Top(conn') = Top(conn)
  BY <1>0, <1>3, StreamWrote
<1>5. device' = device /\ from_device' = from_device
  BY DEF OnReady
<1>6. conn.state # "Init"
  BY <1>0, <1>1 DEF on_ready, IInv
<1>7. conn'.state = "SynReceived" => conn.state \in {"SynSent", "SynReceived"}
  BY <1>3, <1>6 DEF Wrote, Keeps, Early, on_ready
<1>8. Handshake'
  <2> SUFFICES ASSUME conn'.state = "SynReceived", ~conn'.closed PROVE Handshake'
    BY DEF Handshake
  <2>1. ~conn.closed
    BY <1>1 DEF on_ready
  <2>2. CASE conn.state = "SynReceived"
    BY <1>5, <2>1, <2>2 DEF Order, Handshake, AllSyn
  <2>3. CASE conn.state = "SynSent"
    BY <1>0, <1>5, <2>1, <2>3 DEF Unanswered, Handshake, AllSyn
  <2> QED BY <1>7, <2>2, <2>3
<1>9. Flying(from_device, conn', device)
  BY <1>0, <1>4, FlyingFrame
<1> QED BY <1>3, <1>4, <1>5, <1>8, <1>9 DEF Order

\* The client writes: the device may learn that more arrived.
LEMMA ClientSendOrder ==
  ASSUME Order, Link', ClientSend
  PROVE  Order'
<1>0. /\ IInv /\ Steady(conn) /\ Unanswered /\ device \in Device /\ device.una \in Nat
      /\ Chan(conn, device.una) /\ Sender(device) /\ Stream(conn, device)
      /\ Flying(from_device, conn, device) /\ Handshake
      /\ device.edge <= device.rcv + MaxWindow
  BY DEF Order, Link, TypeOK, IInv, Safe, Device
<1>1. PICK n \in {0, 1}, f \in {0, conn.foreign} :
        /\ conn.closed => conn.pending_packet_sources > 0
        /\ client_send(n, f)
        /\ device' = IF n = 0 THEN device ELSE Received(device, conn.channel[1])
        /\ from_device' = from_device
  BY DEF ClientSend
<1>2. f \in Nat /\ conn.panic = "none" /\ n <= Len(conn.channel)
  BY <1>0, <1>1 DEF Steady, Connection, client_send, Running
<1>3. n = 1 => conn.state # "Init"
  BY <1>0, <1>1, <1>2 DEF Unanswered, Chan, Steady, Registered
<1>4. /\ SameStream(conn, conn') /\ conn'.state = conn.state /\ conn'.closed = conn.closed
      /\ n = 0 => Chan(conn', device.una)
      /\ n = 1 => /\ conn.channel # << >> /\ conn.channel[1] \in ClientPacket
                  /\ Headers <= conn.channel[1].total_length
                  /\ \E hi \in Nat : /\ conn.channel[1].ack = DeviceSeq(hi)
                                     /\ device.una <= hi /\ hi <= Told(conn) /\ Chan(conn', hi)
  BY <1>0, <1>1, <1>2, <1>3, ClientSendChan
<1>5. \A d : Stream(conn, d) => Stream(conn', d) /\ Top(conn') = Top(conn)
  BY <1>4, StreamKeeps
<1>6. CASE n = 0
  BY <1>0, <1>1, <1>4, <1>5, <1>6, OrderFrame
<1>7. CASE n = 1
  <2>1. PICK hi \in Nat : /\ conn.channel[1].ack = DeviceSeq(hi)
                          /\ device.una <= hi /\ hi <= Told(conn) /\ Chan(conn', hi)
    BY <1>4, <1>7
  <2> DEFINE p == conn.channel[1]
             e == Received(device, p)
  <2>2. /\ Sender(e) /\ Stream(conn, e) /\ e.una \in Nat /\ e.una <= hi
        /\ e.nxt = device.nxt /\ e.fin = device.fin /\ (e.phase = "open" => device.phase = "open")
    <3>1. LET x == Received(device, p)
          IN /\ Sender(x) /\ Stream(conn, x) /\ x.una \in Nat /\ x.una <= hi
             /\ x.nxt = device.nxt /\ x.fin = device.fin
             /\ (x.phase = "open" => device.phase = "open")
      <4>1. p \in ClientPacket /\ Headers <= p.total_length /\ p.ack = DeviceSeq(hi)
        BY <1>4, <1>7, <2>1
      <4> HIDE DEF p
      <4> QED BY <1>0, <2>1, <4>1, ReceivedOrder
    <3> QED BY <3>1
  <2>3. device' = e
    BY <1>1, <1>7
  <2> HIDE DEF e
  <2>4. Chan(conn', e.una)
    BY <2>1, <2>2, ChanLower
  <2>5. Stream(conn', e)
    BY <1>5, <2>2
  <2>6. Top(conn') = Top(conn)
    BY <1>0, <1>5
  <2>7. Flying(from_device, conn', e)
    BY <1>0, <2>2, <2>6, FlyingFrame
  <2>8. Handshake'
    BY <1>0, <1>1, <1>4, <2>2, <2>3 DEF Handshake, AllSyn
  <2> QED BY <1>1, <2>2, <2>3, <2>4, <2>5, <2>7, <2>8 DEF Order
<1> QED BY <1>6, <1>7

\* Whatever the relay does.
LEMMA RelayOrder == Order /\ RelayNext => Order'
<1> SUFFICES ASSUME Order, RelayNext PROVE Order'
  OBVIOUS
<1>0. /\ Link /\ IInv /\ Chan(conn, device.una) /\ device.una \in Nat /\ Stream(conn, device)
      /\ Steady(conn) /\ conn \in Connection
  BY DEF Order, Link, TypeOK, ConnTypeOK, Device, IInv, Safe
<1>1. Link'
  BY <1>0, RelayLink
<1>2. CASE Poll
  <2>1. conn' = conn /\ device' = device /\ from_device' = from_device
    BY <1>2 DEF Poll, poll
  <2> QED BY <1>0, <1>1, <2>1, OrderFrame
<1>3. CASE OnReady
  BY <1>1, <1>3, OnReadyOrder
<1>4. CASE PushPacket
  BY <1>1, <1>4, PushOrder
<1>5. CASE ClientSend
  BY <1>1, <1>5, ClientSendOrder
<1>6. ASSUME SameQueue(conn, conn'), SameStream(conn, conn'), conn'.state = conn.state,
             conn.closed => conn'.closed, device' = device, from_device' = from_device
      PROVE  Order'
  <2>1. Chan(conn', device.una)
    <3>1. Told(conn) \in Nat /\ Told(conn') = Told(conn) /\ Told(conn) <= Told(conn')
      BY <1>0, <1>6, Counted, SameTold
    <3>2. CASE conn.state # "Init"
      BY <1>0, <1>6, <3>1, <3>2, ChanFrame
    <3>3. CASE conn.state = "Init"
      BY <1>0, <1>6, <3>3 DEF Chan, Whole, SameQueue
    <3> QED BY <3>2, <3>3
  <2>2. Stream(conn', device) /\ Top(conn') = Top(conn)
    BY <1>0, <1>6, StreamKeeps
  <2> QED BY <1>1, <1>6, <2>1, <2>2, OrderFrame
<1>7. CASE Fill
  <2>1. /\ conn' = [conn EXCEPT !.foreign = ClientCapacity - conn.used]
        /\ device' = device /\ from_device' = from_device
    BY <1>7 DEF Fill, fill
  <2>2. /\ SameQueue(conn, conn') /\ SameStream(conn, conn') /\ conn'.state = conn.state
        /\ conn'.closed = conn.closed
    BY <1>0, <2>1 DEF Connection, SameQueue, SameStream
  <2> QED BY <1>6, <2>1, <2>2
<1>8. CASE ClientClose
  <2>1. /\ conn' = [close(conn) EXCEPT !.client_closed = TRUE]
        /\ device' = device /\ from_device' = from_device
    BY <1>8 DEF ClientClose, client_close
  <2>2. /\ SameQueue(conn, conn') /\ SameStream(conn, conn') /\ conn'.state = conn.state
        /\ conn'.closed
    BY <1>0, <2>1 DEF close, Connection, SameQueue, SameStream
  <2> QED BY <1>6, <2>1, <2>2
<1> QED BY <1>2, <1>3, <1>4, <1>5, <1>7, <1>8 DEF RelayNext

\* The invariant of the stream.
LEMMA NextOrder ==
  ASSUME HandshakeFin = FALSE
  PROVE  Order /\ [Next]_vars => Order'
<1> SUFFICES ASSUME Order, [Next]_vars PROVE Order'
  OBVIOUS
<1>1. Link'
  BY NextLink DEF Order
<1>2. CASE DeviceNext
  BY <1>2, DeviceOrder
<1>3. CASE ServerNext \/ UNCHANGED vars
  <2>1. conn' = conn /\ device' = device /\ from_device' = from_device
    BY <1>3, ServerFrame DEF vars, Order
  <2>2. Stream(conn, device) /\ Chan(conn, device.una)
    BY DEF Order
  <2> QED BY <1>1, <2>1, <2>2, OrderFrame
<1>4. CASE RelayNext
  BY <1>4, RelayOrder
<1> QED BY <1>2, <1>3, <1>4 DEF Next, DeviceNext, ServerNext, RelayNext

\* What the order of the stream gives.
LEMMA OrderGives == Order => WrittenInOrder /\ AckedIsWritten /\ WithinWindow
<1> SUFFICES ASSUME Order PROVE WrittenInOrder /\ AckedIsWritten /\ WithinWindow
  OBVIOUS
<1>0. Steady(conn) /\ device \in Device /\ Stream(conn, device) /\ Sender(device)
  BY DEF Order, Link, TypeOK, IInv, Safe
<1> DEFINE l == Len(conn.written)
           m == Len(conn.client_to_network)
<1>1. /\ l \in Nat /\ m \in Nat /\ device.una \in Nat /\ device.nxt \in Nat
      /\ conn.client_to_network = << >> <=> m = 0
      /\ conn.fin_received \in BOOLEAN
  BY <1>0, StreamTypes
<1>2. /\ Reach(conn) = 1 + l + m /\ Told(conn) = 1 + l + conn.fins
      /\ Reach(conn) <= device.nxt /\ device.una <= Told(conn)
      /\ conn.fin_received => Reach(conn) = device.nxt
      /\ conn.fins = Bit(conn.fin_received /\ conn.client_to_network = << >>)
      /\ device.nxt <= device.una + MaxWindow
  BY <1>0 DEF Reach, Told, Stream, Sender
<1>3. WrittenInOrder
  BY <1>0 DEF WrittenInOrder, Stream
<1>4. conn.fins = (IF conn.fin_received /\ m = 0 THEN 1 ELSE 0)
  BY <1>1, <1>2 DEF Bit
<1> HIDE DEF l, m
<1>5. \A n \in 1 .. device.nxt - 1 : n < device.una => n <= l
  <2>1. CASE conn.fin_received /\ m = 0
    BY <1>1, <1>2, <1>4, <2>1
  <2>2. CASE ~(conn.fin_received /\ m = 0)
    BY <1>1, <1>2, <1>4, <2>2
  <2> QED BY <2>1, <2>2
<1>6. m <= MaxWindow /\ conn.fins <= 1
  BY <1>1, <1>2, <1>4, ConstantFacts
<1> QED BY <1>3, <1>5, <1>6 DEF AckedIsWritten, WithinWindow, l, m

-----------------------------------------------------------------------------
(***************************************************************************)
(* The theorems on the stream, for a device whose handshake ACK does not   *)
(* carry both bytes and a FIN: handle_ack() drops those bytes, yet         *)
(* handle_fin() counts the FIN.                                            *)
(***************************************************************************)
\* The invariant holds in every state.
LEMMA AlwaysOrder ==
  ASSUME HandshakeFin = FALSE
  PROVE  Spec => []Order
  BY InitOrder, NextOrder, PTL DEF Spec

\* The server receives the device's stream: each byte once, in order, and
\* none invented, whatever is retransmitted, dropped for want of room, or
\* written in part.
THEOREM StreamIsInOrder ==
  ASSUME HandshakeFin = FALSE
  PROVE  Spec => []WrittenInOrder
  BY AlwaysOrder, OrderGives, PTL

\* The device never takes as arrived a byte that was not written to the
\* socket, although acknowledgements may wait, unsent, in a deferred packet.
THEOREM OnlyWrittenIsAcked ==
  ASSUME HandshakeFin = FALSE
  PROVE  Spec => []AckedIsWritten
  BY AlwaysOrder, OrderGives, PTL

\* A device that respects the window never makes the relay drop a segment
\* for want of space, and its FIN is counted at most once.
THEOREM BufferKeepsWithinWindow ==
  ASSUME HandshakeFin = FALSE
  PROVE  Spec => []WithinWindow
  BY AlwaysOrder, OrderGives, PTL

-----------------------------------------------------------------------------
(***************************************************************************)
(* The server's stream.  The sequence number counts the SYN, the bytes     *)
(* taken from the socket and the FINs sent: at most one while the          *)
(* connection may still read, at most two in all, for process() may read   *)
(* the end of the stream just after it sent a FIN of its own.              *)
(***************************************************************************)
Numbered(c, m) ==
  /\ c.state \in {"Init", "SynSent"} => c.taken = 0 /\ c.fin_sequence_number = NoSeqno
  /\ c.state = "SynSent" => c.sequence_number = c.isn
  /\ c.state \notin {"Init", "SynSent"} =>
       \E f \in 0 .. m : /\ c.sequence_number = Count(c.isn, c.taken, f)
                         /\ f = 0 <=> c.fin_sequence_number = NoSeqno
                         /\ f > 0 => is_closed(c)

\* A packet without bytes of the server.
Blank(p) == p.raw = Headers /\ p.total_length = Headers /\ "PSH" \notin p.flags

\* The channel of d holds packets of c and blank ones.
Replies(c, d) ==
  \A i \in 1 .. Len(d.channel) :
    (\E j \in 1 .. Len(c.channel) : d.channel[i] = c.channel[j]) \/ Blank(d.channel[i])

\* d is c after methods that read nothing from the socket.
Idle(c, d) ==
  /\ d.isn = c.isn /\ d.taken = c.taken /\ d.deferred = c.deferred
  /\ d.packet_for_client_length = c.packet_for_client_length
  /\ Replies(c, d)
  /\ d.packetizer = c.packetizer \/ "PSH" \notin d.packetizer.flags
  /\ is_connected(c) => is_connected(d)
  /\ is_closed(c) => is_closed(d)
  /\ c.closed => d.closed
  /\ c.fin_sequence_number # NoSeqno => d.fin_sequence_number # NoSeqno
  /\ "readable" \in d.interests =>
       "readable" \in c.interests \/ (is_connected(d) /\ ~is_closed(c))
  /\ \A m \in 1 .. 2 : Numbered(c, m) => Numbered(d, m)

\* What the device announced last, to a connection that may read.
SameOffer(c, d) ==
  /\ d.their_acknowledgement_number = c.their_acknowledgement_number
  /\ d.client_window = c.client_window
  /\ is_connected(d) => is_connected(c)

\* Both compose.
LEMMA IdleTwice ==
  ASSUME NEW c, NEW d, NEW e, Idle(c, d), Idle(d, e)
  PROVE  Idle(c, e)
<1>1. Replies(c, e)
  BY DEF Idle, Replies
<1>2. \A m \in 1 .. 2 : Numbered(c, m) => Numbered(e, m)
  BY DEF Idle
<1> QED BY <1>1, <1>2 DEF Idle

\* The offer is the same after two methods that leave it alone.
LEMMA SameOfferTwice ==
  ASSUME NEW c, NEW d, NEW e, SameOffer(c, d), SameOffer(d, e)
  PROVE  SameOffer(c, e)
  BY DEF SameOffer

\* What is numbered depends on these fields only.
LEMMA NumberedFrame ==
  ASSUME NEW c, NEW d, NEW m, Numbered(c, m),
         d.isn = c.isn, d.taken = c.taken, d.sequence_number = c.sequence_number,
         d.fin_sequence_number = c.fin_sequence_number,
         \/ d.state = c.state
         \/ is_closed(c) /\ is_closed(d)
         \/ c.state = "SynReceived" /\ d.state = "Established"
  PROVE  Numbered(d, m)
  BY DEF Numbered, is_closed

\* A method that leaves the numbers and the queue alone.
LEMMA IdleFrame ==
  ASSUME NEW c, NEW d,
         d.isn = c.isn, d.taken = c.taken, d.deferred = c.deferred,
         d.sequence_number = c.sequence_number,
         d.fin_sequence_number = c.fin_sequence_number,
         d.packet_for_client_length = c.packet_for_client_length,
         d.channel = c.channel, d.packetizer = c.packetizer,
         c.closed => d.closed,
         "readable" \in d.interests =>
           "readable" \in c.interests \/ (is_connected(d) /\ ~is_closed(c)),
         \/ d.state = c.state
         \/ is_closed(c) /\ is_closed(d)
         \/ c.state = "SynReceived" /\ d.state = "Established"
  PROVE  Idle(c, d)
<1>1. Replies(c, d)
  BY DEF Replies
<1>2. \A m \in 1 .. 2 : Numbered(c, m) => Numbered(d, m)
  BY NumberedFrame
<1>3. (is_connected(c) => is_connected(d)) /\ (is_closed(c) => is_closed(d))
  BY DEF is_connected, is_closed
<1> QED BY <1>1, <1>2, <1>3 DEF Idle

\* The fields an empty reply leaves alone.
LEMMA ReplyLeaves ==
  ASSUME NEW c \in Connection, NEW flags \in SUBSET Flags
  PROVE  LET d == reply_empty_packet_to_client(c, flags)
         IN d.isn = c.isn /\ d.taken = c.taken /\ d.deferred = c.deferred
  BY DEF reply_empty_packet_to_client, send_to_client, Connection

\* An empty reply.
LEMMA ReplyIdle ==
  ASSUME NEW c, Steady(c), NEW flags \in SUBSET Flags, "PSH" \notin flags
  PROVE  LET d == reply_empty_packet_to_client(c, flags)
         IN Idle(c, d) /\ SameOffer(c, d)
<1> DEFINE d == reply_empty_packet_to_client(c, flags)
           p == empty_packet(c, flags)
<1>1. c \in Connection /\ c.channel \in Seq(ClientPacket)
  BY DEF Steady, Connection
<1>2. /\ d.packetizer = IF c.packet_for_client_length = 0 THEN c.packetizer ELSE p
      /\ d.channel \in {c.channel, Append(c.channel, p)}
  BY <1>1, ReplyFields
<1>3. SameBut(c, d)
  BY ReplySteady
<1>4. d.isn = c.isn /\ d.taken = c.taken /\ d.deferred = c.deferred
  BY <1>1, ReplyLeaves
<1>5. Blank(p)
  BY DEF Blank, empty_packet
<1> HIDE DEF d, p
<1>6. Replies(c, d)
  <2>1. CASE d.channel = c.channel
    BY <2>1 DEF Replies
  <2>2. CASE d.channel = Append(c.channel, p)
    <3>1. \A i \in 1 .. Len(d.channel) :
          (i \in 1 .. Len(c.channel) /\ d.channel[i] = c.channel[i]) \/ d.channel[i] = p
      BY <1>1, <2>2, AppendProperties
    <3> QED BY <1>5, <3>1 DEF Replies
  <2> QED BY <1>2, <2>1, <2>2
<1>7. \A m \in 1 .. 2 : Numbered(c, m) => Numbered(d, m)
  BY <1>3, <1>4, NumberedFrame DEF SameBut
<1>8. /\ is_connected(c) <=> is_connected(d)
      /\ is_closed(c) => is_closed(d)
  BY <1>3 DEF SameBut, is_connected, is_closed
<1>9. d.packetizer = c.packetizer \/ "PSH" \notin d.packetizer.flags
  BY <1>2, <1>5 DEF Blank
<1> QED BY <1>3, <1>4, <1>6, <1>7, <1>8, <1>9 DEF Idle, SameOffer, SameBut, d


\* close().
LEMMA CloseIdle ==
  ASSUME NEW c, Steady(c)
  PROVE  LET d == close(c) IN Idle(c, d) /\ SameOffer(c, d)
<1> DEFINE d == close(c)
<1>1. c \in Connection
  BY DEF Steady
<1>2. /\ d.isn = c.isn /\ d.taken = c.taken /\ d.deferred = c.deferred
      /\ d.sequence_number = c.sequence_number
      /\ d.fin_sequence_number = c.fin_sequence_number
      /\ d.packet_for_client_length = c.packet_for_client_length
      /\ d.channel = c.channel /\ d.packetizer = c.packetizer
      /\ d.closed /\ d.interests = {} /\ d.state = c.state
      /\ d.their_acknowledgement_number = c.their_acknowledgement_number
      /\ d.client_window = c.client_window
  BY <1>1 DEF close, Connection
<1> HIDE DEF d
<1>3. Idle(c, d)
  BY <1>2, IdleFrame
<1>4. SameOffer(c, d)
  BY <1>2 DEF SameOffer, is_connected
<1> QED BY <1>3, <1>4 DEF d

\* The error exit of the handlers.
LEMMA ReplyCloseIdle ==
  ASSUME NEW c, Steady(c), NEW flags \in SUBSET Flags, "PSH" \notin flags
  PROVE  LET d == close(reply_empty_packet_to_client(c, flags))
         IN Idle(c, d) /\ SameOffer(c, d)
<1> DEFINE e == reply_empty_packet_to_client(c, flags)
<1>1. Steady(e) /\ Idle(c, e) /\ SameOffer(c, e)
  BY ReplySteady, ReplyIdle
<1> HIDE DEF e
<1>2. Idle(e, close(e)) /\ SameOffer(e, close(e))
  BY <1>1, CloseIdle
<1>3. Idle(c, close(e)) /\ SameOffer(c, close(e))
  BY <1>1, <1>2, IdleTwice, SameOfferTwice
<1> QED BY <1>3 DEF e

\* update_interests(): it asks for reading only while no FIN was sent.
LEMMA InterestsIdle ==
  ASSUME NEW c, Steady(c)
  PROVE  LET d == update_interests(c) IN Idle(c, d) /\ SameOffer(c, d)
<1> DEFINE d == update_interests(c)
<1>1. c \in Connection
  BY DEF Steady
<1>2. /\ d.isn = c.isn /\ d.taken = c.taken /\ d.deferred = c.deferred
      /\ d.sequence_number = c.sequence_number
      /\ d.fin_sequence_number = c.fin_sequence_number
      /\ d.packet_for_client_length = c.packet_for_client_length
      /\ d.channel = c.channel /\ d.packetizer = c.packetizer
      /\ d.closed = c.closed /\ d.interests \in {c.interests, wanted(c)} /\ d.state = c.state
      /\ d.their_acknowledgement_number = c.their_acknowledgement_number
      /\ d.client_window = c.client_window
  BY <1>1 DEF update_interests, Connection
<1>3. "readable" \in wanted(c) => is_connected(c) /\ ~is_closed(c)
  BY DEF wanted, may_read
<1> HIDE DEF d
<1>4. is_connected(d) <=> is_connected(c)
  BY <1>2 DEF is_connected
<1>5. Idle(c, d)
  BY <1>2, <1>3, <1>4, IdleFrame
<1>6. SameOffer(c, d)
  BY <1>2, <1>4 DEF SameOffer
<1> QED BY <1>5, <1>6 DEF d

\* A change of state alone.
LEMMA StateIdle ==
  ASSUME NEW c, Steady(c), NEW s,
         \/ c.state \in {"FinWait1", "FinWait2", "Closing", "LastAck"}
              /\ s \in {"FinWait1", "FinWait2", "Closing", "LastAck"}
         \/ c.state = "SynReceived" /\ s = "Established"
  PROVE  LET d == [c EXCEPT !.state = s]
         IN /\ Idle(c, d) /\ (c.state # "SynReceived" => SameOffer(c, d))
            /\ d.their_acknowledgement_number = c.their_acknowledgement_number
            /\ d.client_window = c.client_window
<1> DEFINE d == [c EXCEPT !.state = s]
<1>1. c \in Connection
  BY DEF Steady
<1>2. /\ d.isn = c.isn /\ d.taken = c.taken /\ d.deferred = c.deferred
      /\ d.sequence_number = c.sequence_number
      /\ d.fin_sequence_number = c.fin_sequence_number
      /\ d.packet_for_client_length = c.packet_for_client_length
      /\ d.channel = c.channel /\ d.packetizer = c.packetizer
      /\ d.closed = c.closed /\ d.interests = c.interests /\ d.state = s
      /\ d.their_acknowledgement_number = c.their_acknowledgement_number
      /\ d.client_window = c.client_window
  BY <1>1 DEF Connection
<1> HIDE DEF d
<1>3. \/ is_closed(c) /\ is_closed(d)
      \/ c.state = "SynReceived" /\ d.state = "Established"
  BY <1>2 DEF is_closed
<1>4. Idle(c, d)
  BY <1>2, <1>3, IdleFrame
<1>5. c.state # "SynReceived" => SameOffer(c, d)
  BY <1>2 DEF SameOffer, is_connected
<1> QED BY <1>2, <1>4, <1>5 DEF d

\* The FIN takes one sequence number.
LEMMA FinNumbered ==
  ASSUME NEW c, NEW e, NEW m \in 1 .. 2, Numbered(c, m - 1), c \in Connection,
         c.state \notin {"Init", "SynSent"}, is_closed(e),
         e.isn = c.isn, e.taken = c.taken, e.fin_sequence_number = c.sequence_number,
         e.sequence_number = wrapping_add(c.sequence_number, 1)
  PROVE  Numbered(e, m)
<1> DEFINE x == c.isn
           t == c.taken
<1>1. x \in Nat /\ t \in Nat /\ c.sequence_number \in Nat /\ m \in {1, 2} /\ m - 1 \in Nat
  BY ConstantFacts DEF Connection, Seqno
<1>2. PICK f \in 0 .. m - 1 : c.sequence_number = Count(x, t, f)
  BY DEF Numbered
<1>3. f \in Nat /\ f + 1 \in 0 .. m /\ f + 1 > 0
  BY <1>1, <1>2
<1> HIDE DEF x, t
<1>4. wrapping_add(Count(x, t, f), 1) = Count(x, t, f + 1)
  BY <1>1, <1>3, CountOne
<1>5. e.sequence_number = Count(e.isn, e.taken, f + 1)
  BY <1>2, <1>4 DEF x, t
<1>6. e.fin_sequence_number # NoSeqno
  BY <1>1 DEF NoSeqno
<1>7. e.state \notin {"Init", "SynSent"}
  BY DEF is_closed
<1> QED BY <1>3, <1>5, <1>6, <1>7 DEF Numbered

\* What sending the FIN does to the other fields.
LEMMA FinSentLeaves ==
  ASSUME NEW c, Steady(c), NEW s
  PROVE  LET e == FinSent(c, s)
         IN /\ e.isn = c.isn /\ e.taken = c.taken /\ e.deferred = c.deferred
            /\ e.packet_for_client_length = c.packet_for_client_length
            /\ Replies(c, e)
            /\ e.packetizer = c.packetizer \/ "PSH" \notin e.packetizer.flags
            /\ e.closed = c.closed /\ e.interests = c.interests /\ e.state = s
            /\ e.fin_sequence_number = c.sequence_number
            /\ e.sequence_number = wrapping_add(c.sequence_number, 1)
            /\ e.their_acknowledgement_number = c.their_acknowledgement_number
            /\ e.client_window = c.client_window
<1> DEFINE r == reply_empty_packet_to_client(c, {"FIN", "ACK"})
           e == FinSent(c, s)
<1>1. Steady(r) /\ SameBut(c, r) /\ Idle(c, r)
  BY ReplySteady, ReplyIdle DEF Flags
<1>2. e = [r EXCEPT !.fin_sequence_number = c.sequence_number,
                    !.sequence_number = wrapping_add(r.sequence_number, 1), !.state = s]
  BY DEF FinSent
<1> HIDE DEF r, e
<1>3. r \in Connection
  BY <1>1 DEF Steady
<1>4. /\ e.isn = r.isn /\ e.taken = r.taken /\ e.deferred = r.deferred
      /\ e.packet_for_client_length = r.packet_for_client_length
      /\ e.channel = r.channel /\ e.packetizer = r.packetizer
      /\ e.closed = r.closed /\ e.interests = r.interests /\ e.state = s
      /\ e.fin_sequence_number = c.sequence_number
      /\ e.sequence_number = wrapping_add(r.sequence_number, 1)
      /\ e.their_acknowledgement_number = r.their_acknowledgement_number
      /\ e.client_window = r.client_window
  BY <1>2, <1>3 DEF Connection
<1>5. Replies(c, e)
  BY <1>1, <1>4 DEF Idle, Replies
<1> QED BY <1>1, <1>4, <1>5 DEF SameBut, Idle, e

\* The relay's FIN in answer to the device's.
LEMMA FinSentIdle ==
  ASSUME NEW c, Steady(c), c.state = "Established"
  PROVE  LET e == FinSent(c, "LastAck") IN Idle(c, e) /\ SameOffer(c, e)
<1> DEFINE e == FinSent(c, "LastAck")
<1>1. /\ e.isn = c.isn /\ e.taken = c.taken /\ e.deferred = c.deferred
      /\ e.packet_for_client_length = c.packet_for_client_length
      /\ Replies(c, e)
      /\ e.packetizer = c.packetizer \/ "PSH" \notin e.packetizer.flags
      /\ e.closed = c.closed /\ e.interests = c.interests /\ e.state = "LastAck"
      /\ e.fin_sequence_number = c.sequence_number
      /\ e.sequence_number = wrapping_add(c.sequence_number, 1)
      /\ e.their_acknowledgement_number = c.their_acknowledgement_number
      /\ e.client_window = c.client_window
  BY FinSentLeaves
<1>2. c \in Connection
  BY DEF Steady
<1>3. c.sequence_number # NoSeqno
  BY <1>2, ConstantFacts DEF Connection, Seqno, NoSeqno
<1> HIDE DEF e
<1>4. /\ is_closed(e) /\ is_connected(e) /\ is_connected(c) /\ ~is_closed(c)
  BY <1>1 DEF is_closed, is_connected
<1>5. ASSUME NEW m \in 1 .. 2, Numbered(c, m) PROVE Numbered(e, m)
  <2>1. Numbered(c, m - 1)
    <3>1. 0 \in 0 .. m - 1
      OBVIOUS
    <3> QED BY <1>4, <1>5, <3>1 DEF Numbered
  <2> QED BY <1>1, <1>2, <1>4, <2>1, FinNumbered
<1> QED BY <1>1, <1>3, <1>4, <1>5 DEF Idle, SameOffer, e


\* count_fin().
LEMMA CountFinIdle ==
  ASSUME NEW c, Steady(c)
  PROVE  LET d == count_fin(c) IN Idle(c, d) /\ SameOffer(c, d) /\ d.state = c.state
<1> DEFINE d == count_fin(c)
<1>1. c \in Connection
  BY DEF Steady
<1>2. /\ d.isn = c.isn /\ d.taken = c.taken /\ d.deferred = c.deferred
      /\ d.sequence_number = c.sequence_number
      /\ d.fin_sequence_number = c.fin_sequence_number
      /\ d.packet_for_client_length = c.packet_for_client_length
      /\ d.channel = c.channel /\ d.packetizer = c.packetizer
      /\ d.closed = c.closed /\ d.interests = c.interests /\ d.state = c.state
      /\ d.their_acknowledgement_number = c.their_acknowledgement_number
      /\ d.client_window = c.client_window
  BY <1>1 DEF count_fin, Connection
<1> HIDE DEF d
<1>3. Idle(c, d)
  BY <1>2, IdleFrame
<1>4. SameOffer(c, d)
  BY <1>2 DEF SameOffer, is_connected
<1> QED BY <1>2, <1>3, <1>4 DEF d

\* do_handle_fin(): a FIN is answered by at most one FIN of the relay.
LEMMA DoHandleFinIdle ==
  ASSUME NEW c, Steady(c), c.state # "Init"
  PROVE  LET e == do_handle_fin(c) IN Idle(c, e) /\ SameOffer(c, e)
<1> DEFINE d == count_fin(c)
           ack == reply_empty_packet_to_client(d, {"ACK"})
           e == do_handle_fin(c)
<1>1. Steady(d) /\ Idle(c, d) /\ SameOffer(c, d) /\ d.state = c.state
  BY CountFin, CountFinIdle
<1>2. e = CASE d.state = "Established" -> FinSent(d, "LastAck")
            [] d.state = "FinWait1" -> [ack EXCEPT !.state = "Closing"]
            [] d.state = "FinWait2" -> close(ack)
            [] OTHER -> d
  BY DEF do_handle_fin, FinSent
<1> HIDE DEF d, e
<1>3. Steady(ack) /\ SameBut(d, ack) /\ Idle(d, ack) /\ SameOffer(d, ack)
  BY <1>1, ReplySteady, ReplyIdle DEF Flags
<1> HIDE DEF ack
<1>4. CASE d.state = "Established"
  <2>1. Idle(d, e) /\ SameOffer(d, e)
    BY <1>1, <1>2, <1>4, FinSentIdle
  <2> QED BY <1>1, <2>1, IdleTwice, SameOfferTwice DEF e
<1>5. CASE d.state = "FinWait1"
  <2>1. ack.state = "FinWait1" /\ e = [ack EXCEPT !.state = "Closing"]
    BY <1>2, <1>3, <1>5 DEF SameBut
  <2>2. Idle(ack, e) /\ SameOffer(ack, e)
    BY <1>3, <2>1, StateIdle
  <2>3. Idle(c, ack) /\ SameOffer(c, ack)
    BY <1>1, <1>3, IdleTwice, SameOfferTwice
  <2> QED BY <2>2, <2>3, IdleTwice, SameOfferTwice DEF e
<1>6. CASE d.state = "FinWait2"
  <2>1. e = close(ack)
    BY <1>2, <1>6
  <2>2. Idle(ack, e) /\ SameOffer(ack, e)
    BY <1>3, <2>1, CloseIdle
  <2>3. Idle(c, ack) /\ SameOffer(c, ack)
    BY <1>1, <1>3, IdleTwice, SameOfferTwice
  <2> QED BY <2>2, <2>3, IdleTwice, SameOfferTwice DEF e
<1>7. CASE d.state \notin {"Established", "FinWait1", "FinWait2"}
  <2>1. e = d
    BY <1>2, <1>7
  <2> QED BY <1>1, <2>1 DEF e
<1> QED BY <1>4, <1>5, <1>6, <1>7

\* handle_fin().
LEMMA HandleFinIdle ==
  ASSUME NEW c, Steady(c), c.state # "Init"
  PROVE  LET e == handle_fin(c) IN Idle(c, e) /\ SameOffer(c, e)
<1> DEFINE d == [c EXCEPT !.fin_received = TRUE]
           e == handle_fin(c)
<1>1. c \in Connection
  BY DEF Steady
<1>2. d \in Connection
  BY <1>1 DEF Connection
<1>3. /\ d.isn = c.isn /\ d.taken = c.taken /\ d.deferred = c.deferred
      /\ d.sequence_number = c.sequence_number
      /\ d.fin_sequence_number = c.fin_sequence_number
      /\ d.packet_for_client_length = c.packet_for_client_length
      /\ d.channel = c.channel /\ d.packetizer = c.packetizer
      /\ d.closed = c.closed /\ d.interests = c.interests /\ d.state = c.state
      /\ d.their_acknowledgement_number = c.their_acknowledgement_number
      /\ d.client_window = c.client_window
  BY <1>1 DEF Connection
<1>4. /\ SamePending(c, d) /\ d.syn_sequence_number = c.syn_sequence_number
      /\ d.acknowledgement_number = c.acknowledgement_number
      /\ d.written = c.written /\ d.fins = c.fins
  BY <1>1 DEF Connection, SamePending
<1>5. e \in {d, do_handle_fin(d)}
  BY DEF handle_fin
<1> HIDE DEF d, e
<1>6. Steady(d)
  BY <1>2, <1>3, <1>4, SteadyFrame
<1>7. Idle(c, d)
  BY <1>3, IdleFrame
<1>8. SameOffer(c, d)
  BY <1>3 DEF SameOffer, is_connected
<1>9. Idle(d, do_handle_fin(d)) /\ SameOffer(d, do_handle_fin(d))
  BY <1>3, <1>6, DoHandleFinIdle
<1> QED BY <1>5, <1>7, <1>8, <1>9, IdleTwice, SameOfferTwice DEF e

\* Nothing done.
LEMMA IdleSame ==
  ASSUME NEW c
  PROVE  Idle(c, c) /\ SameOffer(c, c)
<1>1. Idle(c, c)
  BY IdleFrame
<1> QED BY <1>1 DEF SameOffer

\* handle_fin_ack().
LEMMA HandleFinAckIdle ==
  ASSUME NEW c, Steady(c)
  PROVE  LET e == handle_fin_ack(c) IN Idle(c, e) /\ SameOffer(c, e)
<1>1. CASE c.state \in {"LastAck", "Closing"}
  BY <1>1, CloseIdle DEF handle_fin_ack
<1>2. CASE c.state = "FinWait1"
  <2>1. handle_fin_ack(c) = [c EXCEPT !.state = "FinWait2"]
    BY <1>2 DEF handle_fin_ack
  <2> QED BY <1>2, <2>1, StateIdle
<1>3. CASE c.state \notin {"LastAck", "Closing", "FinWait1"}
  BY <1>3, IdleSame DEF handle_fin_ack
<1> QED BY <1>1, <1>2, <1>3

\* The last offer of the device.
Offer(c, a, n) == c.their_acknowledgement_number = a /\ c.client_window = n

\* handle_ack() ends the handshake or buffers the bytes.
LEMMA HandleAckIdle ==
  ASSUME NEW c, Steady(c), c.state # "Init", NEW p \in DevicePacket
  PROVE  LET d == handle_ack(c, p)
         IN Idle(c, d) /\ Offer(d, c.their_acknowledgement_number, c.client_window)
<1>1. c \in Connection
  BY DEF Steady
<1>2. CASE c.state = "SynReceived"
  <2>1. handle_ack(c, p) = [c EXCEPT !.state = "Established"]
    BY <1>2 DEF handle_ack
  <2> QED BY <1>2, <2>1, StateIdle DEF Offer
<1>3. CASE c.state # "SynReceived"
  <2> DEFINE d == [c EXCEPT !.client_to_network = @ \o p.data]
  <2>1. handle_ack(c, p) \in {c, d}
    BY <1>3 DEF handle_ack
  <2>2. /\ d.isn = c.isn /\ d.taken = c.taken /\ d.deferred = c.deferred
        /\ d.sequence_number = c.sequence_number
        /\ d.fin_sequence_number = c.fin_sequence_number
        /\ d.packet_for_client_length = c.packet_for_client_length
        /\ d.channel = c.channel /\ d.packetizer = c.packetizer
        /\ d.closed = c.closed /\ d.interests = c.interests /\ d.state = c.state
        /\ Offer(d, c.their_acknowledgement_number, c.client_window)
    BY <1>1 DEF Connection, Offer
  <2> HIDE DEF d
  <2>3. Idle(c, d)
    BY <2>2, IdleFrame
  <2> QED BY <2>1, <2>2, <2>3, IdleSame DEF Offer
<1> QED BY <1>2, <1>3

\* The packet that was expected: whatever it does, its offer is the one that counts.
LEMMA ExpectedIdle ==
  ASSUME NEW c, Steady(c), c.state # "Init", NEW p \in DevicePacket
  PROVE  LET d == handle_expected_packet(c, p)
         IN Idle(c, d) /\ Offer(d, p.ack, p.window)
<1> DEFINE w == [c EXCEPT !.client_window = p.window, !.their_acknowledgement_number = p.ack]
           a == IF "ACK" \in p.flags THEN handle_ack(w, p) ELSE w
           f == IF "FIN" \in p.flags THEN handle_fin(a) ELSE a
           d == handle_expected_packet(c, p)
<1>1. c \in Connection /\ p.window \in 0 .. MaxWindow /\ p.ack \in Seqno
  BY DEF Steady, DevicePacket
<1>2. w \in Connection
  BY <1>1 DEF Connection
<1>3. /\ w.isn = c.isn /\ w.taken = c.taken /\ w.deferred = c.deferred
      /\ w.sequence_number = c.sequence_number
      /\ w.fin_sequence_number = c.fin_sequence_number
      /\ w.packet_for_client_length = c.packet_for_client_length
      /\ w.channel = c.channel /\ w.packetizer = c.packetizer
      /\ w.closed = c.closed /\ w.interests = c.interests /\ w.state = c.state
      /\ Offer(w, p.ack, p.window)
  BY <1>1 DEF Connection, Offer
<1>4. /\ SamePending(c, w) /\ w.syn_sequence_number = c.syn_sequence_number
      /\ w.acknowledgement_number = c.acknowledgement_number
      /\ w.written = c.written /\ w.fins = c.fins
  BY <1>1 DEF Connection, SamePending
<1>5. d \in {close(w), f, handle_fin_ack(f)}
  BY DEF handle_expected_packet
<1> HIDE DEF w, d
<1>6. Steady(w) /\ w.state # "Init" /\ Idle(c, w)
  BY <1>2, <1>3, <1>4, SteadyFrame, IdleFrame
<1>7. Steady(a) /\ a.state # "Init" /\ Idle(w, a) /\ Offer(a, p.ack, p.window)
  <2>1. CASE "ACK" \in p.flags
    BY <1>3, <1>6, <2>1, HandleAck, HandleAckIdle DEF Offer
  <2>2. CASE "ACK" \notin p.flags
    BY <1>3, <1>6, <2>2, IdleSame
  <2> QED BY <2>1, <2>2
<1> HIDE DEF a
<1>8. Steady(f) /\ Idle(a, f) /\ SameOffer(a, f)
  BY <1>7, HandleFin, HandleFinIdle, IdleSame
<1> HIDE DEF f
<1>9. Idle(f, handle_fin_ack(f)) /\ SameOffer(f, handle_fin_ack(f))
  BY <1>8, HandleFinAckIdle
<1>10. Idle(w, close(w)) /\ SameOffer(w, close(w))
  BY <1>6, CloseIdle
<1>11. Idle(c, a) /\ Idle(c, close(w))
  BY <1>6, <1>7, <1>10, IdleTwice
<1>12. Idle(c, f)
  BY <1>8, <1>11, IdleTwice
<1>13. Idle(c, handle_fin_ack(f))
  BY <1>9, <1>12, IdleTwice
<1>14. /\ Offer(close(w), p.ack, p.window) /\ Offer(f, p.ack, p.window)
       /\ Offer(handle_fin_ack(f), p.ack, p.window)
  BY <1>3, <1>7, <1>8, <1>9, <1>10 DEF Offer, SameOffer
<1> QED BY <1>5, <1>11, <1>12, <1>13, <1>14 DEF d

\* A SYN on a known connection.
LEMMA DuplicateSynIdle ==
  ASSUME NEW c, Steady(c), c.state # "Init", NEW p \in DevicePacket
  PROVE  LET d == handle_duplicate_syn(c, p) IN Idle(c, d) /\ SameOffer(c, d)
<1>1. c \in Connection
  BY DEF Steady
<1>2. CASE c.state = "SynSent"
  <2> DEFINE d == [c EXCEPT !.syn_sequence_number = p.seq,
                 !.acknowledgement_number = wrapping_add(p.seq, 1), !.fins = 0]
  <2>1. handle_duplicate_syn(c, p) = d
    BY <1>2 DEF handle_duplicate_syn
  <2>2. /\ d.isn = c.isn /\ d.taken = c.taken /\ d.deferred = c.deferred
        /\ d.sequence_number = c.sequence_number
        /\ d.fin_sequence_number = c.fin_sequence_number
        /\ d.packet_for_client_length = c.packet_for_client_length
        /\ d.channel = c.channel /\ d.packetizer = c.packetizer
        /\ d.closed = c.closed /\ d.interests = c.interests /\ d.state = c.state
        /\ d.their_acknowledgement_number = c.their_acknowledgement_number
        /\ d.client_window = c.client_window
    BY <1>1 DEF Connection
  <2> HIDE DEF d
  <2>3. Idle(c, d)
    BY <2>2, IdleFrame
  <2>4. SameOffer(c, d)
    BY <2>2 DEF SameOffer, is_connected
  <2> QED BY <2>1, <2>3, <2>4
<1>3. CASE c.state # "SynSent"
  <2>1. handle_duplicate_syn(c, p) \in {c, close(reply_empty_packet_to_client(c, {"RST"}))}
    BY <1>3 DEF handle_duplicate_syn
  <2>2. LET e == close(reply_empty_packet_to_client(c, {"RST"}))
        IN Idle(c, e) /\ SameOffer(c, e)
    BY ReplyCloseIdle DEF Flags
  <2> QED BY <2>1, <2>2, IdleSame
<1> QED BY <1>2, <1>3


-----------------------------------------------------------------------------
(***************************************************************************)
(* What the invariant says of a connection: c, the readiness rd polled for *)
(* it and the device dev.                                                  *)
(***************************************************************************)
Shift(c) == IF c.fin_sequence_number = NoSeqno THEN {0} ELSE {0, 1}

Matching(c) ==
  ~c.deferred =>
    \A i \in 1 .. Len(c.channel) :
      /\ c.channel[i].raw = c.channel[i].total_length
      /\ c.channel[i].raw > Headers =>
           \E k \in Shift(c) : c.channel[i].seq = Count(c.isn, c.channel[i].pos, k)

\* Before the device's first ACK no byte of the server is read.
NoData(c) ==
  ~is_connected(c) => /\ c.packet_for_client_length = 0
                      /\ \A i \in 1 .. Len(c.channel) : "PSH" \notin c.channel[i].flags

\* The bytes end before the edge of the window the device announced.
InEdge(p, dev) ==
  "PSH" \in p.flags =>
    /\ Headers <= p.total_length
    /\ \E x \in Nat : /\ p.seq = wrapping_add(dev.irs, x)
                      /\ x + (p.total_length - Headers) <= dev.edge

Bounded(c, dev) ==
  /\ \A i \in 1 .. Len(c.channel) : InEdge(c.channel[i], dev)
  /\ c.packet_for_client_length # 0 => InEdge(c.packetizer, dev)

Core(c, dev) == Matching(c) /\ NoData(c) /\ Bounded(c, dev)

\* Two FINs were sent only if nothing is read any more.
Twice(c) == Numbered(c, 2) /\ is_closed(c)
Silent(c, rd) == c.panic # "none" \/ c.closed \/ "readable" \notin c.interests \cup rd

Numbering(c, rd) ==
  ~c.deferred => /\ c.packet_for_client_length = 0
                 /\ Numbered(c, 1) \/ (Twice(c) /\ Silent(c, rd))

Reading(c, rd) == "readable" \in c.interests \cup rd => is_connected(c)

Flow(c, rd, dev) == Core(c, dev) /\ Numbering(c, rd) /\ Reading(c, rd)

\* Methods that read nothing keep what was sent as it was.
LEMMA IdleCore ==
  ASSUME NEW c, NEW d, NEW dev, Idle(c, d), Core(c, dev)
  PROVE  Core(d, dev)
<1>1. \A i \in 1 .. Len(d.channel) :
        (\E j \in 1 .. Len(c.channel) : d.channel[i] = c.channel[j]) \/ Blank(d.channel[i])
  BY DEF Idle, Replies
<1>2. Matching(d)
  <2> SUFFICES ASSUME ~d.deferred, NEW i \in 1 .. Len(d.channel)
               PROVE  /\ d.channel[i].raw = d.channel[i].total_length
                      /\ d.channel[i].raw > Headers =>
                           \E k \in Shift(d) : d.channel[i].seq = Count(d.isn, d.channel[i].pos, k)
    BY DEF Matching
  <2>1. CASE Blank(d.channel[i])
    BY <2>1, ConstantFacts DEF Blank
  <2>2. CASE \E j \in 1 .. Len(c.channel) : d.channel[i] = c.channel[j]
    <3>1. PICK j \in 1 .. Len(c.channel) : d.channel[i] = c.channel[j]
      BY <2>2
    <3>2. ~c.deferred /\ d.isn = c.isn /\ Shift(c) \subseteq Shift(d)
      BY DEF Idle, Shift
    <3>3. /\ c.channel[j].raw = c.channel[j].total_length
          /\ c.channel[j].raw > Headers =>
               \E k \in Shift(c) : c.channel[j].seq = Count(c.isn, c.channel[j].pos, k)
      BY <3>1, <3>2 DEF Core, Matching
    <3> HIDE DEF Shift
    <3> QED BY <3>1, <3>2, <3>3
  <2> QED BY <1>1, <2>1, <2>2
<1>3. NoData(d)
  <2> SUFFICES ASSUME ~is_connected(d)
               PROVE  /\ d.packet_for_client_length = 0
                      /\ \A i \in 1 .. Len(d.channel) : "PSH" \notin d.channel[i].flags
    BY DEF NoData
  <2>1. /\ c.packet_for_client_length = 0
        /\ \A i \in 1 .. Len(c.channel) : "PSH" \notin c.channel[i].flags
    BY DEF Idle, Core, NoData
  <2> QED BY <1>1, <2>1 DEF Idle, Blank
<1>4. Bounded(d, dev)
  <2>1. \A i \in 1 .. Len(d.channel) : InEdge(d.channel[i], dev)
    <3> SUFFICES ASSUME NEW i \in 1 .. Len(d.channel) PROVE InEdge(d.channel[i], dev)
      OBVIOUS
    <3>1. CASE Blank(d.channel[i])
      BY <3>1 DEF Blank, InEdge
    <3>2. CASE \E j \in 1 .. Len(c.channel) : d.channel[i] = c.channel[j]
      BY <3>2 DEF Core, Bounded
    <3> QED BY <1>1, <3>1, <3>2
  <2>2. d.packet_for_client_length # 0 => InEdge(d.packetizer, dev)
    <3>1. CASE d.packetizer = c.packetizer
      BY <3>1 DEF Idle, Core, Bounded
    <3>2. CASE "PSH" \notin d.packetizer.flags
      BY <3>2 DEF InEdge
    <3> QED BY <3>1, <3>2 DEF Idle
  <2> QED BY <2>1, <2>2 DEF Bounded
<1> QED BY <1>2, <1>3, <1>4 DEF Core

\* And all the rest.
LEMMA IdleFlow ==
  ASSUME NEW c, NEW d, NEW dev, NEW rd, NEW sd, sd \subseteq rd, Idle(c, d),
         c.panic = "none", Flow(c, rd, dev)
  PROVE  Flow(d, sd, dev)
<1>1. Core(d, dev)
  BY IdleCore DEF Flow
<1>2. Reading(d, sd)
  BY DEF Flow, Reading, Idle
<1>3. Numbering(d, sd)
  <2> SUFFICES ASSUME ~d.deferred
               PROVE  /\ d.packet_for_client_length = 0
                      /\ Numbered(d, 1) \/ (Twice(d) /\ Silent(d, sd))
    BY DEF Numbering
  <2>1. /\ c.packet_for_client_length = 0 /\ d.packet_for_client_length = 0
        /\ Numbered(c, 1) \/ (Twice(c) /\ Silent(c, rd))
    BY DEF Idle, Flow, Numbering
  <2>2. CASE Numbered(c, 1)
    BY <2>1, <2>2 DEF Idle
  <2>3. CASE Twice(c) /\ Silent(c, rd)
    <3>1. Twice(d)
      BY <2>3 DEF Twice, Idle
    <3>2. Silent(d, sd)
      BY <2>3 DEF Twice, Silent, Idle
    <3> QED BY <2>1, <3>1, <3>2
  <2> QED BY <2>1, <2>2, <2>3
<1> QED BY <1>1, <1>2, <1>3 DEF Flow

\* The first packet: the numbers start.
LEMMA FirstFlow ==
  ASSUME NEW c, Steady(c), c.state = "Init", c.channel = << >>, c.panic = "none",
         NEW p \in DevicePacket, NEW isn \in Seqno, NEW rd, NEW dev, Flow(c, rd, dev)
  PROVE  LET d == handle_first_packet(c, p, isn)
         IN Flow(d, rd, dev) /\ ~is_connected(d)
<1> DEFINE d == handle_first_packet(c, p, isn)
<1>1. c \in Connection /\ ~is_connected(c)
  BY DEF Steady, is_connected
<1>2. CASE "SYN" \in p.flags
  <2>1. d = [c EXCEPT !.acknowledgement_number = wrapping_add(p.seq, 1),
                 !.syn_sequence_number = p.seq,
                 !.sequence_number = isn, !.isn = isn,
                 !.client_window = p.window,
                 !.state = "SynSent"]
    BY <1>2 DEF handle_first_packet
  <2>2. /\ d.sequence_number = isn /\ d.isn = isn /\ d.state = "SynSent" /\ d.channel = << >>
        /\ d.taken = c.taken /\ d.deferred = c.deferred
        /\ d.fin_sequence_number = c.fin_sequence_number
        /\ d.packet_for_client_length = c.packet_for_client_length
        /\ d.packetizer = c.packetizer /\ d.interests = c.interests
    BY <1>1, <2>1 DEF Connection
  <2> HIDE DEF d
  <2>3. ~is_connected(d)
    BY <2>2 DEF is_connected
  <2>4. Core(d, dev)
    <3>1. c.packet_for_client_length = 0
      BY <1>1 DEF Flow, Core, NoData
    <3>2. 1 .. Len(d.channel) = {}
      BY <2>2
    <3>3. Matching(d)
      BY <3>2 DEF Matching
    <3>4. NoData(d) /\ Bounded(d, dev)
      BY <2>2, <3>1, <3>2 DEF NoData, Bounded
    <3> QED BY <3>3, <3>4 DEF Core
  <2>5. Numbering(d, rd)
    <3>1. ~c.deferred => Numbered(c, 1) /\ c.packet_for_client_length = 0
      BY DEF Flow, Numbering, Twice, is_closed
    <3>2. Numbered(c, 1) => Numbered(d, 1)
      BY <2>2 DEF Numbered
    <3> QED BY <2>2, <3>1, <3>2 DEF Numbering
  <2>6. Reading(d, rd)
    BY <1>1, <2>2 DEF Flow, Reading
  <2> QED BY <2>3, <2>4, <2>5, <2>6 DEF Flow, d
<1>3. CASE "SYN" \notin p.flags
  <2> DEFINE b == [c EXCEPT !.sequence_number = p.ack]
  <2>1. d = close(reply_empty_packet_to_client(b, {"RST"}))
    BY <1>3 DEF handle_first_packet
  <2>2. b \in Connection
    BY <1>1 DEF Connection, DevicePacket
  <2>3. /\ b.isn = c.isn /\ b.taken = c.taken /\ b.deferred = c.deferred
        /\ b.fin_sequence_number = c.fin_sequence_number
        /\ b.packet_for_client_length = c.packet_for_client_length
        /\ b.channel = c.channel /\ b.packetizer = c.packetizer
        /\ b.closed = c.closed /\ b.interests = c.interests /\ b.state = c.state
    BY <1>1 DEF Connection
  <2>4. /\ SamePending(c, b) /\ b.syn_sequence_number = c.syn_sequence_number
        /\ b.acknowledgement_number = c.acknowledgement_number
        /\ b.written = c.written /\ b.fins = c.fins
    BY <1>1 DEF Connection, SamePending
  <2> HIDE DEF b, d
  <2>5. Steady(b)
    BY <2>2, <2>3, <2>4, SteadyFrame
  <2>6. Idle(c, b)
    <3>1. \A m \in 1 .. 2 : Numbered(c, m) => Numbered(b, m)
      BY <2>3 DEF Numbered
    <3>2. Replies(c, b)
      BY <2>3 DEF Replies
    <3>3. (is_connected(c) <=> is_connected(b)) /\ (is_closed(c) => is_closed(b))
      BY <2>3 DEF is_connected, is_closed
    <3> QED BY <2>3, <3>1, <3>2, <3>3 DEF Idle
  <2>7. Idle(b, d) /\ SameOffer(b, d)
    BY <2>1, <2>5, ReplyCloseIdle DEF Flags
  <2>8. Idle(c, d)
    BY <2>6, <2>7, IdleTwice
  <2>9. Flow(d, rd, dev)
    BY <2>8, IdleFlow
  <2>10. ~is_connected(d)
    BY <1>1, <2>3, <2>7 DEF SameOffer, is_connected
  <2> QED BY <2>9, <2>10 DEF d
<1> QED BY <1>2, <1>3

\* What a packet of the device leaves on offer.
Heard(c, p, d) ==
  is_connected(d) => \/ SameOffer(c, d)
                     \/ "SYN" \notin p.flags /\ Offer(d, p.ack, p.window)

\* send_to_network() as a whole.
LEMMA PushFlow ==
  ASSUME NEW c, Steady(c), c.state = "Init" => c.channel = << >>, c.panic = "none",
         NEW p \in DevicePacket, NEW isn \in Seqno, NEW rd, NEW dev, Flow(c, rd, dev)
  PROVE  LET e == send_to_network(c, p, isn)
         IN Flow(e, rd, dev) /\ Heard(c, p, e)
<1> DEFINE d == handle_packet(c, p, isn)
           e == send_to_network(c, p, isn)
<1>1. Steady(d) /\ d.panic = "none"
  BY HandlePacket DEF SamePending
<1>2. e = IF d.closed THEN d ELSE update_interests(d)
  BY DEF send_to_network
<1>3. Flow(d, rd, dev) /\ Heard(c, p, d)
  <2>1. CASE c.state = "Init"
    <3>1. d = handle_first_packet(c, p, isn)
      BY <2>1 DEF handle_packet
    <3> HIDE DEF d
    <3> QED BY <2>1, <3>1, FirstFlow DEF Heard
  <2>2. CASE c.state # "Init" /\ "SYN" \in p.flags
    <3>1. d = handle_duplicate_syn(c, p)
      BY <2>2 DEF handle_packet
    <3> HIDE DEF d
    <3>2. Idle(c, d) /\ SameOffer(c, d)
      BY <2>2, <3>1, DuplicateSynIdle
    <3> QED BY <3>2, IdleFlow DEF Heard
  <2>3. CASE c.state # "Init" /\ "SYN" \notin p.flags /\ p.seq = expected_packet(c)
    <3>1. d = handle_expected_packet(c, p)
      BY <2>3 DEF handle_packet
    <3> HIDE DEF d
    <3>2. Idle(c, d) /\ Offer(d, p.ack, p.window)
      BY <2>3, <3>1, ExpectedIdle
    <3> QED BY <2>3, <3>2, IdleFlow DEF Heard
  <2>4. CASE c.state # "Init" /\ "SYN" \notin p.flags /\ p.seq # expected_packet(c)
    <3>1. d = c
      BY <2>4 DEF handle_packet
    <3> HIDE DEF d
    <3> QED BY <3>1, IdleSame DEF Heard
  <2> QED BY <2>1, <2>2, <2>3, <2>4
<1> HIDE DEF d, e
<1>4. Idle(d, e) /\ SameOffer(d, e)
  BY <1>1, <1>2, InterestsIdle, IdleSame
<1>5. Flow(e, rd, dev)
  BY <1>1, <1>3, <1>4, IdleFlow
<1>6. Heard(c, p, e)
  BY <1>3, <1>4 DEF Heard, SameOffer, Offer
<1> QED BY <1>5, <1>6 DEF e


-----------------------------------------------------------------------------
(***************************************************************************)
(* A socket event.                                                         *)
(***************************************************************************)
\* The SYN-ACK takes the sequence number of the SYN.
LEMMA ConnectIdle ==
  ASSUME NEW c, Steady(c), c.state = "SynSent"
  PROVE  LET d == process_connect(c) IN Idle(c, d) /\ SameOffer(c, d)
<1> DEFINE b == [c EXCEPT !.state = "SynReceived"]
           r == reply_empty_packet_to_client(b, {"SYN", "ACK"})
           d == process_connect(c)
<1>1. c \in Connection
  BY DEF Steady
<1>2. Steady(b) /\ b.state = "SynReceived"
  BY StateSteady DEF TcpState
<1>3. /\ b.isn = c.isn /\ b.taken = c.taken /\ b.deferred = c.deferred
      /\ b.sequence_number = c.sequence_number
      /\ b.fin_sequence_number = c.fin_sequence_number
      /\ b.packet_for_client_length = c.packet_for_client_length
      /\ b.channel = c.channel /\ b.packetizer = c.packetizer
      /\ b.closed = c.closed /\ b.interests = c.interests
      /\ b.their_acknowledgement_number = c.their_acknowledgement_number
      /\ b.client_window = c.client_window
  BY <1>1 DEF Connection
<1>4. d = [r EXCEPT !.sequence_number = wrapping_add(r.sequence_number, 1)]
  BY DEF process_connect
<1> HIDE DEF b, d
<1>5. Steady(r) /\ SameBut(b, r) /\ Idle(b, r)
  BY <1>2, ReplySteady, ReplyIdle DEF Flags
<1> HIDE DEF r
<1>6. r \in Connection
  BY <1>5 DEF Steady
<1>7. /\ d.isn = r.isn /\ d.taken = r.taken /\ d.deferred = r.deferred
      /\ d.sequence_number = wrapping_add(r.sequence_number, 1)
      /\ d.fin_sequence_number = r.fin_sequence_number
      /\ d.packet_for_client_length = r.packet_for_client_length
      /\ d.channel = r.channel /\ d.packetizer = r.packetizer
      /\ d.closed = r.closed /\ d.interests = r.interests /\ d.state = r.state
      /\ d.their_acknowledgement_number = r.their_acknowledgement_number
      /\ d.client_window = r.client_window
  BY <1>4, <1>6 DEF Connection
<1>8. /\ d.isn = c.isn /\ d.taken = c.taken /\ d.deferred = c.deferred
      /\ d.sequence_number = wrapping_add(c.sequence_number, 1)
      /\ d.fin_sequence_number = c.fin_sequence_number
      /\ d.packet_for_client_length = c.packet_for_client_length
      /\ d.closed = c.closed /\ d.interests = c.interests /\ d.state = "SynReceived"
      /\ d.their_acknowledgement_number = c.their_acknowledgement_number
      /\ d.client_window = c.client_window
      /\ d.packetizer = c.packetizer \/ "PSH" \notin d.packetizer.flags
  BY <1>2, <1>3, <1>5, <1>7 DEF SameBut, Idle
<1>9. Replies(c, d)
  BY <1>3, <1>5, <1>7 DEF Idle, Replies
<1>10. ASSUME NEW m \in 1 .. 2, Numbered(c, m) PROVE Numbered(d, m)
  <2>1. c.taken = 0 /\ c.fin_sequence_number = NoSeqno /\ c.sequence_number = c.isn
    BY <1>10 DEF Numbered
  <2>2. wrapping_add(c.isn, 1) = Count(c.isn, 0, 0)
    BY <1>1, ConstantFacts, SMTT(40) DEF wrapping_add, Count, Connection, Seqno
  <2>3. d.sequence_number = Count(d.isn, d.taken, 0) /\ 0 \in 0 .. m
    BY <1>8, <2>1, <2>2
  <2> QED BY <1>8, <2>1, <2>3 DEF Numbered
<1>11. ~is_connected(c) /\ ~is_closed(c) /\ ~is_connected(d)
  BY <1>8 DEF is_connected, is_closed
<1>12. Idle(c, d)
  BY <1>8, <1>9, <1>10, <1>11 DEF Idle
<1>13. SameOffer(c, d)
  BY <1>8, <1>11 DEF SameOffer
<1> QED BY <1>12, <1>13 DEF d

\* The bytes given to the socket are the device's.
LEMMA WrittenIdle ==
  ASSUME NEW c, Steady(c), NEW w
  PROVE  LET d == written_to_socket(c, w) IN Idle(c, d) /\ SameOffer(c, d)
<1> DEFINE d == written_to_socket(c, w)
<1>1. c \in Connection
  BY DEF Steady
<1>2. /\ d.isn = c.isn /\ d.taken = c.taken /\ d.deferred = c.deferred
      /\ d.sequence_number = c.sequence_number
      /\ d.fin_sequence_number = c.fin_sequence_number
      /\ d.packet_for_client_length = c.packet_for_client_length
      /\ d.channel = c.channel /\ d.packetizer = c.packetizer
      /\ d.closed = c.closed /\ d.interests = c.interests /\ d.state = c.state
      /\ d.their_acknowledgement_number = c.their_acknowledgement_number
      /\ d.client_window = c.client_window
  BY <1>1 DEF written_to_socket, Connection
<1> HIDE DEF d
<1>3. Idle(c, d)
  BY <1>2, IdleFrame
<1>4. SameOffer(c, d)
  BY <1>2 DEF SameOffer, is_connected
<1> QED BY <1>3, <1>4 DEF d

\* process_send(), when the socket did not block.
LEMMA ProcessSendIdle ==
  ASSUME NEW c, Steady(c), c.state \notin {"Init", "SynSent"},
         NEW w, w \in WriteResults(c), w # WouldBlock
  PROVE  LET e == process_send(c, w) IN Idle(c, e) /\ SameOffer(c, e)
<1>1. CASE w = Error
  <2>1. process_send(c, w) = close(reply_empty_packet_to_client(c, {"RST"}))
    BY <1>1 DEF process_send, Error, WouldBlock
  <2> QED BY <2>1, ReplyCloseIdle DEF Flags
<1>2. CASE w = 0
  <2>1. process_send(c, w) = close(c)
    BY <1>2 DEF process_send, Error, WouldBlock
  <2> QED BY <2>1, CloseIdle
<1>3. CASE w # Error /\ w # 0
  <2> DEFINE d == written_to_socket(c, w)
             a == reply_empty_packet_to_client(d, {"ACK"})
             e == process_send(c, w)
  <2>1. w \in 1 .. Len(c.client_to_network)
    BY <1>3 DEF WriteResults
  <2>2. e \in {a, do_handle_fin(d)}
    BY <1>3 DEF process_send
  <2>3. Steady(d) /\ d.state = c.state /\ Idle(c, d) /\ SameOffer(c, d)
    BY <2>1, WrittenToSocket, WrittenIdle
  <2> HIDE DEF d, e
  <2>4. Idle(d, a) /\ SameOffer(d, a)
    BY <2>3, ReplyIdle DEF Flags
  <2>5. Idle(d, do_handle_fin(d)) /\ SameOffer(d, do_handle_fin(d))
    BY <2>3, DoHandleFinIdle
  <2> HIDE DEF a
  <2> QED BY <2>2, <2>3, <2>4, <2>5, IdleTwice, SameOfferTwice DEF e
<1> QED BY <1>1, <1>2, <1>3

\* The first half of process().
LEMMA SentPartIdle ==
  ASSUME NEW c, Steady(c), c.state # "Init", NEW events,
         NEW w, w \in WriteResults(c), ~write_blocked(c, events, w)
  PROVE  LET s == sent_part(c, events, w) IN Idle(c, s) /\ SameOffer(c, s)
<1>1. CASE "writable" \notin events
  BY <1>1, IdleSame DEF sent_part
<1>2. CASE "writable" \in events /\ c.state = "SynSent"
  BY <1>2, ConnectIdle DEF sent_part
<1>3. CASE "writable" \in events /\ c.state # "SynSent"
  BY <1>3, ProcessSendIdle DEF sent_part, write_blocked
<1> QED BY <1>1, <1>2, <1>3

\* The window the device announced with the acknowledgement a.
Offered(dev, a, n) ==
  \E R \in Nat : a = wrapping_add(dev.irs, R) /\ (n = 0 \/ R + n <= dev.edge)

\* The bytes that the remaining window admits end before the edge.
LEMMA RemainingInEdge ==
  ASSUME NEW c \in Connection, NEW dev \in Device, NEW r \in Nat \ {0},
         Offered(dev, c.their_acknowledgement_number, c.client_window),
         r <= remaining_client_window(c)
  PROVE  \E x \in Nat : c.sequence_number = wrapping_add(dev.irs, x) /\ x + r <= dev.edge
<1> DEFINE a == c.their_acknowledgement_number
           n == c.client_window
           s == c.sequence_number
           i == dev.irs
           edge == dev.edge
           M == SeqSpace
           rem == (a + n - s) % M
<1>1. /\ a \in Nat /\ n \in Nat /\ s \in Nat /\ s < M /\ i \in Nat /\ edge \in Nat
      /\ M \in Nat \ {0}
  <2>1. M \in Nat \ {0} /\ MaxWindow \in Nat
    BY ConstantFacts
  <2>2. a \in 0 .. M - 1 /\ s \in 0 .. M - 1 /\ n \in 0 .. MaxWindow
    BY DEF Connection, Seqno
  <2>3. i \in 0 .. M - 1 /\ edge \in Nat
    BY DEF Device, Seqno
  <2> HIDE DEF a, n, s, i, edge, M, rem
  <2> QED BY <2>1, <2>2, <2>3
<1>2. remaining_client_window(c) = IF rem <= n THEN rem ELSE 0
  BY DEF remaining_client_window
<1>3. PICK R \in Nat : a = (i + R) % M /\ (n = 0 \/ R + n <= edge)
  BY DEF Offered, wrapping_add
<1>4. \A x : wrapping_add(i, x) = (i + x) % M
  BY DEF wrapping_add
<1>5. a + n - s \in Int /\ i + R \in Int
  BY <1>1
<1>6. PICK q \in Int : a + n - s = M * q + rem
  BY <1>1, <1>5, Division
<1>7. PICK k \in Int : i + R = M * k + a
  BY <1>1, <1>3, <1>5, Division, ZenonT(40)
<1>8. rem \in Nat
  <2> DEFINE y == a + n - s
  <2>1. y \in Int
    BY <1>5
  <2> HIDE DEF y, M
  <2>2. y % M \in 0 .. (M - 1)
    BY <1>1, <2>1, ModRange
  <2>3. y % M \in Nat
    BY <1>1, <2>2
  <2> QED BY <2>3 DEF y
<1> HIDE DEF a, n, s, i, edge, M, rem
<1>9. rem <= n /\ r <= rem /\ n # 0
  BY <1>1, <1>2, <1>8
<1> DEFINE x == R + n - rem
<1>10. x \in Nat /\ x + r <= edge
  BY <1>1, <1>3, <1>8, <1>9
<1>11. i + x = M * (q + k) + s
  <2>1. i + x = M * q + M * k + s
    <3> DEFINE u == M * q
               v == M * k
    <3>1. u \in Int /\ v \in Int
      BY <1>1
    <3>2. a + n - s = u + rem /\ i + R = v + a
      BY <1>6, <1>7
    <3> HIDE DEF u, v
    <3>3. i + x = u + v + s
      BY <1>1, <1>8, <3>1, <3>2
    <3> QED BY <3>3 DEF u, v
  <2>2. M * (q + k) = M * q + M * k
    BY <1>1
  <2> QED BY <2>1, <2>2
<1>12. (i + x) % M = s
  <2>1. q + k \in Int /\ s \in Int /\ 0 <= s
    BY <1>1
  <2>2. (M * (q + k) + s) % M = s
    BY <1>1, <2>1, ModOfMultiple
  <2> QED BY <1>11, <2>2
<1> HIDE DEF x
<1>13. s = wrapping_add(i, x)
  BY <1>4, <1>12
<1> QED BY <1>10, <1>13 DEF s, i, edge

\* The packet of r bytes.
LEMMA DataPacket ==
  ASSUME NEW c \in Connection, NEW r \in Nat
  PROVE  LET p == data_packet(c, r)
         IN /\ p \in ClientPacket /\ p.raw = p.total_length /\ p.total_length = Headers + r
            /\ p.pos = c.taken /\ p.seq = c.sequence_number
<1>1. Headers + r \in Nat
  BY ConstantFacts
<1> QED BY <1>1 DEF data_packet, Connection, ClientPacket, Flags

\* The fields that change when bytes are sent to the device ...
LEMMA DataSent ==
  ASSUME NEW c \in Connection, NEW r \in Nat, data_packet(c, r).total_length <= room(c)
  PROVE  LET e == receive_data(c, r)
         IN /\ e.channel = Append(c.channel, data_packet(c, r)) /\ e.deferred = c.deferred
            /\ e.taken = c.taken + r /\ e.isn = c.isn /\ e.state = c.state
            /\ e.sequence_number = wrapping_add(c.sequence_number, r)
            /\ e.fin_sequence_number = c.fin_sequence_number
            /\ e.packet_for_client_length = c.packet_for_client_length
            /\ e.packetizer = c.packetizer /\ e.interests = c.interests /\ e.closed = c.closed
            /\ e.their_acknowledgement_number = c.their_acknowledgement_number
            /\ e.client_window = c.client_window
<1> DEFINE p == data_packet(c, r)
           d == [c EXCEPT !.taken = @ + r]
           q == [d EXCEPT !.channel = Append(@, p), !.used = @ + p.raw]
           e == receive_data(c, r)
<1>1. p.raw = p.total_length
  BY DataPacket
<1>2. e = IF p.total_length <= room(c)
          THEN [send_to_client(d, p) EXCEPT !.sequence_number = wrapping_add(@, r)]
          ELSE defer(d, p)
  BY DEF receive_data
<1>3. room(d) = room(c)
  BY DEF Connection, room
<1>4. send_to_client(d, p) = q
  BY <1>1, <1>3 DEF send_to_client
<1>5. e = [q EXCEPT !.sequence_number = wrapping_add(@, r)]
  BY <1>2, <1>4
<1> HIDE DEF p, e
<1> QED BY <1>5 DEF Connection, p, e

\* ... or wait for room.
LEMMA DataDeferred ==
  ASSUME NEW c \in Connection, NEW r \in Nat, ~(data_packet(c, r).total_length <= room(c))
  PROVE  LET e == receive_data(c, r)
         IN /\ e.channel = c.channel /\ e.deferred /\ e.packetizer = data_packet(c, r)
            /\ e.state = c.state /\ e.interests = c.interests /\ e.closed = c.closed
            /\ e.their_acknowledgement_number = c.their_acknowledgement_number
            /\ e.client_window = c.client_window
<1> DEFINE p == data_packet(c, r)
           d == [c EXCEPT !.taken = @ + r]
           e == receive_data(c, r)
<1>1. e = IF p.total_length <= room(c)
          THEN [send_to_client(d, p) EXCEPT !.sequence_number = wrapping_add(@, r)]
          ELSE defer(d, p)
  BY DEF receive_data
<1>2. e = [d EXCEPT !.packetizer = p, !.packet_for_client_length = p.total_length,
                    !.pending_packet_sources = @ + 1, !.deferred = TRUE]
  BY <1>1 DEF defer
<1> HIDE DEF p, e
<1> QED BY <1>2 DEF Connection, p, e


\* A packet joins the channel.
LEMMA AppendCore ==
  ASSUME NEW c, NEW e, NEW p \in ClientPacket, NEW dev, c \in Connection, Core(c, dev), is_connected(c),
         e.channel = Append(c.channel, p), e.state = c.state, InEdge(p, dev),
         e.packet_for_client_length = 0,
         ~e.deferred =>
           /\ ~c.deferred /\ e.isn = c.isn /\ e.fin_sequence_number = c.fin_sequence_number
           /\ p.raw = p.total_length /\ \E k \in Shift(c) : p.seq = Count(c.isn, p.pos, k)
  PROVE  Core(e, dev) /\ is_connected(e)
<1>1. c.channel \in Seq(ClientPacket)
  BY DEF Connection
<1>2. \A i \in 1 .. Len(e.channel) :
        (i \in 1 .. Len(c.channel) /\ e.channel[i] = c.channel[i]) \/ e.channel[i] = p
  BY <1>1, AppendProperties
<1>3. is_connected(e)
  BY DEF is_connected
<1>4. Matching(e)
  <2> SUFFICES ASSUME ~e.deferred, NEW i \in 1 .. Len(e.channel)
               PROVE  /\ e.channel[i].raw = e.channel[i].total_length
                      /\ e.channel[i].raw > Headers =>
                           \E k \in Shift(e) : e.channel[i].seq = Count(e.isn, e.channel[i].pos, k)
    BY DEF Matching
  <2>1. Shift(e) = Shift(c)
    BY DEF Shift
  <2>2. CASE e.channel[i] = p
    BY <2>1, <2>2
  <2>3. CASE i \in 1 .. Len(c.channel) /\ e.channel[i] = c.channel[i]
    BY <2>1, <2>3 DEF Core, Matching
  <2> QED BY <1>2, <2>2, <2>3
<1>5. NoData(e)
  BY <1>3 DEF NoData
<1>6. Bounded(e, dev)
  BY <1>2 DEF Core, Bounded
<1> QED BY <1>3, <1>4, <1>5, <1>6 DEF Core

\* What process_receive() leaves of a connection that may read.
Mid(s, t, dev) ==
  /\ Core(t, dev) /\ is_connected(t) /\ SameOffer(s, t)
  /\ ~t.deferred => t.packet_for_client_length = 0 /\ (Numbered(t, 1) \/ Twice(t))

\* The bytes of the server stand at their sequence number, within the window.
LEMMA ReceiveDataFlow ==
  ASSUME NEW c, Steady(c), is_connected(c), c.packet_for_client_length = 0,
         ~c.deferred => Numbered(c, 1), NEW dev \in Device, Core(c, dev),
         NEW r \in Nat \ {0}, r <= remaining_client_window(c),
         Offered(dev, c.their_acknowledgement_number, c.client_window)
  PROVE  Mid(c, receive_data(c, r), dev)
<1> DEFINE p == data_packet(c, r)
           e == receive_data(c, r)
<1>1. c \in Connection /\ r \in Nat
  BY DEF Steady
<1>2. /\ p \in ClientPacket /\ p.raw = p.total_length /\ p.total_length = Headers + r
      /\ p.pos = c.taken /\ p.seq = c.sequence_number
  BY <1>1, DataPacket
<1>3. InEdge(p, dev)
  <2>1. PICK x \in Nat : c.sequence_number = wrapping_add(dev.irs, x) /\ x + r <= dev.edge
    BY <1>1, RemainingInEdge
  <2>2. Headers <= p.total_length /\ p.total_length - Headers = r
    BY <1>1, <1>2, ConstantFacts
  <2> HIDE DEF p
  <2> QED BY <1>2, <2>1, <2>2 DEF InEdge
<1>4. c.state \notin {"Init", "SynSent"}
  BY DEF is_connected
<1>5. CASE p.total_length <= room(c)
  <2>1. /\ e.channel = Append(c.channel, p) /\ e.deferred = c.deferred
        /\ e.taken = c.taken + r /\ e.isn = c.isn /\ e.state = c.state
        /\ e.sequence_number = wrapping_add(c.sequence_number, r)
        /\ e.fin_sequence_number = c.fin_sequence_number
        /\ e.packet_for_client_length = c.packet_for_client_length
        /\ e.their_acknowledgement_number = c.their_acknowledgement_number
        /\ e.client_window = c.client_window
    BY <1>1, <1>5, DataSent
  <2> HIDE DEF p, e
  <2>2. ASSUME ~e.deferred
        PROVE  /\ Numbered(e, 1)
               /\ \E k \in Shift(c) : p.seq = Count(c.isn, p.pos, k)
    <3> DEFINE x == c.isn
               t == c.taken
    <3>1. x \in Nat /\ t \in Nat
      BY <1>1, ConstantFacts DEF Connection, Seqno
    <3>2. PICK f \in 0 .. 1 : /\ c.sequence_number = Count(x, t, f)
                              /\ f = 0 <=> c.fin_sequence_number = NoSeqno
                              /\ f > 0 => is_closed(c)
      BY <1>4, <2>1, <2>2 DEF Numbered
    <3>3. f \in Shift(c)
      BY <3>2 DEF Shift
    <3> HIDE DEF x, t
    <3>4. wrapping_add(Count(x, t, f), r) = Count(x, t + r, f)
      <4>1. f \in Nat
        BY <3>2
      <4> QED BY <1>1, <3>1, <4>1, CountBytes
    <3>5. e.sequence_number = Count(e.isn, e.taken, f)
      BY <2>1, <3>2, <3>4 DEF x, t
    <3>6. (f > 0 => is_closed(e)) /\ e.state \notin {"Init", "SynSent"}
      BY <1>4, <2>1, <3>2 DEF is_closed
    <3>7. Numbered(e, 1)
      BY <2>1, <3>2, <3>5, <3>6 DEF Numbered
    <3> QED BY <1>2, <3>2, <3>3, <3>7 DEF x, t
  <2>3. Core(e, dev) /\ is_connected(e)
    <3>1. ~e.deferred =>
           /\ ~c.deferred /\ e.isn = c.isn /\ e.fin_sequence_number = c.fin_sequence_number
           /\ p.raw = p.total_length /\ \E k \in Shift(c) : p.seq = Count(c.isn, p.pos, k)
      BY <1>2, <2>1, <2>2
    <3> QED BY <1>1, <1>2, <1>3, <2>1, <3>1, AppendCore
  <2> QED BY <2>1, <2>2, <2>3 DEF Mid, SameOffer, e
<1>6. CASE ~(p.total_length <= room(c))
  <2>1. /\ e.channel = c.channel /\ e.deferred /\ e.packetizer = p
        /\ e.state = c.state
        /\ e.their_acknowledgement_number = c.their_acknowledgement_number
        /\ e.client_window = c.client_window
    BY <1>1, <1>6, DataDeferred
  <2> HIDE DEF p, e
  <2>2. is_connected(e)
    BY <2>1 DEF is_connected
  <2>3. Matching(e) /\ NoData(e)
    BY <2>1, <2>2 DEF Matching, NoData
  <2>4. Bounded(e, dev)
    BY <1>3, <2>1 DEF Core, Bounded
  <2> QED BY <2>1, <2>2, <2>3, <2>4 DEF Mid, Core, SameOffer, e
<1> QED BY <1>5, <1>6

\* The end of the server's stream.
LEMMA EofFlow ==
  ASSUME NEW c, Steady(c), is_connected(c), c.packet_for_client_length = 0,
         ~c.deferred => Numbered(c, 1), NEW dev, Core(c, dev)
  PROVE  Mid(c, eof(c), dev)
<1> DEFINE s == IF c.state = "CloseWait" THEN "LastAck" ELSE "FinWait1"
           r == reply_empty_packet_to_client(c, {"FIN", "ACK"})
           e == FinSent(c, s)
<1>1. r.state = c.state
  BY ReplySteady DEF Flags, SameBut
<1>2. eof(c) = e
  BY <1>1 DEF eof, FinSent
<1>3. /\ e.isn = c.isn /\ e.taken = c.taken /\ e.deferred = c.deferred
      /\ e.packet_for_client_length = c.packet_for_client_length
      /\ Replies(c, e)
      /\ e.packetizer = c.packetizer \/ "PSH" \notin e.packetizer.flags
      /\ e.closed = c.closed /\ e.interests = c.interests /\ e.state = s
      /\ e.fin_sequence_number = c.sequence_number
      /\ e.sequence_number = wrapping_add(c.sequence_number, 1)
      /\ e.their_acknowledgement_number = c.their_acknowledgement_number
      /\ e.client_window = c.client_window
  BY FinSentLeaves
<1>4. c \in Connection /\ c.state \notin {"Init", "SynSent"}
  BY DEF Steady, is_connected
<1>5. c.sequence_number # NoSeqno
  BY <1>4, ConstantFacts DEF Connection, Seqno, NoSeqno
<1> HIDE DEF e
<1>6. is_closed(e) /\ is_connected(e)
  BY <1>3 DEF is_closed, is_connected
<1> HIDE DEF s
<1>7. ~e.deferred => Twice(e)
  <2> SUFFICES ASSUME ~e.deferred PROVE Numbered(e, 2)
    BY <1>6 DEF Twice
  <2>1. Numbered(c, 2 - 1) /\ 2 \in 1 .. 2
    BY <1>3
  <2> QED BY <1>3, <1>4, <1>6, <2>1, FinNumbered
<1>8. Core(e, dev)
  <2>1. \A i \in 1 .. Len(e.channel) :
          (\E j \in 1 .. Len(c.channel) : e.channel[i] = c.channel[j]) \/ Blank(e.channel[i])
    BY <1>3 DEF Replies
  <2>2. Matching(e)
    <3> SUFFICES ASSUME ~e.deferred, NEW i \in 1 .. Len(e.channel)
                 PROVE  /\ e.channel[i].raw = e.channel[i].total_length
                        /\ e.channel[i].raw > Headers =>
                             \E k \in Shift(e) : e.channel[i].seq = Count(e.isn, e.channel[i].pos, k)
      BY DEF Matching
    <3>1. CASE Blank(e.channel[i])
      BY <3>1, ConstantFacts DEF Blank
    <3>2. CASE \E j \in 1 .. Len(c.channel) : e.channel[i] = c.channel[j]
      <4>1. PICK j \in 1 .. Len(c.channel) : e.channel[i] = c.channel[j]
        BY <3>2
      <4>2. ~c.deferred /\ Shift(c) \subseteq Shift(e)
        BY <1>3, <1>5 DEF Shift
      <4>3. /\ c.channel[j].raw = c.channel[j].total_length
            /\ c.channel[j].raw > Headers =>
                 \E k \in Shift(c) : c.channel[j].seq = Count(c.isn, c.channel[j].pos, k)
        BY <4>1, <4>2 DEF Core, Matching
      <4> QED BY <1>3, <4>1, <4>2, <4>3
    <3> QED BY <2>1, <3>1, <3>2
  <2>3. NoData(e)
    BY <1>6 DEF NoData
  <2>4. Bounded(e, dev)
    <3>1. ASSUME NEW i \in 1 .. Len(e.channel) PROVE InEdge(e.channel[i], dev)
      <4>1. CASE Blank(e.channel[i])
        BY <4>1 DEF Blank, InEdge
      <4>2. CASE \E j \in 1 .. Len(c.channel) : e.channel[i] = c.channel[j]
        BY <4>2 DEF Core, Bounded
      <4> QED BY <2>1, <4>1, <4>2
    <3> QED BY <1>3, <3>1 DEF Bounded
  <2> QED BY <2>2, <2>3, <2>4 DEF Core
<1>9. Mid(c, e, dev)
  BY <1>3, <1>6, <1>7, <1>8 DEF Mid, SameOffer
<1> QED BY <1>2, <1>9

\* process_receive() as a whole.
LEMMA ReceiveFlow ==
  ASSUME NEW c, Steady(c), is_connected(c), c.packet_for_client_length = 0,
         ~c.deferred => Numbered(c, 1), NEW dev \in Device, Core(c, dev),
         NEW r, r \in ReadResults(c),
         Offered(dev, c.their_acknowledgement_number, c.client_window)
  PROVE  Mid(c, process_receive(c, r), dev)
<1> DEFINE d == process_receive(c, r)
<1>0. ASSUME NEW e, Idle(c, e), SameOffer(c, e) PROVE Mid(c, e, dev)
  <2>1. Core(e, dev)
    BY <1>0, IdleCore
  <2>2. Numbered(c, 1) => Numbered(e, 1)
    BY <1>0 DEF Idle
  <2> QED BY <1>0, <2>1, <2>2 DEF Mid, Idle
<1>1. CASE remaining_client_window(c) = 0
  <2>1. c \in Connection
    BY DEF Steady
  <2>2. d = [c EXCEPT !.panic = "window"]
    BY <1>1 DEF process_receive
  <2>3. /\ d.isn = c.isn /\ d.taken = c.taken /\ d.deferred = c.deferred
        /\ d.sequence_number = c.sequence_number
        /\ d.fin_sequence_number = c.fin_sequence_number
        /\ d.packet_for_client_length = c.packet_for_client_length
        /\ d.channel = c.channel /\ d.packetizer = c.packetizer
        /\ d.closed = c.closed /\ d.interests = c.interests /\ d.state = c.state
        /\ d.their_acknowledgement_number = c.their_acknowledgement_number
        /\ d.client_window = c.client_window
    BY <2>1, <2>2 DEF Connection
  <2> HIDE DEF d
  <2>4. Idle(c, d)
    BY <2>3, IdleFrame
  <2>5. SameOffer(c, d)
    BY <2>3 DEF SameOffer, is_connected
  <2> QED BY <1>0, <2>4, <2>5 DEF d
<1>2. CASE remaining_client_window(c) # 0
  <2>1. CASE r = WouldBlock
    <3>1. d = c
      BY <1>2, <2>1 DEF process_receive, Error, WouldBlock
    <3> HIDE DEF d
    <3> QED BY <1>0, <3>1, IdleSame DEF d
  <2>2. CASE r = Error
    <3>1. d = close(reply_empty_packet_to_client(c, {"RST"}))
      BY <1>2, <2>2 DEF process_receive, Error, WouldBlock
    <3> HIDE DEF d
    <3>2. Idle(c, d) /\ SameOffer(c, d)
      BY <3>1, ReplyCloseIdle DEF Flags
    <3> QED BY <1>0, <3>2 DEF d
  <2>3. CASE r = 0
    <3>1. d = eof(c)
      BY <1>2, <2>3 DEF process_receive, Error, WouldBlock
    <3> QED BY <3>1, EofFlow
  <2>4. CASE r \notin {WouldBlock, Error, 0}
    <3>1. d = receive_data(c, r)
      BY <1>2, <2>4 DEF process_receive
    <3>2. r \in Nat \ {0} /\ r <= remaining_client_window(c)
      BY <2>4, ConstantFacts DEF ReadResults, WouldBlock, Error
    <3> QED BY <3>1, <3>2, ReceiveDataFlow
  <2> QED BY <2>1, <2>2, <2>3, <2>4
<1> QED BY <1>1, <1>2

\* process() as a whole.
LEMMA ProcessFlow ==
  ASSUME NEW c, Safe(c), c.panic = "none", ~c.closed, c.state # "Init",
         NEW events, "readable" \in events => c.packet_for_client_length = 0,
         NEW w, w \in WriteResults(c),
         NEW r, r \in ReadResults(sent_part(c, events, w)), NEW dev \in Device,
         Flow(c, events, dev),
         is_connected(c) => Offered(dev, c.their_acknowledgement_number, c.client_window)
  PROVE  LET d == process(c, events, w, r)
         IN Flow(d, {}, dev) /\ SameOffer(c, d)
<1> DEFINE s == sent_part(c, events, w)
           receives == ~s.closed /\ "readable" \in events
           t == IF receives THEN process_receive(s, r) ELSE s
           d == process(c, events, w, r)
<1>0. Steady(c)
  BY DEF Safe
<1>1. ASSUME NEW e, Idle(c, e) PROVE Flow(e, {}, dev)
  BY <1>1, IdleFlow
<1>2. CASE events \cap Interest = {}
  <2>1. d = close(c)
    BY <1>2 DEF process
  <2> HIDE DEF d
  <2>2. Idle(c, d) /\ SameOffer(c, d)
    BY <1>0, <2>1, CloseIdle
  <2> QED BY <1>1, <2>2 DEF d
<1>3. CASE events \cap Interest # {} /\ write_blocked(c, events, w)
  <2>1. d = c
    BY <1>3 DEF process
  <2> HIDE DEF d
  <2> QED BY <1>1, <2>1, IdleSame DEF d
<1>4. CASE events \cap Interest # {} /\ ~write_blocked(c, events, w)
  <2>1. d = IF (receives /\ r = WouldBlock) \/ t.closed \/ t.panic # "none"
            THEN t ELSE update_interests(t)
    BY <1>4 DEF process
  <2>2. Steady(s) /\ Calmer(c, s)
    BY <1>0, <1>4, SentPart
  <2>3. Idle(c, s) /\ SameOffer(c, s)
    BY <1>0, <1>4, SentPartIdle
  <2>4. r \in ReadResults(s)
    OBVIOUS
  <2> HIDE DEF s, d
  <2>5. /\ s.panic = "none" /\ s.packet_for_client_length = c.packet_for_client_length
        /\ s.state # "Init"
    BY <2>2 DEF Calmer, SamePending
  <2>6. Flow(s, events, dev)
    BY <2>3, IdleFlow
  <2>7. CASE ~receives
    <3>1. d \in {s, update_interests(s)}
      BY <2>1, <2>7
    <3>2. LET u == update_interests(s) IN Idle(s, u) /\ SameOffer(s, u)
      BY <2>2, InterestsIdle
    <3>3. Idle(s, d) /\ SameOffer(s, d)
      BY <3>1, <3>2, IdleSame
    <3>4. Idle(c, d) /\ SameOffer(c, d)
      BY <2>3, <3>3, IdleTwice, SameOfferTwice
    <3> QED BY <1>1, <3>4 DEF d
  <2>8. CASE receives
    <3>1. ~s.closed /\ "readable" \in events /\ t = process_receive(s, r)
      BY <2>8
    <3>2. is_connected(s) /\ s.packet_for_client_length = 0
      BY <2>5, <2>6, <3>1 DEF Flow, Reading
    <3>3. ~s.deferred => Numbered(s, 1)
      BY <2>5, <2>6, <3>1 DEF Flow, Numbering, Silent
    <3>4. Offered(dev, s.their_acknowledgement_number, s.client_window)
      BY <2>3, <3>2 DEF SameOffer
    <3>5. Core(s, dev)
      BY <2>6 DEF Flow
    <3>6. Mid(s, process_receive(s, r), dev)
      BY <2>2, <2>4, <3>2, <3>3, <3>4, <3>5, ReceiveFlow
    <3>7. /\ Steady(process_receive(s, r))
          /\ r = WouldBlock => \/ process_receive(s, r) = s
                               \/ process_receive(s, r).panic # "none"
      BY <2>2, <2>4, <2>5, <3>2, ProcessReceive
    <3>8. Mid(s, t, dev) /\ Steady(t) /\ (r = WouldBlock => t = s \/ t.panic # "none")
      BY <3>1, <3>6, <3>7
    <3> HIDE DEF t, receives
    <3>9. SameOffer(c, t)
      BY <2>3, <3>8, SameOfferTwice DEF Mid
    <3>10. CASE d = t /\ t = s
      BY <1>1, <2>3, <3>10 DEF d
    <3>11. CASE d = t /\ (t.panic # "none" \/ t.closed)
      <4>1. Silent(t, {})
        BY <3>11 DEF Silent
      <4>2. Flow(t, {}, dev)
        BY <3>8, <4>1 DEF Mid, Flow, Numbering, Reading
      <4> QED BY <3>9, <3>11, <4>2 DEF d
    <3>12. CASE d = update_interests(t) /\ ~t.closed
      <4>1. Idle(t, d) /\ SameOffer(t, d) /\ d.interests = wanted(d)
        BY <3>8, <3>12, InterestsIdle, ExactInterests
      <4>2. Core(d, dev)
        BY <3>8, <4>1, IdleCore DEF Mid
      <4>3. is_connected(d)
        BY <3>8, <4>1 DEF Mid, Idle
      <4>4. Twice(t) => Twice(d) /\ Silent(d, {})
        <5>1. Twice(t) => Numbered(d, 2) /\ is_closed(d)
          BY <4>1 DEF Twice, Idle
        <5>2. is_closed(d) => "readable" \notin wanted(d)
          BY DEF wanted, may_read, is_closed
        <5> QED BY <4>1, <5>1, <5>2 DEF Twice, Silent
      <4>5. Numbered(t, 1) => Numbered(d, 1)
        BY <4>1 DEF Idle
      <4>6. Numbering(d, {})
        BY <3>8, <4>1, <4>4, <4>5 DEF Numbering, Mid, Idle
      <4>7. SameOffer(c, d)
        BY <3>9, <4>1, SameOfferTwice
      <4> QED BY <4>2, <4>3, <4>6, <4>7 DEF Flow, Reading, d
    <3> QED BY <2>1, <2>8, <3>8, <3>10, <3>11, <3>12
  <2> QED BY <2>7, <2>8
<1> QED BY <1>2, <1>3, <1>4


-----------------------------------------------------------------------------
(***************************************************************************)
(* The client writes.                                                      *)
(***************************************************************************)
\* process_pending(): the deferred packet leaves with the length that was in
\* its header, so it still ends before the edge.
LEMMA PendingFlow ==
  ASSUME NEW c, Safe(c), c.panic = "none", NEW rd, NEW dev, Flow(c, rd, dev)
  PROVE  LET d == process_pending(c)
         IN Flow(d, rd, dev) /\ SameOffer(c, d)
<1> DEFINE p == deferred_packet(c)
           b == [c EXCEPT !.pending_packet_sources = @ - 1]
           q == send_to_client(b, p)
           d == process_pending(c)
<1>1. CASE c.pending_packet_sources = 0 \/ p.total_length > room(c)
  <2>1. d = c
    BY <1>1 DEF process_pending
  <2> QED BY <2>1, IdleSame
<1>2. CASE ~(c.pending_packet_sources = 0 \/ p.total_length > room(c))
  <2>1. c \in Connection /\ Steady(c) /\ c.channel \in Seq(ClientPacket)
    BY DEF Safe, Steady, Connection
  <2>2. c.packet_for_client_length # 0
    BY <1>2, <2>1 DEF Steady, Registered
  <2>3. c.deferred /\ is_connected(c) /\ InEdge(c.packetizer, dev)
    BY <2>2 DEF Flow, Numbering, Core, NoData, Bounded
  <2>4. d = IF q.panic # "none" THEN q ELSE next(q)
    BY <1>2 DEF process_pending
  <2>5. /\ p \in ClientPacket /\ p.flags = c.packetizer.flags /\ p.seq = c.packetizer.seq
        /\ p.total_length = c.packetizer.total_length
    BY <2>1 DEF deferred_packet, Connection, ClientPacket
  <2>6. InEdge(p, dev)
    BY <2>3, <2>5 DEF InEdge
  <2>7. b \in Connection
    <3>1. c.pending_packet_sources - 1 \in Nat
      BY <1>2, <2>1 DEF Connection
    <3> QED BY <2>1, <3>1 DEF Connection
  <2>8. /\ q.state = c.state /\ q.deferred = c.deferred
        /\ q.packetizer = c.packetizer
        /\ q.packet_for_client_length = c.packet_for_client_length
        /\ q.their_acknowledgement_number = c.their_acknowledgement_number
        /\ q.client_window = c.client_window
        /\ \/ q.channel = Append(c.channel, p)
           \/ q.channel = c.channel /\ q.panic # "none"
    BY <2>1 DEF send_to_client, Connection
  <2>9. q \in Connection
    BY <2>5, <2>7, SendToClient
  <2> HIDE DEF p, d, b
  <2>10. ASSUME NEW e, e.state = c.state, e.deferred, e.channel \in {c.channel, Append(c.channel, p)},
                e.packet_for_client_length # 0 => e.packetizer = c.packetizer,
                e.their_acknowledgement_number = c.their_acknowledgement_number,
                e.client_window = c.client_window
         PROVE  Flow(e, rd, dev) /\ SameOffer(c, e)
    <3>1. is_connected(e)
      BY <2>3, <2>10 DEF is_connected
    <3>2. \A i \in 1 .. Len(e.channel) : InEdge(e.channel[i], dev)
      <4>1. \A i \in 1 .. Len(e.channel) :
            (i \in 1 .. Len(c.channel) /\ e.channel[i] = c.channel[i]) \/ e.channel[i] = p
        <5>1. CASE e.channel = c.channel
          BY <5>1
        <5>2. CASE e.channel = Append(c.channel, p)
          BY <2>1, <2>5, <5>2, AppendProperties
        <5> QED BY <2>10, <5>1, <5>2
      <4> QED BY <2>6, <4>1 DEF Flow, Core, Bounded
    <3>3. Core(e, dev)
      BY <2>3, <2>10, <3>1, <3>2 DEF Core, Matching, NoData, Bounded
    <3> QED BY <2>3, <2>10, <3>1, <3>3 DEF Flow, Numbering, Reading, SameOffer
  <2>11. CASE q.panic # "none"
    <3>1. d = q
      BY <2>4, <2>11
    <3> QED BY <2>3, <2>8, <2>10, <3>1 DEF d
  <2>12. CASE q.panic = "none"
    <3> DEFINE x == [q EXCEPT !.sequence_number = wrapping_add(@, q.packet_for_client_length),
                              !.packet_for_client_length = 0,
                              !.packetizer = NoPacket]
    <3>1. d = update_interests(x)
      BY <2>4, <2>12 DEF next
    <3> HIDE DEF q
    <3>2. /\ x.channel = q.channel /\ x.packet_for_client_length = 0 /\ x.deferred = q.deferred
          /\ x.state = q.state
          /\ x.their_acknowledgement_number = q.their_acknowledgement_number
          /\ x.client_window = q.client_window
      BY <2>9 DEF Connection
    <3>3. x \in Connection
      <4>1. wrapping_add(q.sequence_number, q.packet_for_client_length) \in Seqno
        <5>1. q.sequence_number \in Int /\ q.packet_for_client_length \in Int
          BY <2>9, ConstantFacts DEF Connection, Seqno
        <5> QED BY <5>1, WrapType
      <4>2. NoPacket \in ClientPacket
        BY ConstantFacts DEF NoPacket, ClientPacket, Seqno
      <4> QED BY <2>9, <4>1, <4>2 DEF Connection
    <3> HIDE DEF x
    <3>4. /\ d.channel = x.channel /\ d.packet_for_client_length = x.packet_for_client_length
          /\ d.deferred = x.deferred /\ d.state = x.state
          /\ d.their_acknowledgement_number = x.their_acknowledgement_number
          /\ d.client_window = x.client_window
      BY <3>1, <3>3 DEF update_interests, Connection
    <3> QED BY <2>3, <2>8, <2>10, <2>12, <3>2, <3>4 DEF d
  <2> QED BY <2>11, <2>12
<1> QED BY <1>1, <1>2

\* The packets that left the channel, and the bytes of other connections, do not matter.
LEMMA DropIdle ==
  ASSUME NEW c, Steady(c), NEW n \in {0, 1}, n <= Len(c.channel), NEW f
  PROVE  LET d == [c EXCEPT !.channel = SubSeq(@, n + 1, Len(@)),
                            !.used = IF n = 0 THEN @ ELSE @ - c.channel[1].raw,
                            !.foreign = f]
         IN Idle(c, d) /\ SameOffer(c, d)
<1> DEFINE u == IF n = 0 THEN c.used ELSE c.used - c.channel[1].raw
           ch == SubSeq(c.channel, n + 1, Len(c.channel))
           d == [c EXCEPT !.channel = ch, !.used = u, !.foreign = f]
<1>1. c \in Connection /\ c.channel \in Seq(ClientPacket)
  BY DEF Steady, Connection
<1>2. \A i \in 1 .. Len(ch) : \E j \in 1 .. Len(c.channel) : ch[i] = c.channel[j]
  <2> DEFINE m == Len(c.channel)
  <2>1. CASE n = 0
    <3>1. \A s \in Seq(ClientPacket) : SubSeq(s, 1, Len(s)) = s
      OBVIOUS
    <3>2. ch = c.channel
      BY <1>1, <2>1, <3>1
    <3> QED BY <3>2
  <2>2. CASE n = 1
    <3>1. m \in Nat \ {0} /\ 2 \in 1 .. m + 1 /\ m \in 2 - 1 .. m
      BY <1>1, <2>2
    <3>2. /\ Len(SubSeq(c.channel, 2, m)) = m - 2 + 1
          /\ \A i \in 1 .. m - 2 + 1 : SubSeq(c.channel, 2, m)[i] = c.channel[2 + i - 1]
      BY <1>1, <3>1, SubSeqProperties
    <3>3. ch = SubSeq(c.channel, 2, m)
      BY <2>2
    <3> HIDE DEF m, ch
    <3>4. \A i \in 1 .. m - 2 + 1 : 2 + i - 1 \in 1 .. m
      BY <3>1
    <3> QED BY <3>2, <3>3, <3>4 DEF m
  <2> QED BY <2>1, <2>2
<1> HIDE DEF ch, u
<1>3. /\ d.channel = ch /\ d.isn = c.isn /\ d.taken = c.taken /\ d.deferred = c.deferred
      /\ d.sequence_number = c.sequence_number
      /\ d.fin_sequence_number = c.fin_sequence_number
      /\ d.packet_for_client_length = c.packet_for_client_length
      /\ d.packetizer = c.packetizer
      /\ d.closed = c.closed /\ d.interests = c.interests /\ d.state = c.state
      /\ d.their_acknowledgement_number = c.their_acknowledgement_number
      /\ d.client_window = c.client_window
  BY <1>1 DEF Connection
<1> HIDE DEF d
<1>4. Replies(c, d)
  BY <1>2, <1>3 DEF Replies
<1>5. \A m \in 1 .. 2 : Numbered(c, m) => Numbered(d, m)
  BY <1>3, NumberedFrame
<1>6. (is_connected(c) <=> is_connected(d)) /\ (is_closed(c) => is_closed(d))
  BY <1>3 DEF is_connected, is_closed
<1>7. Idle(c, d)
  BY <1>3, <1>4, <1>5, <1>6 DEF Idle
<1>8. SameOffer(c, d)
  BY <1>3, <1>6 DEF SameOffer
<1> QED BY <1>7, <1>8 DEF d, ch, u

\* Nor does the client's own end.
LEMMA LeftIdle ==
  ASSUME NEW c \in Connection, NEW f
  PROVE  /\ Idle(c, [c EXCEPT !.foreign = f]) /\ SameOffer(c, [c EXCEPT !.foreign = f])
         /\ LET d == [close(c) EXCEPT !.client_closed = TRUE] IN Idle(c, d) /\ SameOffer(c, d)
<1> DEFINE d == [c EXCEPT !.foreign = f]
           e == [close(c) EXCEPT !.client_closed = TRUE]
<1>1. /\ d.isn = c.isn /\ d.taken = c.taken /\ d.deferred = c.deferred
      /\ d.sequence_number = c.sequence_number
      /\ d.fin_sequence_number = c.fin_sequence_number
      /\ d.packet_for_client_length = c.packet_for_client_length
      /\ d.channel = c.channel /\ d.packetizer = c.packetizer
      /\ d.closed = c.closed /\ d.interests = c.interests /\ d.state = c.state
      /\ d.their_acknowledgement_number = c.their_acknowledgement_number
      /\ d.client_window = c.client_window
  BY DEF Connection
<1>2. /\ e.isn = c.isn /\ e.taken = c.taken /\ e.deferred = c.deferred
      /\ e.sequence_number = c.sequence_number
      /\ e.fin_sequence_number = c.fin_sequence_number
      /\ e.packet_for_client_length = c.packet_for_client_length
      /\ e.channel = c.channel /\ e.packetizer = c.packetizer
      /\ e.closed /\ e.interests = {} /\ e.state = c.state
      /\ e.their_acknowledgement_number = c.their_acknowledgement_number
      /\ e.client_window = c.client_window
  BY DEF Connection, close
<1> HIDE DEF d, e
<1>3. Idle(c, d) /\ Idle(c, e)
  BY <1>1, <1>2, IdleFrame
<1>4. SameOffer(c, d) /\ SameOffer(c, e)
  BY <1>1, <1>2 DEF SameOffer, is_connected
<1> QED BY <1>3, <1>4 DEF d, e

-----------------------------------------------------------------------------
(***************************************************************************)
(* The invariant of the server's stream: what the connection took, what it *)
(* may read, and the windows the device announced, in its packets that are *)
(* on their way as well.  Before the SYN-ACK the device has announced none *)
(* for the connection's numbers, and nothing of it ends the handshake.     *)
(***************************************************************************)
Offers ==
  /\ is_connected(conn) =>
       Offered(device, conn.their_acknowledgement_number, conn.client_window)
  /\ \A i \in 1 .. Len(from_device) :
       \/ "SYN" \in from_device[i].flags
       \/ Offered(device, from_device[i].ack, from_device[i].window)

Started == device.phase \in {"closed", "syn"} => ~is_connected(conn) /\ AllSyn

Flows == Link /\ Flow(conn, ready, device) /\ Offers /\ Started

\* The initial states.
LEMMA InitFlows == Init => Flows
<1> SUFFICES ASSUME Init PROVE Flows
  OBVIOUS
<1>1. Link
  BY InitLink
<1>2. conn = create /\ ready = {} /\ from_device = << >>
  BY DEF Init, ConnInit
<1>3. /\ conn.state = "Init" /\ conn.channel = << >> /\ conn.packet_for_client_length = 0
      /\ conn.taken = 0 /\ conn.fin_sequence_number = NoSeqno /\ conn.interests = {"writable"}
  BY <1>2 DEF create
<1>4. ~is_connected(conn) /\ 1 .. Len(conn.channel) = {} /\ 1 .. Len(from_device) = {}
  BY <1>2, <1>3 DEF is_connected
<1>5. Core(conn, device)
  <2>1. Matching(conn)
    BY <1>4 DEF Matching
  <2>2. NoData(conn) /\ Bounded(conn, device)
    BY <1>3, <1>4 DEF NoData, Bounded
  <2> QED BY <2>1, <2>2 DEF Core
<1>6. Numbering(conn, ready)
  BY <1>3 DEF Numbering, Numbered
<1>7. Reading(conn, ready)
  BY <1>2, <1>3 DEF Reading
<1>8. Offers /\ Started
  BY <1>4 DEF Offers, Started, AllSyn
<1> QED BY <1>1, <1>5, <1>6, <1>7, <1>8 DEF Flows, Flow

\* A device whose window only grows.
LEMMA EdgeGrows ==
  ASSUME NEW d \in Device, NEW e \in Device, e.irs = d.irs, d.edge <= e.edge
  PROVE  /\ \A a, n : n \in Nat /\ Offered(d, a, n) => Offered(e, a, n)
         /\ \A p \in ClientPacket : InEdge(p, d) => InEdge(p, e)
         /\ \A c, rd : c \in Connection /\ Flow(c, rd, d) => Flow(c, rd, e)
<1>0. d.edge \in Nat /\ e.edge \in Nat /\ Headers \in Nat
  BY ConstantFacts DEF Device
<1>1. ASSUME NEW a, NEW n \in Nat, Offered(d, a, n) PROVE Offered(e, a, n)
  <2>1. PICK R \in Nat : a = wrapping_add(d.irs, R) /\ (n = 0 \/ R + n <= d.edge)
    BY <1>1 DEF Offered
  <2>2. n = 0 \/ R + n <= e.edge
    BY <1>0, <2>1
  <2> QED BY <2>1, <2>2 DEF Offered
<1>2. ASSUME NEW p \in ClientPacket, InEdge(p, d) PROVE InEdge(p, e)
  <2> SUFFICES ASSUME "PSH" \in p.flags
               PROVE  /\ Headers <= p.total_length
                      /\ \E x \in Nat : /\ p.seq = wrapping_add(e.irs, x)
                                        /\ x + (p.total_length - Headers) <= e.edge
    BY DEF InEdge
  <2>1. PICK x \in Nat : /\ Headers <= p.total_length /\ p.seq = wrapping_add(d.irs, x)
                         /\ x + (p.total_length - Headers) <= d.edge
    BY <1>2 DEF InEdge
  <2>2. p.total_length \in Nat
    BY DEF ClientPacket
  <2>3. x + (p.total_length - Headers) <= e.edge
    BY <1>0, <2>1, <2>2
  <2> QED BY <2>1, <2>3
<1>3. ASSUME NEW c \in Connection, NEW rd, Flow(c, rd, d) PROVE Flow(c, rd, e)
  <2>1. /\ \A i \in 1 .. Len(c.channel) : c.channel[i] \in ClientPacket
        /\ c.packetizer \in ClientPacket
    BY DEF Connection
  <2>2. Bounded(c, e)
    BY <1>2, <1>3, <2>1 DEF Flow, Core, Bounded
  <2> QED BY <1>3, <2>2 DEF Flow, Core
<1> QED BY <1>1, <1>2, <1>3

\* What a step of the device changes of all that: it announces the window it has.
LEMMA DeviceAnnounces ==
  ASSUME Link, DeviceNext
  PROVE  /\ conn' = conn /\ ready' = ready /\ device'.irs = device.irs
         /\ device.edge <= device'.edge
         /\ device'.phase \in {"closed", "syn"} => device.phase \in {"closed", "syn"}
         /\ \/ from_device' = from_device
            \/ \E p : /\ from_device' = Append(from_device, p)
                      /\ p.ack = wrapping_add(device.irs, device.rcv) /\ p.window = Window
                      /\ "SYN" \in p.flags \/ device'.phase \notin {"closed", "syn"}
<1>0. device \in Device /\ device.edge \in Nat /\ device.edge <= device.edge
  BY DEF Link, TypeOK, Device
<1>1. ASSUME NEW flags, NEW from, NEW data, Emit(flags, from, data),
             "SYN" \in flags \/ device'.phase \notin {"closed", "syn"}
      PROVE  /\ conn' = conn /\ ready' = ready
             /\ \E p : /\ from_device' = Append(from_device, p)
                       /\ p.ack = wrapping_add(device.irs, device.rcv) /\ p.window = Window
                       /\ "SYN" \in p.flags \/ device'.phase \notin {"closed", "syn"}
  <2> DEFINE p == Segment(flags, from, data)
  <2>1. from_device' = Append(from_device, p)
    BY <1>1 DEF Emit, Segment
  <2>2. p.ack = wrapping_add(device.irs, device.rcv) /\ p.window = Window /\ p.flags = flags
    BY DEF Segment
  <2> HIDE DEF p
  <2> QED BY <1>1, <2>1, <2>2 DEF Emit
<1>2. CASE DeviceConnect
  <2>1. device.phase = "closed" /\ Emit({"SYN"}, 0, << >>) /\ device' = [device EXCEPT !.phase = "syn"]
    BY <1>2 DEF DeviceConnect
  <2>2. device'.irs = device.irs /\ device'.edge = device.edge
    BY <1>0, <2>1 DEF Device
  <2> QED BY <1>0, <1>1, <2>1, <2>2
<1>3. CASE DeviceResendSyn
  BY <1>0, <1>1, <1>3 DEF DeviceResendSyn
<1>4. CASE DeviceResend
  <2>1. /\ device.phase = "open" /\ device' = [device EXCEPT !.owes_ack = FALSE]
        /\ \E flags, from, data : Emit(flags, from, data)
    BY <1>4 DEF DeviceResend
  <2>2. device'.irs = device.irs /\ device'.edge = device.edge /\ device'.phase = "open"
    BY <1>0, <2>1 DEF Device
  <2> QED BY <1>0, <1>1, <2>1, <2>2
<1>5. CASE DeviceAck
  <2>1. /\ device' = [device EXCEPT !.owes_ack = FALSE, !.phase = "open"]
        /\ \E flags, from, data : Emit(flags, from, data)
    BY <1>5 DEF DeviceAck
  <2>2. device'.irs = device.irs /\ device'.edge = device.edge /\ device'.phase = "open"
    BY <1>0, <2>1 DEF Device
  <2> QED BY <1>0, <1>1, <2>1, <2>2
<1>6. CASE DeviceRead
  <2>1. /\ device.phase = "open" /\ device.edge < device.rcv + MaxWindow
        /\ device' = [device EXCEPT !.edge = device.rcv + MaxWindow, !.owes_ack = TRUE]
        /\ conn' = conn /\ ready' = ready /\ from_device' = from_device
    BY <1>6 DEF DeviceRead
  <2>2. /\ device'.irs = device.irs /\ device'.edge = device.rcv + MaxWindow
        /\ device'.phase = "open"
    BY <1>0, <2>1 DEF Device
  <2>3. device.edge <= device'.edge
    BY <1>0, <2>1, <2>2, ConstantFacts DEF Device
  <2> QED BY <2>1, <2>2, <2>3
<1>7. CASE DeviceReset
  <2>1. /\ device' = [device EXCEPT !.phase = "reset"]
        /\ \E flags, from, data : Emit(flags, from, data)
    BY <1>7 DEF DeviceReset
  <2>2. device'.irs = device.irs /\ device'.edge = device.edge /\ device'.phase = "reset"
    BY <1>0, <2>1 DEF Device
  <2> QED BY <1>0, <1>1, <2>1, <2>2
<1>8. ASSUME NEW n \in 0 .. DeviceBytes, NEW fin \in BOOLEAN, DeviceSend(n, fin)
      PROVE  /\ device' = [device EXCEPT !.nxt = @ + n, !.fin = fin, !.owes_ack = FALSE, !.phase = "open"]
             /\ \E flags, from, data : Emit(flags, from, data)
  BY <1>8 DEF DeviceSend
<1>9. CASE \E n \in 0 .. DeviceBytes, fin \in BOOLEAN : DeviceSend(n, fin)
  <2>1. PICK n \in 0 .. DeviceBytes, fin \in BOOLEAN : DeviceSend(n, fin)
    BY <1>9
  <2>2. device'.irs = device.irs /\ device'.edge = device.edge /\ device'.phase = "open"
    BY <1>0, <1>8, <2>1, ZenonT(40) DEF Device
  <2>3. \E flags, from, data : Emit(flags, from, data)
    BY <1>8, <2>1
  <2> QED BY <1>0, <1>1, <2>2, <2>3
<1> QED BY <1>2, <1>3, <1>4, <1>5, <1>6, <1>7, <1>9 DEF DeviceNext

\* The window announced ends at the edge.
LEMMA WindowOffered ==
  ASSUME device \in Device
  PROVE  Offered(device, wrapping_add(device.irs, device.rcv), Window)
<1>1. device.rcv \in Nat /\ device.edge \in Nat
  BY DEF Device
<1>2. Window = 0 \/ device.rcv + Window <= device.edge
  BY <1>1 DEF Window
<1> QED BY <1>1, <1>2 DEF Offered

\* A longer queue holds the same packets and the new one.
LEMMA OneMore ==
  ASSUME NEW s \in Seq(DevicePacket), NEW p
  PROVE  \A i \in 1 .. Len(Append(s, p)) :
           (i \in 1 .. Len(s) /\ Append(s, p)[i] = s[i]) \/ Append(s, p)[i] = p
<1>1. s \in Seq(DevicePacket \cup {p}) /\ p \in DevicePacket \cup {p}
  OBVIOUS
<1> HIDE DEF DevicePacket
<1> QED BY <1>1, AppendProperties

\* Whatever the device does.
LEMMA DeviceFlows ==
  ASSUME Flows, DeviceNext
  PROVE  Flows'
<1>1. Link /\ Link' /\ device \in Device /\ device' \in Device /\ from_device \in Seq(DevicePacket)
      /\ conn \in Connection
  <2>1. Link'
    BY DeviceLink DEF Flows
  <2> QED BY <2>1 DEF Flows, Link, TypeOK, ConnTypeOK
<1>2. /\ conn' = conn /\ ready' = ready /\ device'.irs = device.irs
      /\ device.edge <= device'.edge
      /\ device'.phase \in {"closed", "syn"} => device.phase \in {"closed", "syn"}
      /\ \/ from_device' = from_device
         \/ \E p : /\ from_device' = Append(from_device, p)
                   /\ p.ack = wrapping_add(device.irs, device.rcv) /\ p.window = Window
                   /\ "SYN" \in p.flags \/ device'.phase \notin {"closed", "syn"}
  BY <1>1, DeviceAnnounces
<1>3. /\ \A a, n : n \in Nat /\ Offered(device, a, n) => Offered(device', a, n)
      /\ \A c, rd : c \in Connection /\ Flow(c, rd, device) => Flow(c, rd, device')
  BY <1>1, <1>2, EdgeGrows
<1>4. Flow(conn, ready, device')
  BY <1>1, <1>3 DEF Flows
<1>5. Flow(conn, ready, device)'
  BY <1>2, <1>4
<1>6. /\ conn.client_window \in Nat
      /\ \A i \in 1 .. Len(from_device) : from_device[i].window \in Nat
  <2>1. \A i \in 1 .. Len(from_device) : from_device[i] \in DevicePacket
    BY <1>1
  <2>2. MaxWindow \in Nat /\ \A p \in DevicePacket : p.window \in 0 .. MaxWindow
    BY ConstantFacts DEF DevicePacket
  <2>3. conn.client_window \in 0 .. MaxWindow
    BY <1>1 DEF Connection
  <2> QED BY <2>1, <2>2, <2>3
<1>7. is_connected(conn) =>
        Offered(device', conn.their_acknowledgement_number, conn.client_window)
  BY <1>3, <1>6 DEF Flows, Offers
<1>8. \A i \in 1 .. Len(from_device) :
        "SYN" \in from_device[i].flags \/ Offered(device', from_device[i].ack, from_device[i].window)
  BY <1>3, <1>6 DEF Flows, Offers
<1>9. CASE from_device' = from_device
  <2>1. Offers'
    BY <1>2, <1>7, <1>8, <1>9 DEF Offers
  <2>2. Started'
    BY <1>2, <1>9 DEF Flows, Started, AllSyn
  <2> QED BY <1>1, <1>5, <2>1, <2>2 DEF Flows
<1>10. CASE from_device' # from_device
  <2>1. PICK p : /\ from_device' = Append(from_device, p)
                 /\ p.ack = wrapping_add(device.irs, device.rcv) /\ p.window = Window
                 /\ "SYN" \in p.flags \/ device'.phase \notin {"closed", "syn"}
    BY <1>2, <1>10
  <2>2. \A i \in 1 .. Len(from_device') :
          (i \in 1 .. Len(from_device) /\ from_device'[i] = from_device[i]) \/ from_device'[i] = p
    BY <1>1, <2>1, OneMore
  <2>3. Window \in Nat
    BY <1>1, ConstantFacts DEF Window, Device
  <2>4. Offered(device', p.ack, p.window)
    BY <1>1, <1>3, <2>1, <2>3, WindowOffered
  <2>5. \A i \in 1 .. Len(from_device') :
          "SYN" \in from_device'[i].flags \/ Offered(device', from_device'[i].ack, from_device'[i].window)
    BY <1>8, <2>2, <2>4
  <2>6. Offers'
    BY <1>2, <1>7, <2>5 DEF Offers
  <2>7. Started'
    <3> SUFFICES ASSUME device'.phase \in {"closed", "syn"} PROVE ~is_connected(conn) /\ AllSyn'
      BY <1>2 DEF Started
    <3>1. ~is_connected(conn) /\ AllSyn /\ "SYN" \in p.flags
      BY <1>2, <2>1 DEF Flows, Started
    <3> QED BY <2>2, <3>1 DEF AllSyn
  <2> QED BY <1>1, <1>5, <2>6, <2>7 DEF Flows
<1> QED BY <1>9, <1>10


\* A packet of the relay moves neither the edge nor, once the device has an
\* answer to its SYN, the first sequence number.
LEMMA ReceivedEdge ==
  ASSUME NEW d \in Device, NEW p
  PROVE  LET e == Received(d, p)
         IN /\ e.edge = d.edge
            /\ e.irs = d.irs \/ (d.phase = "syn" /\ e.phase = "handshake")
            /\ e.phase \in {"closed", "syn"} => d.phase \in {"closed", "syn"}
<1> DEFINE e == Received(d, p)
<1>1. LET x == Accepted(d, p) IN x.edge = d.edge /\ x.irs = d.irs /\ x.phase = d.phase
  BY DEF Accepted, Device
<1>2. CASE e = d
  BY <1>2
<1>3. CASE e = [d EXCEPT !.phase = "reset"]
  BY <1>3 DEF Device
<1>4. CASE e = [d EXCEPT !.phase = "handshake", !.irs = p.seq, !.owes_ack = TRUE] /\ d.phase = "syn"
  BY <1>4 DEF Device
<1>5. CASE e = Accepted(d, p)
  <2> HIDE DEF e
  <2> QED BY <1>1, <1>5 DEF e
<1> QED BY <1>2, <1>3, <1>4, <1>5 DEF Received

\* A socket event.
LEMMA OnReadyFlows ==
  ASSUME Flows, Link', OnReady
  PROVE  Flows'
<1>0. /\ IInv /\ Safe(conn) /\ device \in Device /\ Flow(conn, ready, device) /\ Offers /\ Started
  BY DEF Flows, Link, TypeOK, IInv
<1>1. PICK w \in WriteResults(conn), r \in {WouldBlock, Error} \cup 0 .. ServerBytes : on_ready(w, r)
  BY DEF OnReady
<1>2. /\ r \in ReadResults(sent_part(conn, ready, w)) /\ ready # {} /\ ready' = {}
      /\ conn.panic = "none"
      /\ conn' = IF conn.closed THEN conn ELSE process(conn, ready, w, r)
  BY <1>1 DEF on_ready, Running
<1>3. conn.state # "Init"
  BY <1>0, <1>2 DEF IInv
<1>4. Flow(conn', {}, device) /\ SameOffer(conn, conn')
  <2>1. CASE conn.closed
    <3>1. conn' = conn
      BY <1>2, <2>1
    <3> QED BY <1>0, <1>2, <3>1, IdleSame, IdleFlow
  <2>2. CASE ~conn.closed
    <3>1. "readable" \in ready => conn.packet_for_client_length = 0
      BY <1>0, <1>2, <2>2 DEF IInv
    <3>2. is_connected(conn) =>
            Offered(device, conn.their_acknowledgement_number, conn.client_window)
      BY <1>0 DEF Offers
    <3>3. LET d == process(conn, ready, w, r) IN Flow(d, {}, device) /\ SameOffer(conn, d)
      BY <1>0, <1>2, <1>3, <2>2, <3>1, <3>2, ProcessFlow
    <3> QED BY <1>2, <2>2, <3>3
  <2> QED BY <2>1, <2>2
<1>5. device' = device /\ from_device' = from_device
  BY DEF OnReady
<1>6. Offers'
  BY <1>0, <1>4, <1>5 DEF Offers, SameOffer
<1>7. Started'
  BY <1>0, <1>4, <1>5 DEF Started, SameOffer, AllSyn
<1> QED BY <1>2, <1>4, <1>5, <1>6, <1>7 DEF Flows

\* The relay handles a packet of the device.
LEMMA PushFlows ==
  ASSUME Flows, Link', PushPacket
  PROVE  Flows'
<1> DEFINE p == from_device[1]
           n == Len(from_device)
<1>0. /\ IInv /\ Steady(conn) /\ device \in Device /\ from_device \in Seq(DevicePacket)
      /\ Flow(conn, ready, device) /\ Offers /\ Started /\ Unanswered
  BY DEF Flows, Link, TypeOK, IInv, Safe
<1>1. PICK isn \in RelayIsns : push_packet(p, isn)
  BY <1>0, RemainingPackets DEF PushPacket
<1>2. /\ isn \in Seqno /\ p \in DevicePacket /\ n \in Nat \ {0} /\ 1 \in 1 .. n
      /\ device' = device
      /\ Len(from_device') = n - 1
      /\ \A i \in 1 .. n - 1 : from_device'[i] = from_device[i + 1] /\ i + 1 \in 1 .. n
  BY <1>0, RemainingPackets, TunnelFacts DEF PushPacket
<1>3. /\ ready' = ready /\ ~conn.closed /\ conn.panic = "none"
      /\ conn' = send_to_network(conn, p, isn)
  BY <1>1 DEF push_packet, Running
<1>4. /\ "SYN" \in p.flags \/ Offered(device, p.ack, p.window)
      /\ AllSyn => "SYN" \in p.flags /\ AllSyn'
  BY <1>0, <1>2 DEF Offers, AllSyn
<1>5. \A i \in 1 .. n - 1 :
        "SYN" \in from_device'[i].flags \/ Offered(device, from_device'[i].ack, from_device'[i].window)
  BY <1>0, <1>2 DEF Offers
<1> HIDE DEF p, n
<1>6. conn.state = "Init" => conn.channel = << >>
  BY <1>0, <1>3 DEF Unanswered
<1>7. Flow(conn', ready, device) /\ Heard(conn, p, conn')
  BY <1>0, <1>2, <1>3, <1>6, PushFlow
<1>8. is_connected(conn') =>
        Offered(device, conn'.their_acknowledgement_number, conn'.client_window)
  BY <1>0, <1>4, <1>7 DEF Heard, SameOffer, Offer, Offers
<1>9. Offers'
  BY <1>2, <1>5, <1>8 DEF Offers
<1>10. Started'
  BY <1>0, <1>2, <1>4, <1>7 DEF Started, Heard, SameOffer
<1> QED BY <1>2, <1>3, <1>7, <1>9, <1>10 DEF Flows

\* The client writes: the device may get the answer to its SYN, and nothing
\* that it announced before counts any more.
LEMMA ClientSendFlows ==
  ASSUME Flows, Link', ClientSend
  PROVE  Flows'
<1>0. /\ Safe(conn) /\ Steady(conn) /\ device \in Device /\ Flow(conn, ready, device)
      /\ Offers /\ Started /\ conn' \in Connection /\ device' \in Device
  BY DEF Flows, Link, TypeOK, ConnTypeOK, IInv, Safe
<1>1. PICK n \in {0, 1}, f \in {0, conn.foreign} :
        /\ client_send(n, f)
        /\ device' = IF n = 0 THEN device ELSE Received(device, conn.channel[1])
        /\ from_device' = from_device
  BY DEF ClientSend
<1> DEFINE d == [conn EXCEPT !.channel = SubSeq(@, n + 1, Len(@)),
                             !.used = IF n = 0 THEN @ ELSE @ - conn.channel[1].raw,
                             !.foreign = f]
<1>2. /\ f \in Nat /\ ready' = ready /\ conn.panic = "none" /\ n <= Len(conn.channel)
      /\ conn' = process_pending(d)
  <2>1. f \in Nat
    <3>1. conn.foreign \in Nat
      BY <1>0 DEF Steady, Connection
    <3> QED BY <1>1, <3>1
  <2>2. ready' = ready /\ conn.panic = "none" /\ n <= Len(conn.channel)
    BY <1>1 DEF client_send, Running
  <2>3. conn' = process_pending(d)
    BY <1>1 DEF client_send
  <2> QED BY <2>1, <2>2, <2>3
<1>3. Safe(d) /\ d.panic = "none"
  <2>1. n <= Len(conn.channel) /\ f \in Nat /\ conn.panic = "none" /\ Safe(conn)
    BY <1>0, <1>2
  <2>2. Safe(d) /\ SameBut(conn, d) /\ d.panic = "none"
    BY <2>1, ClientSendSafe, ZenonT(60)
  <2> QED BY <2>2
<1>4. Idle(conn, d) /\ SameOffer(conn, d)
  BY <1>0, <1>1, <1>2, DropIdle
<1> HIDE DEF d
<1>5. Flow(d, ready, device)
  BY <1>0, <1>2, <1>4, IdleFlow
<1>6. Flow(conn', ready, device) /\ SameOffer(conn, conn')
  <2>1. LET e == process_pending(d) IN Flow(e, ready, device) /\ SameOffer(d, e)
    BY <1>3, <1>5, PendingFlow
  <2> QED BY <1>2, <1>4, <2>1, SameOfferTwice
<1>7. /\ device'.edge = device.edge
      /\ device'.irs = device.irs \/ (device.phase = "syn" /\ device'.phase = "handshake")
      /\ device'.phase \in {"closed", "syn"} => device.phase \in {"closed", "syn"}
  <2>1. CASE n = 0
    BY <1>1, <2>1
  <2>2. CASE n = 1
    <3> DEFINE p == conn.channel[1]
    <3>1. device' = Received(device, p)
      BY <1>1, <2>2
    <3> HIDE DEF p
    <3> QED BY <1>0, <3>1, ReceivedEdge
  <2> QED BY <2>1, <2>2
<1>8. Started'
  BY <1>0, <1>1, <1>6, <1>7 DEF Started, SameOffer, AllSyn
<1>9. CASE device'.irs = device.irs
  <2>1. device.edge \in Nat
    BY <1>0 DEF Device
  <2>2. /\ \A a, m : m \in Nat /\ Offered(device, a, m) => Offered(device', a, m)
        /\ \A c, rd : c \in Connection /\ Flow(c, rd, device) => Flow(c, rd, device')
    BY <1>0, <1>7, <1>9, <2>1, EdgeGrows
  <2>3. Flow(conn', ready, device')
    BY <1>0, <1>6, <2>2
  <2>4. Offers'
    <3>1. \A a, m : Offered(device, a, m) => Offered(device', a, m)
      BY <1>7, <1>9 DEF Offered
    <3>2. is_connected(conn') =>
            Offered(device', conn'.their_acknowledgement_number, conn'.client_window)
      BY <1>0, <1>6, <3>1 DEF Offers, SameOffer
    <3>3. \A i \in 1 .. Len(from_device) :
             \/ "SYN" \in from_device[i].flags
             \/ Offered(device', from_device[i].ack, from_device[i].window)
      BY <1>0, <3>1 DEF Offers
    <3> QED BY <1>1, <3>2, <3>3 DEF Offers
  <2> QED BY <1>2, <1>8, <2>3, <2>4 DEF Flows
<1>10. CASE device.phase = "syn"
  <2>1. ~is_connected(conn') /\ AllSyn
    BY <1>0, <1>6, <1>10 DEF Started, SameOffer
  <2>2. Bounded(conn', device')
    BY <1>6, <2>1 DEF Flow, Core, NoData, Bounded, InEdge
  <2>3. Flow(conn', ready, device')
    BY <1>6, <2>2 DEF Flow, Core
  <2>4. Offers'
    BY <1>1, <2>1 DEF Offers, AllSyn
  <2> QED BY <1>2, <1>8, <2>3, <2>4 DEF Flows
<1> QED BY <1>7, <1>9, <1>10

\* A new batch: the interests at that time are the readiness.
LEMMA PollFlows ==
  ASSUME Flows, Link', Poll
  PROVE  Flows'
<1>1. PICK events \in SUBSET Readiness : poll(events)
  BY DEF Poll
<1>2. /\ conn' = conn /\ ready' = events /\ (events \subseteq conn.interests \/ events = {"hup"})
      /\ device' = device /\ from_device' = from_device
  BY <1>1 DEF Poll, poll
<1>3. "readable" \in conn.interests \cup events => "readable" \in conn.interests \cup ready
  BY <1>2
<1>4. Flow(conn, events, device)
  BY <1>3 DEF Flows, Flow, Numbering, Silent, Reading
<1>5. Offers' /\ Started'
  BY <1>2 DEF Flows, Offers, Started, AllSyn
<1> QED BY <1>2, <1>4, <1>5 DEF Flows

\* Whatever the relay does.
LEMMA RelayFlows == Flows /\ RelayNext => Flows'
<1> SUFFICES ASSUME Flows, RelayNext PROVE Flows'
  OBVIOUS
<1>0. /\ Link /\ conn \in Connection /\ Flow(conn, ready, device) /\ Offers /\ Started
  BY DEF Flows, Link, TypeOK, ConnTypeOK
<1>1. Link'
  BY <1>0, RelayLink
<1>2. ASSUME Idle(conn, conn'), SameOffer(conn, conn'), conn.panic = "none", ready' = ready,
             device' = device, from_device' = from_device
      PROVE  Flows'
  <2>1. Flow(conn', ready, device)
    BY <1>0, <1>2, IdleFlow
  <2>2. Offers'
    BY <1>0, <1>2 DEF Offers, SameOffer
  <2>3. Started'
    BY <1>0, <1>2 DEF Started, SameOffer, AllSyn
  <2> QED BY <1>1, <1>2, <2>1, <2>2, <2>3 DEF Flows
<1>3. CASE Poll
  BY <1>1, <1>3, PollFlows
<1>4. CASE OnReady
  BY <1>1, <1>4, OnReadyFlows
<1>5. CASE PushPacket
  BY <1>1, <1>5, PushFlows
<1>6. CASE ClientSend
  BY <1>1, <1>6, ClientSendFlows
<1>7. CASE Fill
  <2>1. /\ conn' = [conn EXCEPT !.foreign = ClientCapacity - conn.used] /\ ready' = ready
        /\ device' = device /\ from_device' = from_device /\ conn.panic = "none"
    BY <1>7 DEF Fill, fill, Running
  <2> QED BY <1>0, <1>2, <2>1, LeftIdle
<1>8. CASE ClientClose
  <2>1. /\ conn' = [close(conn) EXCEPT !.client_closed = TRUE] /\ ready' = ready
        /\ device' = device /\ from_device' = from_device /\ conn.panic = "none"
    BY <1>8 DEF ClientClose, client_close, Running
  <2>2. LET d == [close(conn) EXCEPT !.client_closed = TRUE] IN Idle(conn, d) /\ SameOffer(conn, d)
    BY <1>0, LeftIdle
  <2> QED BY <1>2, <2>1, <2>2
<1> QED BY <1>3, <1>4, <1>5, <1>6, <1>7, <1>8 DEF RelayNext

\* The invariant of the server's stream.
LEMMA NextFlows == Flows /\ [Next]_vars => Flows'
<1> SUFFICES ASSUME Flows, [Next]_vars PROVE Flows'
  OBVIOUS
<1>1. Link /\ Link'
  BY NextLink DEF Flows
<1>2. CASE DeviceNext
  BY <1>2, DeviceFlows
<1>3. CASE ServerNext \/ UNCHANGED vars
  <2>1. conn' = conn /\ ready' = ready /\ device' = device /\ from_device' = from_device
    BY <1>1, <1>3, ServerFrame DEF vars
  <2> QED BY <1>1, <2>1 DEF Flows, Offers, Started, AllSyn
<1>4. CASE RelayNext
  BY <1>4, RelayFlows
<1> QED BY <1>2, <1>3, <1>4 DEF Next, DeviceNext, ServerNext, RelayNext

\* A remainder is not more than the number.
LEMMA ModLess ==
  ASSUME NEW n \in Nat \ {0}, NEW a \in Nat
  PROVE  a % n <= a
<1>1. CASE a < n
  BY <1>1, ModSmall
<1>2. CASE n <= a
  <2>1. a % n \in 0 .. n - 1
    BY ModRange
  <2> QED BY <1>2, <2>1
<1> QED BY <1>1, <1>2

\* Positions of the server's stream are those of the segments.
LEMMA FlowMatches ==
  ASSUME Flow(conn, ready, device)
  PROVE  SegmentsMatch
  BY DEF Flow, Core, Matching, Shift, Count, SegmentsMatch

\* The window is respected.
LEMMA FlowRespects ==
  ASSUME Flow(conn, ready, device), device \in Device, conn \in Connection
  PROVE  WindowRespected
<1> SUFFICES ASSUME NEW i \in 1 .. Len(conn.channel), "PSH" \in conn.channel[i].flags
             PROVE  (conn.channel[i].seq + conn.channel[i].total_length - Headers - device.irs)
                       % SeqSpace <= device.edge
  BY DEF WindowRespected
<1> DEFINE s == conn.channel[i].seq
           len == conn.channel[i].total_length
           irs == device.irs
           edge == device.edge
           M == SeqSpace
<1>1. PICK x \in Nat : Headers <= len /\ s = wrapping_add(irs, x) /\ x + (len - Headers) <= edge
  BY DEF Flow, Core, Bounded, InEdge
<1>2. conn.channel[i] \in ClientPacket
  BY DEF Connection
<1>3. /\ len \in Nat /\ irs \in Nat /\ edge \in Nat /\ M \in Nat \ {0} /\ Headers \in Nat
  BY <1>2, ConstantFacts, SMTT(40) DEF ClientPacket, Device, Seqno
<1>4. s = (irs + x) % M
  BY <1>1 DEF wrapping_add
<1> HIDE DEF s, len, irs, edge, M
<1> DEFINE y == len - Headers - irs
           z == x + (len - Headers)
<1>5. y \in Int /\ irs + x \in Int /\ z \in Nat /\ z <= edge
  BY <1>1, <1>3
<1>6. (irs + x) + y = z
  BY <1>3
<1>7. s \in Int
  BY <1>3, <1>4, <1>5, ModRange
<1>8. s + len - Headers - irs = s + y
  BY <1>3, <1>7
<1> HIDE DEF y
<1>9. (s + y) % M = ((irs + x) + y) % M
  BY <1>3, <1>4, <1>5, ModPlus
<1> HIDE DEF z
<1>10. (s + y) % M = z % M
  BY <1>6, <1>9
<1>11. z % M <= z /\ z % M \in Int
  <2>1. z % M <= z
    BY <1>3, <1>5, ModLess
  <2>2. z \in Int
    BY <1>5
  <2>3. z % M \in 0 .. (M - 1)
    BY <1>3, <2>2, ModRange
  <2> QED BY <1>3, <2>1, <2>3
<1>12. z % M <= edge
  BY <1>3, <1>5, <1>11
<1>13. (s + len - Headers - irs) % M <= edge
  BY <1>8, <1>10, <1>12
<1> QED BY <1>13 DEF s, len, irs, edge, M

-----------------------------------------------------------------------------
\* As long as no packet had to wait for room, the header of every segment
\* tells its length, and its payload is the part of the server's stream that
\* belongs at its sequence number (one further once the relay sent a FIN).
THEOREM SegmentsStandInPlace == Spec => []SegmentsMatch
<1>1. Flows => SegmentsMatch
  BY FlowMatches DEF Flows
<1> QED BY <1>1, InitFlows, NextFlows, PTL DEF Spec

\* No segment goes beyond the window the device announced, the deferred ones
\* and the ones read on an old readiness included.
THEOREM WindowIsRespected == Spec => []WindowRespected
<1>1. Flows => WindowRespected
  BY FlowRespects DEF Flows, Link, TypeOK, ConnTypeOK
<1> QED BY <1>1, InitFlows, NextFlows, PTL DEF Spec

-----------------------------------------------------------------------------
(***************************************************************************)
(* The circular buffer that holds the bytes for the server implements the  *)
(* bounded FIFO, for every capacity and every set of chunks.               *)
(***************************************************************************)
\* The inductive invariant: the types and the rewind of an empty buffer.
BufferInv == BufferTypeOK /\ EmptyIsRewound

\* The array has at least one usable slot and one spare.
LEMMA BufLenFacts == /\ BufLen \in Nat \ {0} /\ Capacity \in Nat
                     /\ Slots = 0 .. Capacity
  BY BufferAssumption DEF BufLen, Slots

\* Under the type invariant, size() is a number of bytes within the capacity.
LEMMA SizeRange == BufferTypeOK => size \in 0 .. Capacity /\ (size = 0 <=> head = tail)
  BY BufLenFacts DEF BufferTypeOK, size, BufLen

\* Where the wrapped head lands after storing n bytes.
LEMMA HeadAfter ==
  ASSUME BufferTypeOK, NEW n \in Nat, n <= Capacity
  PROVE  /\ (head + n) % BufLen \in Slots
         /\ (head + n) % BufLen = IF head + n < BufLen THEN head + n
                                                       ELSE head + n - BufLen
<1>1. head \in Nat /\ head <= Capacity /\ head + n \in Nat /\ head + n < BufLen + BufLen
  BY BufLenFacts DEF BufferTypeOK, BufLen
<1>2. CASE head + n < BufLen
  BY <1>1, <1>2, ModSmall, BufLenFacts DEF BufLen
<1>3. CASE head + n >= BufLen
  <2> DEFINE a == head + n
  <2>1. a \in Nat /\ a >= BufLen /\ a < BufLen + BufLen
    BY <1>1, <1>3
  <2> HIDE DEF a
  <2>2. a % BufLen = a - BufLen
    BY <2>1, ModOnce, BufLenFacts
  <2>3. (head + n) % BufLen = head + n - BufLen
    BY <2>2, <1>1, BufLenFacts DEF a
  <2> QED
    BY <1>1, <1>3, <2>3, BufLenFacts DEF BufLen
<1> QED
  BY <1>1, <1>2, <1>3, BufLenFacts

\* Where the tail of a wrapped run lands after taking w bytes of it.
LEMMA TailAfter ==
  ASSUME BufferTypeOK, NEW w \in Nat, tail + w <= BufLen
  PROVE  (tail + w) % BufLen = IF tail + w = BufLen THEN 0 ELSE tail + w
<1>1. tail + w \in Nat /\ tail + w < BufLen + BufLen
  BY BufLenFacts DEF BufferTypeOK, BufLen
<1>2. CASE tail + w < BufLen
  BY <1>1, <1>2, ModSmall, BufLenFacts
<1>3. CASE tail + w = BufLen
  BY <1>1, <1>3, ModOnce, BufLenFacts
<1> QED
  BY <1>1, <1>2, <1>3, BufLenFacts

\* A function on 1..n is a sequence.
LEMMA FunctionIsSeq ==
  ASSUME NEW S, NEW n \in Nat, NEW f \in [1 .. n -> S]
  PROVE  f \in Seq(S) /\ Len(f) = n
  OBVIOUS

\* A new buffer satisfies the inductive invariant.
LEMMA InitBufferInv == BufferInit => BufferInv
<1> SUFFICES ASSUME BufferInit PROVE BufferInv
  OBVIOUS
<1>1. (CHOOSE b \in Byte : TRUE) \in Byte
  BY BufferAssumption
<1> QED
  BY <1>1, BufLenFacts DEF BufferInit, BufferInv, BufferTypeOK, EmptyIsRewound, is_empty

\* write_to() keeps the types and rewinds the buffer exactly when it empties it.
LEMMA WriteBufferInv ==
  ASSUME BufferInv, NEW w \in 0 .. BufLen, write_to(w)
  PROVE  BufferInv'
<1> USE BufLenFacts DEF BufferInv
<1>0. w \in Nat /\ head \in Nat /\ tail \in Nat
  BY DEF BufferTypeOK, BufLen
<1>1. CASE head > tail
  <2>1. w <= head - tail /\ tail + w \in Slots
    BY <1>0, <1>1 DEF write_to, RunLength, BufferTypeOK
  <2>2. \A i \in 1 .. w : tail + i - 1 \in Slots
    BY <1>0, <1>1, <2>1 DEF BufferTypeOK
  <2>3. sent' \in Seq(Byte)
    <3>1. sent' \in [1 .. w -> Byte]
      BY <1>0, <2>2 DEF write_to, BufferTypeOK
    <3> QED
      BY <1>0, <3>1, FunctionIsSeq
  <2> QED
    BY <1>0, <1>1, <2>1, <2>3 DEF write_to, AdvanceTail, BufferTypeOK, EmptyIsRewound, is_empty
<1>2. CASE head < tail
  <2>1. tail + w <= BufLen
    BY <1>0, <1>2 DEF write_to, RunLength, BufferTypeOK
  <2>2. \A i \in 1 .. w : tail + i - 1 \in Slots
    BY <1>0, <1>2, <2>1 DEF BufferTypeOK, BufLen
  <2>3. sent' \in Seq(Byte)
    <3>1. sent' \in [1 .. w -> Byte]
      BY <1>0, <2>2 DEF write_to, BufferTypeOK
    <3> QED
      BY <1>0, <3>1, FunctionIsSeq
  <2>4. (tail + w) % BufLen \in Slots
    BY <1>0, <2>1, TailAfter DEF BufferTypeOK, BufLen
  <2> QED
    BY <1>0, <1>2, <2>3, <2>4 DEF write_to, AdvanceTail, BufferTypeOK, EmptyIsRewound, is_empty
<1> QED
  BY <1>0, <1>1, <1>2 DEF write_to, is_empty

\* read_from() stores bytes of the slice and never makes a non-empty slice
\* look like an empty buffer.
LEMMA ReadBufferInv ==
  ASSUME BufferInv, NEW s \in Chunks, read_from(s)
  PROVE  BufferInv'
<1> USE BufLenFacts DEF BufferInv
<1>1. s \in Seq(Byte) /\ Len(s) \in Nat
  BY BufferAssumption
<1>2. size \in 0 .. Capacity /\ head \in Nat /\ tail \in Nat /\ Len(s) <= Capacity - size
  BY SizeRange DEF read_from, remaining, BufferTypeOK
<1>3. Len(s) <= Capacity
  BY <1>1, <1>2
<1>4. \A i \in Slots : Stored(s)[i] \in Byte
  <2> SUFFICES ASSUME NEW i \in Slots PROVE Stored(s)[i] \in Byte
    OBVIOUS
  <2>1. CASE i >= head /\ i < head + Len(s)
    <3>1. i - head + 1 \in 1 .. Len(s)
      BY <1>1, <1>2, <2>1
    <3> QED
      BY <1>1, <2>1, <3>1 DEF Stored
  <2>2. CASE ~(i >= head /\ i < head + Len(s)) /\ i < head + Len(s) - BufLen
    <3>1. i + BufLen - head + 1 \in 1 .. Len(s)
      BY <1>1, <1>2, <2>2 DEF BufferTypeOK, BufLen
    <3> QED
      BY <1>1, <2>2, <3>1 DEF Stored
  <2>3. CASE ~(i >= head /\ i < head + Len(s)) /\ ~(i < head + Len(s) - BufLen)
    BY <2>3 DEF Stored, BufferTypeOK
  <2> QED
    BY <2>1, <2>2, <2>3
<1>5. Stored(s) \in [Slots -> Byte]
  BY <1>4 DEF Stored
<1>6. head' \in Slots
  BY <1>1, <1>3, HeadAfter DEF read_from
<1>7. head' = tail' => Len(s) = 0 /\ head = tail
  <2>1. head' = IF head + Len(s) < BufLen THEN head + Len(s) ELSE head + Len(s) - BufLen
    BY <1>1, <1>3, HeadAfter DEF read_from
  <2>2. tail' = tail /\ tail <= Capacity /\ head <= Capacity
    BY DEF read_from, BufferTypeOK
  <2>3. Len(s) <= Capacity - (IF head < tail THEN head + BufLen - tail ELSE head - tail)
    BY <1>2 DEF size
  <2>4. BufLen = Capacity + 1
    BY DEF BufLen
  <2> QED
    BY <1>1, <1>2, <2>1, <2>2, <2>3, <2>4
<1>8. Len(s) = 0 => head' = head
  BY <1>1, <1>2, <1>3, HeadAfter DEF read_from, BufferTypeOK, BufLen
<1> QED
  BY <1>1, <1>5, <1>6, <1>7, <1>8 DEF read_from, BufferTypeOK, EmptyIsRewound, is_empty

\* The types hold and an empty buffer is rewound in every reachable state.
THEOREM BufferSafety == BufferSpec => [](BufferTypeOK /\ EmptyIsRewound)
<1>1. BufferInit => BufferInv
  BY InitBufferInv
<1>2. BufferInv /\ [BufferNext]_bufferVars => BufferInv'
  <2> SUFFICES ASSUME BufferInv, [BufferNext]_bufferVars PROVE BufferInv'
    OBVIOUS
  <2>1. ASSUME NEW w \in 0 .. BufLen, write_to(w) PROVE BufferInv'
    BY <2>1, WriteBufferInv
  <2>2. ASSUME NEW s \in Chunks, read_from(s) PROVE BufferInv'
    BY <2>2, ReadBufferInv
  <2>3. CASE UNCHANGED bufferVars
    BY <2>3 DEF bufferVars, BufferInv, BufferTypeOK, EmptyIsRewound, is_empty
  <2> QED
    BY <2>1, <2>2, <2>3 DEF BufferNext
<1> QED
  BY <1>1, <1>2, PTL DEF BufferSpec, BufferInv

-----------------------------------------------------------------------------
(***************************************************************************)
(* Refinement.                                                             *)
(***************************************************************************)

\* The slots SlotAt(1) .. SlotAt(size) exist, so the contents are bytes.
LEMMA ContentsSeq ==
  ASSUME BufferTypeOK
  PROVE  /\ contents \in Seq(Byte)
         /\ Len(contents) = size
         /\ \A i \in 1 .. size : contents[i] = buf[SlotAt(i)]
<1>1. size \in Nat /\ size <= Capacity
  BY SizeRange, BufLenFacts
<1>2. \A i \in 1 .. size : SlotAt(i) \in Slots
  BY <1>1, BufLenFacts DEF SlotAt, BufferTypeOK, BufLen
<1>3. contents \in [1 .. size -> Byte]
  BY <1>1, <1>2 DEF contents, BufferTypeOK
<1> QED
  BY <1>1, <1>3, FunctionIsSeq DEF contents

\* Taking w bytes from tail removes the w oldest bytes.
LEMMA WriteIsTake ==
  ASSUME BufferInv, BufferInv', NEW w \in 0 .. BufLen, write_to(w)
  PROVE  w \in 0 .. Len(contents) /\ Fifo!Take(w)
<1> USE BufLenFacts
<1>1. BufferTypeOK /\ BufferTypeOK' /\ head \in 0 .. Capacity /\ tail \in 0 .. Capacity
      /\ head # tail /\ BufLen = Capacity + 1 /\ w \in Nat
  BY DEF BufferInv, BufferTypeOK, write_to, is_empty, BufLen
<1>2. /\ size \in Nat /\ w <= size
      /\ size' = size - w
      /\ \A i \in 1 .. w : SlotAt(i) = tail + i - 1
      /\ \A i \in 1 .. (size - w) : SlotAt(i)' = SlotAt(w + i)
  <2>1. CASE head > tail
    <3>1. size = head - tail /\ w <= head - tail
      BY <1>1, <2>1 DEF size, write_to, RunLength
    <3>2. \/ tail + w = head /\ head' = 0 /\ tail' = 0
          \/ tail + w < head /\ head' = head /\ tail' = tail + w
      BY <1>1, <2>1, <3>1 DEF write_to, AdvanceTail
    <3> QED
      BY <1>1, <2>1, <3>1, <3>2 DEF size, SlotAt
  <2>2. CASE head < tail
    <3>1. size = head + BufLen - tail /\ w <= BufLen - tail
      BY <1>1, <2>2 DEF size, write_to, RunLength
    <3>2. (tail + w) % BufLen = IF tail + w = BufLen THEN 0 ELSE tail + w
      BY <1>1, <3>1, TailAfter
    <3>3. \/ tail + w < BufLen /\ head' = head /\ tail' = tail + w
          \/ tail + w = BufLen /\ head = 0 /\ head' = 0 /\ tail' = 0
          \/ tail + w = BufLen /\ head > 0 /\ head' = head /\ tail' = 0
      BY <1>1, <2>2, <3>1, <3>2 DEF write_to, AdvanceTail
    <3> QED
      BY <1>1, <2>2, <3>1, <3>3 DEF size, SlotAt
  <2> QED
    BY <1>1, <2>1, <2>2
<1>3. /\ contents \in Seq(Byte) /\ Len(contents) = size
      /\ \A i \in 1 .. size : contents[i] = buf[SlotAt(i)]
  BY <1>1, ContentsSeq
<1>4. /\ contents' \in Seq(Byte) /\ Len(contents') = size - w
      /\ \A i \in 1 .. (size - w) : contents'[i] = buf[SlotAt(w + i)]
  <2>1. /\ contents' \in Seq(Byte) /\ Len(contents') = size'
        /\ \A i \in 1 .. size' : contents'[i] = buf'[SlotAt(i)']
    <3>1. contents' = [i \in 1 .. size' |-> buf'[SlotAt(i)']]
      BY DEF contents
    <3>2. size' \in Nat
      BY <1>2
    <3>3. \A i \in 1 .. size' : SlotAt(i)' \in Slots
      BY <1>1, <1>2 DEF SlotAt, size
    <3>4. contents' \in [1 .. size' -> Byte]
      BY <1>1, <3>1, <3>2, <3>3 DEF BufferTypeOK
    <3> QED
      BY <3>1, <3>2, <3>4, FunctionIsSeq
  <2>2. buf' = buf
    BY DEF write_to
  <2> QED
    BY <1>2, <2>1, <2>2
<1>5. contents' = SubSeq(contents, w + 1, Len(contents))
  <2> DEFINE t == SubSeq(contents, w + 1, Len(contents))
  <2>1. \A i \in w + 1 .. Len(contents) : contents[i] \in Byte
    BY <1>1, <1>2, <1>3
  <2>2. /\ t \in Seq(Byte) /\ Len(t) = size - w
        /\ \A i \in 1 .. (size - w) : t[i] = contents[w + i]
    BY <1>1, <1>2, <1>3, <2>1, SubSeqProperties
  <2> HIDE DEF t
  <2>3. \A i \in 1 .. (size - w) : t[i] = contents'[i]
    <3> SUFFICES ASSUME NEW i \in 1 .. (size - w) PROVE t[i] = contents'[i]
      OBVIOUS
    <3>1. w + i \in 1 .. size
      BY <1>1, <1>2
    <3>2. contents[w + i] = buf[SlotAt(w + i)]
      BY <1>3, <3>1
    <3> QED
      BY <1>4, <2>2, <3>2
  <2>4. contents' = t
    BY <1>4, <2>2, <2>3, SeqEqual
  <2> QED
    BY <2>4 DEF t
<1>6. sent' = SubSeq(contents, 1, w)
  <2> DEFINE t == SubSeq(contents, 1, w)
  <2>1. \A i \in 1 .. w : contents[i] \in Byte
    BY <1>1, <1>2, <1>3
  <2>2. /\ t \in Seq(Byte) /\ Len(t) = w
        /\ \A i \in 1 .. w : t[i] = contents[i]
    BY <1>1, <1>2, <1>3, <2>1, SubSeqProperties
  <2>3. /\ sent' \in Seq(Byte) /\ Len(sent') = w
        /\ \A i \in 1 .. w : sent'[i] = buf[tail + i - 1]
    BY <1>1 DEF write_to, BufferTypeOK
  <2>4. \A i \in 1 .. w : t[i] = sent'[i]
    BY <1>1, <1>2, <1>3, <2>2, <2>3
  <2> HIDE DEF t
  <2>5. sent' = t
    BY <2>2, <2>3, <2>4, SeqEqual
  <2> QED
    BY <2>5 DEF t
<1> QED
  BY <1>1, <1>2, <1>3, <1>5, <1>6 DEF Fifo!Take

\* Storing a slice at head appends it to the contents.
LEMMA ReadIsPut ==
  ASSUME BufferInv, BufferInv', NEW s \in Chunks, read_from(s)
  PROVE  Fifo!Put(s)
<1> USE BufLenFacts
<1>1. BufferTypeOK /\ BufferTypeOK' /\ head \in 0 .. Capacity /\ tail \in 0 .. Capacity
      /\ BufLen = Capacity + 1 /\ tail' = tail /\ sent' = sent
  BY DEF BufferInv, BufferTypeOK, read_from, BufLen
<1>2. s \in Seq(Byte) /\ Len(s) \in Nat
  BY BufferAssumption
<1>3. size \in Nat /\ Len(s) <= Capacity - size /\ Len(s) <= Capacity
  BY <1>1, <1>2, SizeRange DEF read_from, remaining
<1>4. head' = IF head + Len(s) < BufLen THEN head + Len(s) ELSE head + Len(s) - BufLen
  BY <1>1, <1>2, <1>3, HeadAfter DEF read_from
<1>5. size' = size + Len(s)
  <2>1. size' = IF head' < tail THEN head' + BufLen - tail ELSE head' - tail
    BY <1>1 DEF size
  <2>2. size = IF head < tail THEN head + BufLen - tail ELSE head - tail
    BY DEF size
  <2>3. head' \in Int
    BY <1>1, <1>2, <1>4
  <2>4. CASE head < tail
    <3>1. head + Len(s) < tail
      BY <1>1, <1>2, <1>3, <2>2, <2>4
    <3>2. head' = head + Len(s) /\ head' < tail
      BY <1>1, <1>2, <1>4, <3>1
    <3>3. size' = head + Len(s) + BufLen - tail /\ size = head + BufLen - tail
      BY <2>1, <2>2, <2>4, <3>2
    <3> QED
      BY <1>1, <1>2, <3>3
  <2>5. CASE head >= tail /\ head + Len(s) < BufLen
    <3>1. head' = head + Len(s) /\ ~(head' < tail)
      BY <1>1, <1>2, <1>4, <2>5
    <3>2. size' = head + Len(s) - tail /\ size = head - tail
      BY <1>1, <2>1, <2>2, <2>5, <3>1
    <3> QED
      BY <1>1, <1>2, <3>2
  <2>6. CASE head >= tail /\ ~(head + Len(s) < BufLen)
    <3>1. size = head - tail
      BY <1>1, <2>2, <2>6
    <3>2. head' = head + Len(s) - BufLen /\ head' < tail
      BY <1>1, <1>2, <1>3, <1>4, <2>6, <3>1
    <3>3. size' = head + Len(s) - BufLen + BufLen - tail
      BY <2>1, <3>2
    <3> QED
      BY <1>1, <1>2, <3>1, <3>3
  <2> QED
    BY <1>1, <2>4, <2>5, <2>6
<1>6. \A i \in Nat : SlotAt(i)' = SlotAt(i)
  BY <1>1 DEF SlotAt
<1>7. \A i \in 1 .. size : buf'[SlotAt(i)] = buf[SlotAt(i)]
  <2> SUFFICES ASSUME NEW i \in 1 .. size PROVE buf'[SlotAt(i)] = buf[SlotAt(i)]
    OBVIOUS
  <2>1. SlotAt(i) \in Slots
    BY <1>1, <1>3 DEF SlotAt, size
  <2>2. /\ ~(SlotAt(i) >= head /\ SlotAt(i) < head + Len(s))
        /\ ~(SlotAt(i) < head + Len(s) - BufLen)
    BY <1>1, <1>2, <1>3 DEF SlotAt, size
  <2> QED
    BY <2>1, <2>2 DEF read_from, Stored
<1>8. \A j \in 1 .. Len(s) : buf'[SlotAt(size + j)] = s[j]
  <2> SUFFICES ASSUME NEW j \in 1 .. Len(s) PROVE buf'[SlotAt(size + j)] = s[j]
    OBVIOUS
  <2>1. SlotAt(size + j) \in Slots
    BY <1>1, <1>2, <1>3 DEF SlotAt, size
  <2>2. SlotAt(size + j) = IF head + j - 1 < BufLen THEN head + j - 1 ELSE head + j - 1 - BufLen
    BY <1>1, <1>2, <1>3 DEF SlotAt, size
  <2>3. CASE head + j - 1 < BufLen
    <3>1. /\ SlotAt(size + j) >= head
          /\ SlotAt(size + j) < head + Len(s)
          /\ SlotAt(size + j) - head + 1 = j
      BY <1>1, <1>2, <2>2, <2>3
    <3> QED
      BY <2>1, <3>1 DEF read_from, Stored
  <2>4. CASE head + j - 1 >= BufLen
    <3>1. /\ SlotAt(size + j) < head
          /\ SlotAt(size + j) < head + Len(s) - BufLen
          /\ SlotAt(size + j) + BufLen - head + 1 = j
      BY <1>1, <1>2, <1>3, <2>2, <2>4
    <3> QED
      BY <1>1, <1>2, <2>1, <3>1 DEF read_from, Stored
  <2> QED
    BY <1>1, <1>2, <2>3, <2>4
<1>9. /\ contents \in Seq(Byte) /\ Len(contents) = size
      /\ \A i \in 1 .. size : contents[i] = buf[SlotAt(i)]
  BY <1>1, ContentsSeq
<1>10. /\ contents' \in Seq(Byte) /\ Len(contents') = size + Len(s)
       /\ \A i \in 1 .. (size + Len(s)) : contents'[i] = buf'[SlotAt(i)]
  <2>1. contents' = [i \in 1 .. (size + Len(s)) |-> buf'[SlotAt(i)']]
    BY <1>5 DEF contents
  <2>2. \A i \in 1 .. (size + Len(s)) : SlotAt(i) \in Slots
    BY <1>1, <1>2, <1>3 DEF SlotAt, size
  <2>3. \A i \in 1 .. (size + Len(s)) : contents'[i] = buf'[SlotAt(i)]
    BY <1>2, <1>3, <1>6, <2>1
  <2>4. contents' \in [1 .. (size + Len(s)) -> Byte]
    BY <1>1, <1>2, <1>3, <1>6, <2>1, <2>2 DEF BufferTypeOK
  <2> QED
    BY <1>2, <1>3, <2>3, <2>4, FunctionIsSeq
<1>11. contents' = contents \o s
  <2> DEFINE t == contents \o s
  <2>1. /\ t \in Seq(Byte) /\ Len(t) = size + Len(s)
        /\ \A i \in 1 .. (size + Len(s)) :
              t[i] = IF i <= size THEN contents[i] ELSE s[i - size]
    BY <1>2, <1>9, ConcatProperties
  <2> HIDE DEF t
  <2>2. ASSUME NEW i \in 1 .. (size + Len(s)) PROVE contents'[i] = t[i]
    <3>1. CASE i <= size
      <4>1. i \in 1 .. size
        BY <1>2, <1>3, <3>1
      <4>2. buf'[SlotAt(i)] = contents[i]
        BY <1>7, <1>9, <4>1
      <4> QED
        BY <1>10, <2>1, <3>1, <4>2
    <3>2. CASE i > size
      <4>1. i - size \in 1 .. Len(s) /\ size + (i - size) = i
        BY <1>2, <1>3, <3>2
      <4>2. buf'[SlotAt(i)] = s[i - size]
        BY <1>8, <4>1
      <4> QED
        BY <1>2, <1>3, <1>10, <2>1, <3>2, <4>2
    <3> QED
      BY <1>2, <1>3, <3>1, <3>2
  <2>3. contents' = t
    BY <1>10, <2>1, <2>2, SeqEqual
  <2> QED
    BY <2>3 DEF t
<1> QED
  BY <1>1, <1>2, <1>3, <1>9, <1>11 DEF Fifo!Put

\* A circular buffer of any capacity is the bounded FIFO of bytes that its
\* users take it for: what write_to() hands over is what read_from() stored,
\* in order, through every wrap, partial write and rewind.
THEOREM BufferIsFifo == BufferSpec => ImplementsFifo
<1>1. BufferInit => Fifo!Init
  <2> SUFFICES ASSUME BufferInit PROVE Fifo!Init
    OBVIOUS
  <2>1. BufferTypeOK /\ size = 0
    BY InitBufferInv, BufLenFacts DEF BufferInv, BufferInit, size
  <2>2. contents = << >>
    BY <2>1, ContentsSeq, EmptySeq
  <2> QED
    BY <2>2 DEF Fifo!Init, BufferInit
<1>2. BufferInv /\ BufferInv' /\ [BufferNext]_bufferVars => [Fifo!Next]_<<contents, sent>>
  <2> SUFFICES ASSUME BufferInv, BufferInv', [BufferNext]_bufferVars
               PROVE  [Fifo!Next]_<<contents, sent>>
    OBVIOUS
  <2>1. ASSUME NEW w \in 0 .. BufLen, write_to(w) PROVE Fifo!Next
    BY <2>1, WriteIsTake DEF Fifo!Next
  <2>2. ASSUME NEW s \in Chunks, read_from(s) PROVE Fifo!Next
    BY <2>2, ReadIsPut DEF Fifo!Next
  <2>3. CASE UNCHANGED bufferVars
    BY <2>3 DEF bufferVars, contents, size, SlotAt
  <2> QED
    BY <2>1, <2>2, <2>3 DEF BufferNext
<1>3. BufferSpec => []BufferInv
  BY BufferSafety, PTL DEF BufferInv
<1> QED
  BY <1>1, <1>2, <1>3, PTL DEF BufferSpec, ImplementsFifo, Fifo!Spec
=============================================================================
