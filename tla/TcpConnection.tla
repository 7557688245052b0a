--------------------------- MODULE TcpConnection ----------------------------
(***************************************************************************)
(* relay/tcp_connection.rs: one TCP connection of a device, terminated by  *)
(* the relay.  Towards the device the relay speaks raw TCP segments,       *)
(* written into the buffer of the tunnel (client.rs); towards the network  *)
(* it reads and writes an ordinary socket.                                 *)
(*                                                                         *)
(* The relay is one thread: it polls, then runs the handler of each event  *)
(* of the batch.  So the readiness that a connection's handler is given    *)
(* (variable ready) was sampled before the handlers that run ahead of it   *)
(* in the same batch, those of the client included.                        *)
(*                                                                         *)
(* conn is the TcpConnection object, with the part of its Client it works  *)
(* on; every method of the source is an operator from conn to conn, so     *)
(* that a handler is the composition of the methods it calls.              *)
(***************************************************************************)
EXTENDS Integers, Sequences

CONSTANTS SeqSpace,           \* 2^32: sequence numbers wrap
          Headers,          \* length of the IPv4 and TCP headers (40)
          MaxPayload,       \* MAX_PAYLOAD_LENGTH
          StreamCapacity,   \* capacity of client_to_network (4 * 65536)
          ClientCapacity,   \* capacity of the client's network_to_client (16 * 65536)
          MaxWindow         \* the greatest window a device announces (65535)

ASSUME ConnectionAssumption ==
  /\ SeqSpace \in Nat \ {0} /\ Headers \in Nat \ {0} /\ MaxPayload \in Nat \ {0}
  /\ StreamCapacity \in Nat /\ ClientCapacity \in Nat /\ MaxWindow \in Nat
  /\ MaxWindow < SeqSpace

VARIABLES conn,       \* the connection
          ready,      \* the readiness polled for it, until its handler runs
          client_ran  \* the client's handler ran since, in the same batch

connVars == <<conn, ready, client_ran>>

-----------------------------------------------------------------------------
Seqno == 0 .. SeqSpace - 1
NoSeqno == -1               \* Option<u32>::None
WouldBlock == -1            \* io::ErrorKind::WouldBlock
Error == -2                 \* any other io::Error
Interest == {"readable", "writable"}
Readiness == Interest \cup {"hup"}
TcpState == {"Init", "SynSent", "SynReceived", "Established", "CloseWait",
             "LastAck", "Closing", "FinWait1", "FinWait2"}
Flags == {"SYN", "ACK", "FIN", "RST", "PSH"}

(***************************************************************************)
(* A packet for the device: header fields, the length the IPv4 header      *)
(* claims, the bytes really copied, and which byte of the server's stream  *)
(* the payload starts with.                                                *)
(***************************************************************************)
ClientPacket == [seq : Seqno, ack : Seqno, flags : SUBSET Flags,
                 total_length : Nat, raw : Nat, pos : Nat]
\* A packet of the device; data are the positions of its bytes in the stream.
DevicePacket == [seq : Seqno, ack : Seqno, window : 0 .. MaxWindow,
                 flags : SUBSET Flags, data : Seq(Nat)]

Asserts == {"none", "pending packet", "window", "closed", "stream buffer full"}

(***************************************************************************)
(* The fields of TcpConnection and its Tcb.  client_closed is the flag of   *)
(* its client; channel and used are the packets and the byte count of the  *)
(* client's network_to_client; foreign the bytes other connections put     *)
(* there; pending_packet_sources counts this connection's entries in the   *)
(* client's list.  isn, written, taken, fins and deferred are history: the *)
(* first sequence number, the bytes given to the socket, the count read    *)
(* from it, the device FINs counted, and whether a packet ever had to wait *)
(* for room.  panic is the assertion that stopped the relay.               *)
(***************************************************************************)
Connection ==
  [state : TcpState, syn_sequence_number : Seqno, sequence_number : Seqno,
   acknowledgement_number : Seqno, their_acknowledgement_number : Seqno,
   fin_sequence_number : Seqno \cup {NoSeqno}, fin_received : BOOLEAN,
   client_window : 0 .. MaxWindow, client_to_network : Seq(Nat),
   packetizer : ClientPacket, packet_for_client_length : Nat,
   interests : SUBSET Interest, closed : BOOLEAN,
   client_closed : BOOLEAN, channel : Seq(ClientPacket), used : Int, foreign : Nat,
   pending_packet_sources : Nat, panic : Asserts,
   isn : Seqno, written : Seq(Nat), taken : Nat, fins : Nat, deferred : BOOLEAN]

NoPacket == [seq |-> 0, ack |-> 0, flags |-> {}, total_length |-> 0, raw |-> 0, pos |-> 0]

\* TcpConnection::create() registers for writable, then the router gives it
\* the packet that caused its creation.
create ==
  [state |-> "Init", syn_sequence_number |-> 0, sequence_number |-> 0,
   acknowledgement_number |-> 0, their_acknowledgement_number |-> 0,
   fin_sequence_number |-> NoSeqno, fin_received |-> FALSE,
   client_window |-> 0, client_to_network |-> << >>,
   packetizer |-> NoPacket, packet_for_client_length |-> 0,
   interests |-> {"writable"}, closed |-> FALSE,
   client_closed |-> FALSE, channel |-> << >>, used |-> 0, foreign |-> 0,
   pending_packet_sources |-> 0, panic |-> "none",
   isn |-> 0, written |-> << >>, taken |-> 0, fins |-> 0, deferred |-> FALSE]

\* MUTANT: a plain addition.
wrapping_add_plain(a, n) == a + n
wrapping_add(a, n) == (a + n) % SeqSpace

is_connected(c) == c.state \notin {"Init", "SynSent", "SynReceived"}
is_closed(c) == c.state \in {"FinWait1", "FinWait2", "Closing", "LastAck"}

remaining_client_window(c) ==
  LET remaining == (c.their_acknowledgement_number + c.client_window
                      - c.sequence_number) % SeqSpace
  IN IF remaining <= c.client_window THEN remaining ELSE 0

-----------------------------------------------------------------------------
(***************************************************************************)
(* The client's side: ClientChannel and Client::send_to_client().  The     *)
(* room is compared with the length in the header, the bytes copied are    *)
(* those of the slice; read_from() asserts that they fit.                  *)
(***************************************************************************)
room(c) == ClientCapacity - c.used - c.foreign

send_to_client(c, p) ==
  IF p.raw <= room(c)
  THEN [c EXCEPT !.channel = Append(@, p), !.used = @ + p.raw]
  ELSE [c EXCEPT !.panic = "stream buffer full"]

\* create_empty_response_packet(): the headers are written in the buffer of
\* the packetizer.  What that buffer holds matters only while it also holds a
\* deferred packet; the payload of that packet is not touched.
empty_packet(c, flags) ==
  [seq |-> c.sequence_number, ack |-> c.acknowledgement_number, flags |-> flags,
   total_length |-> Headers, raw |-> Headers, pos |-> c.packetizer.pos]

reply_empty_packet_to_client(c, flags) ==
  LET p == empty_packet(c, flags)
      d == [c EXCEPT !.packetizer = IF c.packet_for_client_length = 0 THEN @ ELSE p]
  IN IF p.total_length <= room(c) THEN send_to_client(d, p) ELSE d

-----------------------------------------------------------------------------
close(c) == [c EXCEPT !.closed = TRUE, !.interests = {}]

\* MUTANT: a deferred packet does not stop the reading.
may_read_while_pending(c) == /\ is_connected(c) /\ ~is_closed(c)
                             /\ remaining_client_window(c) > 0
may_read(c) == /\ is_connected(c) /\ ~is_closed(c)
               /\ c.packet_for_client_length = 0
               /\ remaining_client_window(c) > 0
may_write(c) == c.client_to_network # << >>

wanted(c) == IF c.state = "SynSent" THEN {"writable"}
             ELSE {i \in Interest : \/ i = "readable" /\ may_read(c)
                                    \/ i = "writable" /\ may_write(c)}

update_interests(c) == IF c.closed THEN [c EXCEPT !.panic = "closed"]
                       ELSE [c EXCEPT !.interests = wanted(c)]

-----------------------------------------------------------------------------
(***************************************************************************)
(* Ends of the two streams.                                                *)
(***************************************************************************)
eof(c) ==
  [reply_empty_packet_to_client(c, {"FIN", "ACK"}) EXCEPT
     !.fin_sequence_number = c.sequence_number,
     !.sequence_number = wrapping_add(@, 1),
     !.state = IF @ = "CloseWait" THEN "LastAck" ELSE "FinWait1"]

count_fin(c) == [c EXCEPT !.acknowledgement_number = wrapping_add(@, 1), !.fins = @ + 1]

do_handle_fin(c) ==
  LET d == count_fin(c)
  IN CASE d.state = "Established" ->
            [reply_empty_packet_to_client(d, {"FIN", "ACK"}) EXCEPT
               !.fin_sequence_number = d.sequence_number,
               !.sequence_number = wrapping_add(@, 1),
               !.state = "LastAck"]
       [] d.state = "FinWait1" ->
            [reply_empty_packet_to_client(d, {"ACK"}) EXCEPT !.state = "Closing"]
       [] d.state = "FinWait2" -> close(reply_empty_packet_to_client(d, {"ACK"}))
       [] OTHER -> d

\* MUTANT: the FIN is acknowledged ahead of the bytes that precede it.
handle_fin_at_once(c) == do_handle_fin([c EXCEPT !.fin_received = TRUE])
handle_fin(c) ==
  LET d == [c EXCEPT !.fin_received = TRUE]
  IN IF d.client_to_network = << >> THEN do_handle_fin(d) ELSE d

handle_fin_ack(c) ==
  CASE c.state \in {"LastAck", "Closing"} -> close(c)
    [] c.state = "FinWait1" -> [c EXCEPT !.state = "FinWait2"]
    [] OTHER -> c

-----------------------------------------------------------------------------
(***************************************************************************)
(* Packets of the device: handle_packet().                                 *)
(***************************************************************************)
handle_ack(c, p) ==
  IF c.state = "SynReceived" THEN [c EXCEPT !.state = "Established"]
  ELSE IF StreamCapacity - Len(c.client_to_network) < Len(p.data) THEN c
  ELSE [c EXCEPT !.client_to_network = @ \o p.data]

handle_first_packet(c, p, isn) ==
  IF "SYN" \in p.flags
  THEN [c EXCEPT !.acknowledgement_number = wrapping_add(p.seq, 1),
                 !.syn_sequence_number = p.seq,
                 !.sequence_number = isn, !.isn = isn,
                 !.client_window = p.window,
                 !.state = "SynSent"]
  ELSE close(reply_empty_packet_to_client([c EXCEPT !.sequence_number = p.ack], {"RST"}))

handle_duplicate_syn(c, p) ==
  IF c.state = "SynSent"
  THEN [c EXCEPT !.syn_sequence_number = p.seq,
                 !.acknowledgement_number = wrapping_add(p.seq, 1), !.fins = 0]
  ELSE IF p.seq # c.syn_sequence_number
       THEN close(reply_empty_packet_to_client(c, {"RST"}))
       ELSE c

expected_packet(c) == wrapping_add(c.acknowledgement_number, Len(c.client_to_network))

handle_expected_packet(c, p) ==
  LET w == [c EXCEPT !.client_window = p.window, !.their_acknowledgement_number = p.ack]
      a == IF "ACK" \in p.flags THEN handle_ack(w, p) ELSE w
      f == IF "FIN" \in p.flags THEN handle_fin(a) ELSE a
  IN IF "RST" \in p.flags THEN close(w)
     ELSE IF /\ f.fin_sequence_number # NoSeqno
             /\ p.ack = wrapping_add(f.fin_sequence_number, 1)
          THEN handle_fin_ack(f)
          ELSE f

\* MUTANT: a packet is accepted whatever its sequence number.
handle_packet_unordered(c, p, isn) ==
  CASE c.state = "Init" -> handle_first_packet(c, p, isn)
    [] c.state # "Init" /\ "SYN" \in p.flags -> handle_duplicate_syn(c, p)
    [] OTHER -> handle_expected_packet(c, p)
handle_packet(c, p, isn) ==
  CASE c.state = "Init" -> handle_first_packet(c, p, isn)
    [] c.state # "Init" /\ "SYN" \in p.flags -> handle_duplicate_syn(c, p)
    [] c.state # "Init" /\ "SYN" \notin p.flags /\ p.seq = expected_packet(c) ->
         handle_expected_packet(c, p)
    [] OTHER -> c

\* MUTANT: the interests are left as they were.
send_to_network_no_update(c, p, isn) == handle_packet(c, p, isn)
send_to_network(c, p, isn) ==
  LET d == handle_packet(c, p, isn)
  IN IF d.closed THEN d ELSE update_interests(d)

-----------------------------------------------------------------------------
(***************************************************************************)
(* Socket events: process().  w is what writing returned, r what reading   *)
(* returned: a byte count, WouldBlock or Error.                            *)
(***************************************************************************)
process_connect(c) ==
  [reply_empty_packet_to_client([c EXCEPT !.state = "SynReceived"], {"SYN", "ACK"})
     EXCEPT !.sequence_number = wrapping_add(@, 1)]

\* MUTANT: everything that is buffered is acknowledged, not what was written.
written_to_socket_early_ack(c, w) ==
  [c EXCEPT !.client_to_network = SubSeq(@, w + 1, Len(@)),
            !.written = @ \o SubSeq(c.client_to_network, 1, w),
            !.acknowledgement_number = wrapping_add(@, Len(c.client_to_network))]
written_to_socket(c, w) ==
  [c EXCEPT !.client_to_network = SubSeq(@, w + 1, Len(@)),
            !.written = @ \o SubSeq(c.client_to_network, 1, w),
            !.acknowledgement_number = wrapping_add(@, w)]

process_send(c, w) ==
  CASE w = WouldBlock -> c
    [] w = Error -> close(reply_empty_packet_to_client(c, {"RST"}))
    [] w = 0 -> close(c)
    [] OTHER -> LET d == written_to_socket(c, w)
                IN IF d.fin_received /\ d.client_to_network = << >>
                   THEN do_handle_fin(d)
                   ELSE reply_empty_packet_to_client(d, {"ACK"})

\* The packet built by packetize_read() from r bytes of the socket.
data_packet(c, r) ==
  [seq |-> c.sequence_number, ack |-> c.acknowledgement_number, flags |-> {"ACK", "PSH"},
   total_length |-> Headers + r, raw |-> Headers + r, pos |-> c.taken]

\* MUTANT: the packet is deferred without telling the client.
defer_unregistered(c, p) ==
  [c EXCEPT !.packetizer = p, !.packet_for_client_length = p.total_length, !.deferred = TRUE]
defer(c, p) ==
  [c EXCEPT !.packetizer = p, !.packet_for_client_length = p.total_length,
            !.pending_packet_sources = @ + 1, !.deferred = TRUE]

\* MUTANT: the bytes sent are not counted in the sequence number.
receive_data_uncounted(c, r) ==
  LET p == data_packet(c, r)
      d == [c EXCEPT !.taken = @ + r]
  IN IF p.total_length <= room(c) THEN send_to_client(d, p) ELSE defer(d, p)
receive_data(c, r) ==
  LET p == data_packet(c, r)
      d == [c EXCEPT !.taken = @ + r]
  IN IF p.total_length <= room(c)
     THEN [send_to_client(d, p) EXCEPT !.sequence_number = wrapping_add(@, r)]
     ELSE defer(d, p)

process_receive(c, r) ==
  CASE c.packet_for_client_length # 0 -> [c EXCEPT !.panic = "pending packet"]
    [] c.packet_for_client_length = 0 /\ remaining_client_window(c) = 0 ->
         [c EXCEPT !.panic = "window"]
    [] OTHER -> CASE r = WouldBlock -> c
                  [] r = Error -> close(reply_empty_packet_to_client(c, {"RST"}))
                  [] r = 0 -> eof(c)
                  [] OTHER -> receive_data(c, r)

(***************************************************************************)
(* WouldBlock leaves process() at once: what was done before stays done,   *)
(* and the interests are not updated.                                      *)
(***************************************************************************)
sent_part(c, events, w) ==
  IF "writable" \notin events THEN c
  ELSE IF c.state = "SynSent" THEN process_connect(c) ELSE process_send(c, w)

write_blocked(c, events, w) ==
  "writable" \in events /\ c.state # "SynSent" /\ w = WouldBlock

process(c, events, w, r) ==
  LET s == sent_part(c, events, w)
      receives == ~s.closed /\ "readable" \in events
      t == IF receives THEN process_receive(s, r) ELSE s
  IN IF events \cap Interest = {} THEN close(c)
     ELSE IF write_blocked(c, events, w) THEN c
     ELSE IF (receives /\ r = WouldBlock) \/ t.closed \/ t.panic # "none" THEN t
     ELSE update_interests(t)

-----------------------------------------------------------------------------
(***************************************************************************)
(* The client may write: Client::process_send() frees room, then           *)
(* process_pending() pulls the deferred packet with get() and next().      *)
(***************************************************************************)
deferred_packet(c) == [c.packetizer EXCEPT !.raw = c.packet_for_client_length]

next(c) ==
  update_interests([c EXCEPT !.sequence_number = wrapping_add(@, c.packet_for_client_length),
                             !.packet_for_client_length = 0,
                             !.packetizer = NoPacket])

process_pending(c) ==
  IF c.pending_packet_sources = 0 \/ deferred_packet(c).total_length > room(c) THEN c
  ELSE LET d == send_to_client([c EXCEPT !.pending_packet_sources = @ - 1], deferred_packet(c))
       IN IF d.panic # "none" THEN d ELSE next(d)

-----------------------------------------------------------------------------
(***************************************************************************)
(* The handlers, for a device and a network that do anything.              *)
(***************************************************************************)
\* A client that is closed handles no event and receives no packet.
Running == conn.panic = "none" /\ ~conn.client_closed

ConnInit == conn = create /\ ready = {} /\ client_ran = FALSE

\* A new batch: level-triggered readiness for the registered interests, or a
\* hang-up, which is reported whatever the interests.
poll(events) ==
  /\ Running /\ ready = {} /\ ~conn.closed /\ conn.state # "Init"
  /\ events # {} /\ (events \subseteq conn.interests \/ events = {"hup"})
  /\ ready' = events
  /\ UNCHANGED <<conn, client_ran>>

\* write_to() returns 0 without touching the socket when it has nothing.
WriteResults(c) == IF c.client_to_network = << >> THEN {0}
                   ELSE {WouldBlock, Error} \cup 1 .. Len(c.client_to_network)
\* MUTANT: a read is limited by the length of a packet only.
ReadResults_unlimited(c) == (WouldBlock .. MaxPayload) \cup {Error}
\* packetize_read() reads at most the remaining window and MAX_PAYLOAD_LENGTH.
ReadResults(c) == {r \in WouldBlock .. MaxPayload : r <= remaining_client_window(c)}
                    \cup {Error}

on_ready(w, r) ==
  /\ Running /\ ready # {}
  /\ w \in WriteResults(conn)
  /\ r \in ReadResults(sent_part(conn, ready, w))
  /\ conn' = IF conn.closed THEN conn ELSE process(conn, ready, w, r)
  /\ ready' = {} /\ client_ran' = FALSE

\* One packet of the loop Client::push_to_network().
push_packet(p, isn) ==
  /\ Running /\ ~conn.closed
  /\ conn' = send_to_network(conn, p, isn)
  /\ client_ran' = (ready # {})
  /\ UNCHANGED ready

\* Client::process_send(): the tunnel takes some bytes, of this connection
\* (n packets, 0 or 1) and of others (down to f).  It runs before
\* process_receive() and once per batch.
client_send(n, f) ==
  /\ Running /\ ~client_ran
  /\ n <= Len(conn.channel) /\ f <= conn.foreign
  /\ conn' = process_pending(
               [conn EXCEPT !.channel = SubSeq(@, n + 1, Len(@)),
                            !.used = IF n = 0 THEN @ ELSE @ - conn.channel[1].raw,
                            !.foreign = f])
  /\ client_ran' = (ready # {})
  /\ UNCHANGED ready

\* Other connections of the client fill its buffer.
fill(f) ==
  /\ Running /\ f > conn.foreign /\ f <= ClientCapacity - conn.used
  /\ conn' = [conn EXCEPT !.foreign = f]
  /\ UNCHANGED <<ready, client_ran>>

\* Client::close() closes every connection of its router.
client_close ==
  /\ Running /\ ~conn.closed
  /\ conn' = [close(conn) EXCEPT !.client_closed = TRUE]
  /\ UNCHANGED <<ready, client_ran>>

ConnNext ==
  \/ \E events \in SUBSET Readiness : poll(events)
  \/ \E w \in Int, r \in Int : on_ready(w, r)
  \/ \E p \in DevicePacket, isn \in Seqno : push_packet(p, isn)
  \/ \E n \in {0, 1}, f \in Nat : client_send(n, f)
  \/ \E f \in Nat : fill(f)
  \/ client_close

ConnSpec == ConnInit /\ [][ConnNext]_connVars

-----------------------------------------------------------------------------
(***************************************************************************)
(* What holds whatever the device and the network do.                      *)
(***************************************************************************)
ConnTypeOK == conn \in Connection /\ ready \subseteq Readiness /\ client_ran \in BOOLEAN

\* process_receive() never finds a packet still waiting for room: the
\* assertion "A pending packet was not sent" cannot fail, although the
\* readiness it acts upon is older than the handlers run since the poll.
NoPendingOverrun == conn.panic # "pending packet"

\* No lost wakeup: the socket is registered for every event the state of the
\* connection waits for, however the handlers and spurious events interleave.
NoLostWakeup == (conn.panic = "none" /\ ~conn.closed /\ conn.state # "Init")
                  => wanted(conn) \subseteq conn.interests

\* The connection is in its client's list of pending sources exactly while it
\* holds a deferred packet, and only once: the list is neither forgotten, nor
\* asked for a packet that is not there ("Unexpected pending source").
RegisteredWhilePending ==
  conn.panic = "none" =>
    conn.pending_packet_sources = IF conn.packet_for_client_length = 0 THEN 0 ELSE 1

\* The device is told that exactly the bytes written to the socket arrived,
\* with its SYN and its FIN: a byte that is only buffered is never
\* acknowledged, so a connection that breaks loses nothing it acknowledged.
AckIsWritten ==
  conn.state # "Init" =>
    conn.acknowledgement_number =
      (conn.syn_sequence_number + 1 + Len(conn.written) + conn.fins) % SeqSpace
=============================================================================
