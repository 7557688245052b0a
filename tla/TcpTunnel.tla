----------------------------- MODULE TcpTunnel ------------------------------
(***************************************************************************)
(* A TcpConnection of the relay between the TCP stack of a device and a    *)
(* server on the network.  Both ends are outside the repository: they are  *)
(* modelled from what the relay exchanges with them.                       *)
(*                                                                         *)
(* The tunnel is a TCP stream, so packets are neither lost nor reordered   *)
(* in it: from_device carries the device's packets; the packets for the    *)
(* device wait in the client's buffer and reach the device when the client *)
(* writes.  A packet is lost only when that buffer has no room.            *)
(***************************************************************************)
EXTENDS TcpConnection

CONSTANTS DeviceIsn,        \* the device's initial sequence number
          RelayIsns,        \* the values random() may give the relay
          DeviceBytes,      \* bound: the bytes the device sends
          ServerBytes,      \* bound: the bytes the server sends
          InFlight,         \* bound: packets of the device in the tunnel
          Spurious,         \* may a readiness turn out to be void?
          HandshakeFin      \* may the ACK of the handshake carry bytes and a FIN?

ASSUME TunnelAssumption ==
  /\ DeviceIsn \in Seqno /\ RelayIsns \subseteq Seqno
  /\ HandshakeFin \in BOOLEAN /\ Spurious \in BOOLEAN
  /\ {DeviceBytes, ServerBytes, InFlight} \subseteq Nat
  /\ MaxWindow <= StreamCapacity /\ MaxWindow + 1 < SeqSpace

VARIABLES device,       \* the TCP stack of the device
          from_device,  \* the device's packets not yet handled by the relay
          server        \* the other end of the relay's socket

vars == <<conn, ready, client_ran, device, from_device, server>>

(***************************************************************************)
(* The device counts from its SYN: una is the oldest byte it has no        *)
(* acknowledgement for, nxt the next one to send, rcv the next byte of the *)
(* relay it expects, edge the right edge of the window it announced.  It   *)
(* is in phase "handshake" between the SYN-ACK and its first ACK.          *)
(***************************************************************************)
Device == [phase : {"closed", "syn", "handshake", "open", "reset"}, una : Nat, nxt : Nat,
           fin : BOOLEAN, irs : Seqno, rcv : Nat, edge : Nat,
           owes_ack : BOOLEAN]
Server == [sent : Nat, fin : BOOLEAN, reset : BOOLEAN]

\* The device starts a connection, or still has one the relay knows nothing
\* of (the relay was restarted).
Init == /\ ConnInit
        /\ \E phase \in {"closed", "open"}, irs \in RelayIsns :
             device = [phase |-> phase, una |-> 1, nxt |-> 1, fin |-> FALSE,
                       irs |-> irs, rcv |-> 1, edge |-> 1 + MaxWindow,
                       owes_ack |-> FALSE]
        /\ from_device = << >>
        /\ server = [sent |-> 0, fin |-> FALSE, reset |-> FALSE]

TypeOK == /\ ConnTypeOK /\ device \in Device /\ server \in Server
          /\ from_device \in Seq(DevicePacket)

-----------------------------------------------------------------------------
(***************************************************************************)
(* The device (external).                                                  *)
(***************************************************************************)
\* A FIN may be received beyond the edge.
Window == IF device.rcv <= device.edge THEN device.edge - device.rcv ELSE 0
DeviceSeq(n) == wrapping_add(DeviceIsn, n)

Emit(flags, from, data) ==
  /\ Running /\ ~conn.closed
  /\ Len(from_device) < InFlight
  /\ from_device' = Append(from_device,
       [seq |-> DeviceSeq(from), ack |-> wrapping_add(device.irs, device.rcv),
        window |-> Window, flags |-> flags, data |-> data])
  /\ UNCHANGED <<conn, ready, client_ran, server>>

HasPeer == device.phase \in {"handshake", "open"}

Bytes(from, to) == [i \in 1 .. to - from |-> from + i - 1]
FinFlag(fin) == IF fin THEN {"FIN"} ELSE {}

DeviceConnect == /\ device.phase = "closed"
                 /\ Emit({"SYN"}, 0, << >>)
                 /\ device' = [device EXCEPT !.phase = "syn"]

DeviceResendSyn == /\ device.phase = "syn"
                   /\ Emit({"SYN"}, 0, << >>)
                   /\ UNCHANGED device

\* New bytes and the FIN, within the window the relay announces, which is the
\* one of the device's own SYN (the packetizer copies that header).
DeviceSend(n, fin) ==
  /\ HasPeer /\ ~device.fin /\ (n > 0 \/ fin)
  /\ device.phase = "handshake" /\ n > 0 /\ fin => HandshakeFin
  /\ device.nxt + n <= 1 + DeviceBytes
  /\ device.nxt + n - device.una <= MaxWindow
  /\ Emit({"ACK"} \cup FinFlag(fin), device.nxt, Bytes(device.nxt, device.nxt + n))
  /\ device' = [device EXCEPT !.nxt = @ + n, !.fin = fin, !.owes_ack = FALSE, !.phase = "open"]

DeviceResend ==
  /\ device.phase = "open"
  /\ (device.una < device.nxt \/ (device.fin /\ device.una = device.nxt))
  /\ Emit({"ACK"} \cup FinFlag(device.fin), device.una, Bytes(device.una, device.nxt))
  /\ device' = [device EXCEPT !.owes_ack = FALSE]

DeviceAck ==
  /\ HasPeer /\ device.owes_ack
  /\ Emit({"ACK"}, device.nxt + (IF device.fin THEN 1 ELSE 0), << >>)
  /\ device' = [device EXCEPT !.owes_ack = FALSE, !.phase = "open"]

\* The application reads what was received: the window opens again.
DeviceRead ==
  /\ Running /\ ~conn.closed
  /\ device.phase = "open" /\ device.edge < device.rcv + MaxWindow
  /\ device' = [device EXCEPT !.edge = device.rcv + MaxWindow, !.owes_ack = TRUE]
  /\ UNCHANGED <<conn, ready, client_ran, from_device, server>>

DeviceReset ==
  /\ device.phase = "open"
  /\ Emit({"RST"}, device.nxt + (IF device.fin THEN 1 ELSE 0), << >>)
  /\ device' = [device EXCEPT !.phase = "reset"]

\* What the device does with a packet of the relay; the length of the payload
\* is the one the IPv4 header claims.
Accepted(d, p) ==
  LET len == p.total_length - Headers
      space == len + (IF "FIN" \in p.flags THEN 1 ELSE 0)
      acked == {n \in d.una .. d.nxt + (IF d.fin THEN 1 ELSE 0) : DeviceSeq(n) = p.ack}
      inOrder == p.seq = wrapping_add(d.irs, d.rcv)
  IN [d EXCEPT !.una = IF acked = {} THEN @ ELSE CHOOSE n \in acked : TRUE,
               !.rcv = IF inOrder THEN @ + space ELSE @,
               !.owes_ack = @ \/ space > 0]

Received(d, p) ==
  CASE d.phase \in {"closed", "reset"} -> d
    [] "RST" \in p.flags -> [d EXCEPT !.phase = "reset"]
    [] d.phase = "syn" /\ {"SYN", "ACK"} \subseteq p.flags ->
         [d EXCEPT !.phase = "handshake", !.irs = p.seq, !.owes_ack = TRUE]
    [] d.phase \in {"handshake", "open"} /\ p.flags \cap {"SYN", "RST"} = {} -> Accepted(d, p)
    [] OTHER -> d

-----------------------------------------------------------------------------
(***************************************************************************)
(* The server and the socket (external).                                   *)
(***************************************************************************)
Connected == is_connected(conn) \/ conn.state = "SynReceived"

ServerStep(s) == /\ Running /\ ~conn.closed /\ Connected
                 /\ ~server.reset /\ server' = s
                 /\ UNCHANGED <<conn, ready, client_ran, device, from_device>>
ServerSend == /\ ~server.fin /\ server.sent < ServerBytes
              /\ ServerStep([server EXCEPT !.sent = @ + 1])
ServerFin == ~server.fin /\ ServerStep([server EXCEPT !.fin = TRUE])
\* A reset discards what was not read.
ServerReset == ServerStep([sent |-> conn.taken, fin |-> FALSE, reset |-> TRUE])

\* What read() may return; a spurious readiness is answered by WouldBlock.
Readable(r) ==
  IF server.reset THEN r = Error
  ELSE IF server.sent > conn.taken THEN r \in 1 .. server.sent - conn.taken
  ELSE r = (IF server.fin THEN 0 ELSE WouldBlock)

-----------------------------------------------------------------------------
(***************************************************************************)
(* The relay.                                                              *)
(***************************************************************************)
\* Does the handler come to read()?  With no window left it stops at an assertion.
reads_socket(w) == /\ "readable" \in ready
                   /\ remaining_client_window(sent_part(conn, ready, w)) > 0

Poll == /\ \E events \in SUBSET Readiness :
             /\ poll(events)
             /\ "hup" \in events => server.reset
             /\ "readable" \in events =>
                  Spurious \/ server.reset \/ server.fin \/ server.sent > conn.taken
        /\ UNCHANGED <<device, from_device, server>>

OnReady == /\ \E w \in WriteResults(conn), r \in {WouldBlock, Error} \cup 0 .. ServerBytes :
                /\ "writable" \in ready \/ w = CHOOSE x \in WriteResults(conn) : TRUE
                /\ w = Error => server.reset
                /\ IF reads_socket(w) THEN Readable(r) ELSE r = WouldBlock
                /\ on_ready(w, r)
           /\ UNCHANGED <<device, from_device, server>>

PushPacket == /\ from_device # << >>
              /\ \E isn \in RelayIsns : push_packet(Head(from_device), isn)
              /\ from_device' = Tail(from_device)
              /\ UNCHANGED <<device, server>>

\* Once the connection is closed, only what its client still does with its
\* deferred packet is followed.
ClientSend == \E n \in {0, 1}, f \in {0, conn.foreign} :
                /\ conn.closed => conn.pending_packet_sources > 0
                /\ client_send(n, f)
                /\ device' = IF n = 0 THEN device ELSE Received(device, conn.channel[1])
                /\ UNCHANGED <<from_device, server>>

Fill == /\ ~conn.closed /\ fill(ClientCapacity - conn.used)
        /\ UNCHANGED <<device, from_device, server>>

ClientClose == client_close /\ UNCHANGED <<device, from_device, server>>

Next == \/ DeviceConnect \/ DeviceResendSyn \/ DeviceResend \/ DeviceAck
        \/ DeviceRead \/ DeviceReset
        \/ \E n \in 0 .. DeviceBytes, fin \in BOOLEAN : DeviceSend(n, fin)
        \/ ServerSend \/ ServerFin \/ ServerReset
        \/ Poll \/ OnReady \/ PushPacket \/ ClientSend \/ Fill \/ ClientClose

Spec == Init /\ [][Next]_vars

-----------------------------------------------------------------------------
\* The server receives the device's stream: each byte once, in order, and
\* none invented, whatever is retransmitted, dropped or partly written.
WrittenInOrder == \A i \in 1 .. Len(conn.written) : conn.written[i] = i

\* The device never takes as arrived a byte the server did not get: what
\* leaves its retransmission queue was written to the socket.
AckedIsWritten ==
  \A n \in 1 .. device.nxt - 1 : n < device.una => n <= Len(conn.written)

\* A device that respects the window never makes the relay drop a segment for
\* want of space, and its FIN is counted once.
WithinWindow == Len(conn.client_to_network) <= MaxWindow /\ conn.fins <= 1

\* As long as no packet had to wait for room, the header of every segment
\* tells its length, and its payload stands at the sequence number it is sent
\* with (one further for bytes read after the FIN was sent: process() reads on
\* a readiness that is older than its own FIN).
SegmentsMatch ==
  ~conn.deferred =>
    \A i \in 1 .. Len(conn.channel) :
      LET p == conn.channel[i]
          shift == IF conn.fin_sequence_number = NoSeqno THEN {0} ELSE {0, 1}
      IN /\ p.raw = p.total_length
         /\ p.raw > Headers =>
              \E k \in shift : p.seq = (conn.isn + 1 + p.pos + k) % SeqSpace

\* No segment goes beyond the window the device announced.
WindowRespected ==
  \A i \in 1 .. Len(conn.channel) :
    LET p == conn.channel[i]
    IN "PSH" \in p.flags =>
         (p.seq + p.total_length - Headers - device.irs) % SeqSpace <= device.edge

-----------------------------------------------------------------------------
(***************************************************************************)
(* What the source states and the relay does not keep.                     *)
(***************************************************************************)
\* update_interests() asserts that the connection is not closed.
ClosedAssertion == conn.panic # "closed"

(***************************************************************************)
(* Fairness: the poll loop runs the handlers of what is ready, the tunnel  *)
(* drains, and the device sends its SYN again until it is answered.        *)
(***************************************************************************)
ClientDrain == ClientSend /\ conn'.foreign = 0 /\ Len(conn'.channel) = 0

FairSpec == /\ Spec
            /\ WF_vars(Poll) /\ WF_vars(OnReady) /\ WF_vars(PushPacket)
            /\ SF_vars(ClientDrain)
            /\ WF_vars(DeviceResendSyn) /\ WF_vars(DeviceAck)

\* "losing such an empty packet will not break the TCP connection": a device
\* that opens a connection, and repeats its SYN, is eventually answered.
SynIsAnswered ==
  device.phase = "syn" ~> (device.phase # "syn" \/ conn.closed \/ ~Running)
=============================================================================
