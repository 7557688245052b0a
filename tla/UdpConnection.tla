--------------------------- MODULE UdpConnection ----------------------------
(***************************************************************************)
(* relay/udp_connection.rs: a UDP connection of a client.  Datagrams of    *)
(* the client wait in a DatagramBuffer until the socket can be written;    *)
(* datagrams of the network go to the client at once, or are dropped.      *)
(*                                                                         *)
(* As in TcpConnection, ready is the readiness sampled by the poll, until  *)
(* the connection's handler runs; the client's handler may run in between. *)
(***************************************************************************)
EXTENDS DatagramBuffer

CONSTANTS Datagrams,  \* the payloads of the client
          Pushes,     \* bound: the datagrams the client sends
          Spurious    \* may a readable event find nothing to read?

ASSUME UdpAssumption ==
  /\ Datagrams \subseteq Seq(Byte) /\ Pushes \in Nat /\ Spurious \in BOOLEAN
  /\ \A d \in Datagrams : Len(d) < MAX_DATAGRAM_LENGTH

VARIABLES client_to_network,  \* the DatagramBuffer
          interests,          \* what the socket is registered for
          closed,
          ready,              \* the polled readiness, until the handler runs
          panic,              \* the assertion of write_to() failed
          sent,               \* the last datagram the socket took
          pushed              \* how many datagrams the client sent

vars == <<client_to_network, interests, closed, ready, panic, sent, pushed>>

Interest == {"readable", "writable"}

TypeOK == /\ client_to_network \in Buffer
          /\ interests \subseteq Interest /\ ready \subseteq Interest \cup {"hup"}
          /\ closed \in BOOLEAN /\ panic \in BOOLEAN
          /\ sent \in Seq(Byte) /\ pushed \in 0 .. Pushes

\* create() registers the socket for reading.
Init == /\ client_to_network = new
        /\ interests = {"readable"} /\ closed = FALSE
        /\ ready = {} /\ panic = FALSE /\ sent = << >> /\ pushed = 0

-----------------------------------------------------------------------------
\* MUTANT: writing is never asked for.
wanted_readable(b) == {"readable"}
wanted(b) == IF is_empty(b) THEN {"readable"} ELSE {"readable", "writable"}

Running == ~panic

poll(events) ==
  /\ Running /\ ~closed /\ ready = {}
  /\ events # {} /\ (events \subseteq interests \/ events = {"hup"})
  /\ ready' = events
  /\ UNCHANGED <<client_to_network, interests, closed, panic, sent, pushed>>

\* The router hands over a packet of the client: kept, or dropped when the
\* buffer says it is full.
send_to_network(s) ==
  /\ Running /\ ~closed /\ pushed < Pushes
  /\ pushed' = pushed + 1
  /\ IF has_enough_space_for(client_to_network, Len(s))
     THEN /\ client_to_network' = read_from(client_to_network, s)
          /\ interests' = wanted(client_to_network')
     ELSE UNCHANGED <<client_to_network, interests>>
  /\ UNCHANGED <<closed, ready, panic, sent>>

(***************************************************************************)
(* process(): w is the outcome of send() on the socket, r that of recv().  *)
(* A send that would block is ignored, its datagram already popped; a recv *)
(* that would block leaves process() before update_interests().  A short   *)
(* send is an error; whether the client has room for what recv() returned  *)
(* changes nothing here.                                                   *)
(***************************************************************************)
Outcome == {"ok", "would block", "error"}

\* process_send(): pops a datagram, or fails the assertion.
process_send(w) ==
  IF is_empty(client_to_network)
  THEN panic' = TRUE /\ UNCHANGED <<client_to_network, sent>>
  ELSE /\ client_to_network' = write_to(client_to_network)
       /\ sent' = IF w = "ok" THEN datagram(client_to_network, client_to_network.tail)
                              ELSE sent
       /\ panic' = FALSE

process_hup == closed' = TRUE /\ interests' = {}
               /\ UNCHANGED <<client_to_network, panic, sent>>

process(w, r) ==
  /\ IF "writable" \in ready THEN process_send(w)
     ELSE UNCHANGED <<client_to_network, panic, sent>>
  /\ LET send_failed == "writable" \in ready /\ w = "error"
         receives == ~send_failed /\ "readable" \in ready
     IN /\ closed' = (~panic' /\ (send_failed \/ (receives /\ r = "error")))
        /\ interests' = IF closed' THEN {}
                        ELSE IF panic' \/ (receives /\ r = "would block") THEN interests
                        ELSE wanted(client_to_network')

on_ready(w, r) ==
  /\ Running /\ ready # {}
  /\ r = "would block" => Spurious
  /\ IF closed THEN UNCHANGED <<client_to_network, interests, closed, panic, sent>>
     ELSE IF ready \cap Interest = {} THEN process_hup
     ELSE process(w, r)
  /\ ready' = {}
  /\ UNCHANGED pushed

\* The router closes the connection: it expired, between a poll and the
\* handlers, or the client is gone.
close == /\ Running /\ ~closed
         /\ closed' = TRUE /\ interests' = {}
         /\ UNCHANGED <<client_to_network, ready, panic, sent, pushed>>

Poll == \E events \in SUBSET (Interest \cup {"hup"}) : poll(events)
OnReady == \E w, r \in Outcome : on_ready(w, r)

Next == Poll \/ OnReady \/ close \/ \E s \in Datagrams : send_to_network(s)

Spec == Init /\ [][Next]_vars

-----------------------------------------------------------------------------
\* Boundaries are preserved through wraps, zero-length datagrams, failed sends
\* and a full buffer: every datagram sent is one the client sent, whole, in
\* order and once; within the capacity only a failed send loses one.
Channel == INSTANCE DatagramChannel
             WITH queue <- blocks(client_to_network), Overhead <- HEADER_LENGTH
PreservesBoundaries == Channel!Spec

(***************************************************************************)
(* Fairness: a UDP socket is writable again and again, and polling is      *)
(* level-triggered: it cannot be registered for writing at infinitely many *)
(* polls and never be reported writable.  The poll loop runs the handlers  *)
(* of what it polled.                                                      *)
(***************************************************************************)
PollWritable == \E events \in SUBSET Interest : "writable" \in events /\ poll(events)
FairSpec == Spec /\ SF_vars(PollWritable) /\ WF_vars(OnReady)

\* What is held is eventually sent, whatever was skipped by spurious events: the
\* interest in writing is never lost.
Drains == ~is_empty(client_to_network) ~> (is_empty(client_to_network) \/ closed \/ panic)
=============================================================================
