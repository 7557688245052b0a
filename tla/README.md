# TLA+ models of revbridge

revbridge gives an Android device the network of a computer through adb. The
Android application is a VPN client that sends raw IPv4 packets over one TCP
connection (the tunnel) to a relay on the computer; the relay terminates TCP and
UDP towards the device and opens ordinary sockets towards the network; a desktop
program starts and supervises the relay and the application.

## Inventory

| Component | State | Operations | Interacts with |
|---|---|---|---|
| `StreamBuffer` | circular array, `head`, `tail` | `write_to`, `read_from`, `optimize` | TCP connections (device to socket), client (packets to the tunnel) |
| `DatagramBuffer` | circular array with two byte lengths | `has_enough_space_for`, `read_from`, `write_to` | UDP connections |
| `TcpConnection` | `Tcb` (state, numbers, window, FINs), stream buffer, packetizer, deferred packet, interests | `send_to_network`, `on_ready`, `get`/`next`, `close` | router (packets), selector (events), client (room, pending sources) |
| `UdpConnection` | datagram buffer, interests, idle time | `send_to_network`, `on_ready`, `close`, `is_expired` | same |
| `Client` | tunnel socket, packet buffers, pending sources, router | `on_ready`, `send_to_client`, `process_pending`, `close` | selector, connections, tunnel server |
| `Router`, `Selector`, `TunnelServer`, `Relay` | connections by id, handlers by token, clients | dispatch, create, remove, expire; register, deregister, run handlers; accept | all |
| `Ipv4PacketBuffer`, `ByteBuffer`, headers | bytes of the tunnel not yet parsed | `read_from`, `as_ipv4_packet`, `next` | client |
| `AdbMonitor`, `autostart` | read buffer, known devices, one start thread per device that appeared | `track_devices`, framing, `repair_adb_daemon`; `cmd_start` (check, install, reverse, start) | adb server, devices |
| Android `Forwarder`, `RelayTunnelProvider`, `PersistentRelayTunnel` | current tunnel, two threads, stop flags | `send`, `receive`, `invalidateTunnel`, `close` | VPN interface, relay |
| Android service and activity | VPN interface, notification | start, stop, revoke | forwarder |
| Desktop controller, relay and adb services | tunnel phase, active request, monitor, child process, devices | `startTunnel`, `stopTunnel`, `shutdown`, `reconnectIfNeeded`, lines and exit of the relay | adb, relay process, application |

What is hard, and where:

* **Stale readiness.** The relay is one thread. It polls, then runs one handler
  per event. A connection's handler acts on a readiness sampled before the other
  handlers of the batch, and the client's handler changes connections.
* **Early exits.** `WouldBlock` leaves `process()` in the middle, after some
  state has changed and before the interests are updated.
* **Shared room.** All connections of a client share one buffer. A data packet
  that finds no room waits in its connection until the client pulls it; an empty
  packet that finds no room is lost.
* **Wrapping** of sequence numbers and of the two circular buffers.
* **Termination**: two half-closes, retransmitted FINs, FIN behind buffered
  bytes, reset, loss of the client.
* **Batches.** A handler closes objects whose events are still to be handled, and
  frees tokens that a later handler may be given. The listener is edge-triggered.
* **Cut streams.** A packet of the tunnel or a device list of adb arrives in
  pieces, several at once, or never to its end.
* Threads (Android, adb) and awaits (desktop) that overlap start, stop and
  reconnect.

What makes a component correct: the stream buffer is a FIFO; datagrams keep
their boundaries; a TCP connection delivers the device's stream in order,
acknowledges only what it wrote, respects the window, never loses a wakeup and
does not fail its own assertions; a UDP connection sends what it holds; the
selector calls the right handler and keeps nothing alive that was closed; packets
survive any cutting of the tunnel stream and are answered with valid headers; the
adb monitor ends up knowing the devices that are online; the two Android threads
share one tunnel, replace it when it breaks and end when it is closed; the
desktop's state agrees with the processes it runs. `PROJECT.json` lists each
hazard at its line.

## Modules

| Module | Models |
|---|---|
| `StreamBuffer` | `stream_buffer.rs`. `buf`, `head`, `tail` are the fields; `sent` is what the destination of the last `write_to` took |
| `ByteFifo` | abstract: a bounded FIFO of bytes |
| `Lemmas` | lemmas the proofs share: `%` for an arbitrary modulus, sequences and flattened sequences, sums over finite sets, and induction over the naturals in the form the provers can use (`SetInduction`) |
| `TcpConnection` | `tcp_connection.rs`, with the part of `client.rs` and `packetizer.rs` it works on. `conn` is the object: every method is an operator from connection to connection with the name it has in the source, and a handler is the composition of the methods it calls. The actions are `poll` (a batch is sampled), `on_ready`, `push_packet` (one packet of `push_to_network`), `client_send` (`process_send` and `process_pending`), `fill` (other connections of the client), `client_close`. `ConnSpec` puts no constraint on the device or the network |
| `TcpTunnel` | `TcpConnection` between a device's TCP stack and a server, both external: handshake, segments, retransmissions, windows, half-closes, resets |
| `TcpTunnelProofs` | theorems about `StreamBuffer`, about `ConnSpec`, and, after them, about `TcpTunnel` |
| `DatagramBuffer` | `datagram_buffer.rs`, as operators on a buffer value, lengths stored as two digits |
| `DatagramChannel` | abstract: whole datagrams, in order, at most once |
| `UdpConnection` | `udp_connection.rs` over `DatagramBuffer` |
| `UdpConnectionProofs` | theorems about `UdpConnection` and the buffer |
| `Relay` | `relay.rs`, `selector.rs`, `tunnel_server.rs`, `client.rs`, `router.rs`: the poll loop over several clients and their connections. The actions follow the loop: `poll` samples a batch of events, `clean_up` expires idle connections, one handler runs per event, `clean_removed_tokens` ends the batch. A client that reads packets pushes them one action at a time. Methods map a `World` (the record of what handlers change) to the worlds they may leave, and `Becomes` makes one of them the next state. What a connection does with its bytes is in `TcpConnection` and `UdpConnection`; here it stays open or closes, and may give the client bytes |
| `RelayProofs` | theorems about `Relay` |
| `Headers` | `ipv4_header.rs`, `tcp_header.rs`, `udp_header.rs`, `transport_header.rs`: parsing and the setters, on raw bytes and parsed values side by side as in the code, and the checksums |
| `PacketPath` | `ipv4_packet_buffer.rs`, `ipv4_packet.rs`, `packetizer.rs`: the tunnel stream is cut into packets (`Receive`), a packet creates a connection's packetizer (`Create`), which builds answers (`Answer`) |
| `PacketPathProofs` | theorems about `PacketPath` and `Headers` |
| `AdbMonitor` | `adb_monitor.rs` and `autostart`, `cmd_start` of `main.rs`. A cell of the stream is a byte of a status or of a length, or a line of a list. The adb server, which may refuse and may die in the middle of a reply, and the devices are external |
| `AdbMonitorProofs` | theorem about `AdbMonitor` |
| `AndroidTunnel` | `RelayTunnelProvider.java`, `PersistentRelayTunnel.java`, `RelayTunnel.java`, `Forwarder.java`. `getCurrentTunnelLock` is the variable `lock`; a section synchronized on the provider is one step, since a thread sleeps in one only in `wait()`, which releases the monitor. `pc` is the place of each forwarding thread, `main` that of the thread that stops them. The relay is external: up, down, or mute (it accepts the connection and never sends the id) |
| `VpnOutput` | `IPPacketOutputStream.java` under `forwardTunnelToDevice`: what the receiver reads is cut into packets for the VPN interface. A byte is a digit of a small base, so that the longest packet the two length digits can say still fits, as in the code; tunnels are replaced between reads |
| `AndroidProofs` | theorems about `AndroidTunnel` and `VpnOutput` |
| `Desktop` | `controller.ts`, `services/relay.ts`, the quit handler of `main.ts`. A task is a call in progress (a start, a stop, the shutdown, the reconnection); its label `pc` names what it awaits and an action is the code between two awaits, so that the calls interleave exactly there. A continuation that waits for no event of its own (`Micro`) runs before any other event, as microtasks do. The phone, the cable, the relay process and the client are external |
| `DesktopProofs` | theorem about `Desktop` |
| `MC*` | instances for TLC |

History variables (not in the code): in `TcpConnection` the fields `isn`,
`written`, `taken`, `fins`, `deferred` and `panic`; in `UdpConnection` `sent`,
`pushed` and `panic`; in `Relay` `panic` and the field `leaked` (a deregister
failed); in `PacketPath` `sent`, `delivered` and `out`; in `AdbMonitor` `inflight`
(lists not yet handled), `stale` (a connection left bytes in the buffer), `failed`
and the counters; in `VpnOutput` `sent`,
`written` and `cut`; in `Desktop` `races`, `starts` and `faults`; in `AndroidTunnel` `late` (a tunnel was opened after the stop) and
`torn` (`getCurrentTunnel` returned another tunnel than the one it connected). A
failed assertion, lookup or `unwrap()` sets `panic` and stops the relay.

Definitions whose comment starts with MUTANT are deliberately wrong variants of
the definition below them; they are used nowhere and serve to check that the
properties notice such a change.

Two abstractions of the TCP module deserve a word. The packetizer keeps what it
holds only while a packet is deferred: otherwise the next packet overwrites it
before it is read. The length in a packet's header (`total_length`) and the
bytes copied (`raw`) are separate fields, because `get()` may pull a packet whose
header was overwritten by an empty one.

## Runs

| Run | Shows | Bounds |
|---|---|---|
| `stream_buffer` | the buffer implements `ByteFifo`; an empty buffer is rewound (`TypeOK` is proved) | capacity 4, six slices of 0 to 3 bytes: every position of head and tail, wraps in the middle of a slice, partial writes of all sizes |
| `udp` | datagrams are sent whole, in order, at most once; within the capacity only a failed send loses one (`PreservesBoundaries`); what is held leaves (`Drains`) | circular part of 9 cells, blocks of 2, 3 and 5 cells, 5 datagrams: blocks end before, at and after the end of the circular part, and the buffer fills up |
| `tcp` | ten invariants, below | sequence numbers modulo 8 starting at 6, so that both directions wrap; window 2, buffers of 3, headers of 1; 2 bytes each way; one device packet in flight |
| `tcp_closed_assertion` | violated: a closed connection is still asked for its deferred packet | as `tcp`, no spurious event |
| `tcp_lost_empty_packet` | violated: a lost SYN-ACK is never repeated | no data, fairness below |
| `relay` | six properties of the poll loop, below | two clients, two connections at a time, four slots, one TCP and two UDP ids, an id of 2 bytes that may be written in two parts: a slot, a connection and a router entry are all reused while events for their previous owner are in the batch |
| `relay_id` | violated: two devices connect before one poll, the edge-triggered listener reports once, and one of them is never accepted, though `RelayTunnel.java` relies on "the relay server immediately sends the client id" | two clients, one connection, fairness below |
| `packets` | the tunnel stream and the answers, below | packets of at most 45 bytes: TCP with and without options, with IP options, UDP with an empty, even and odd payload, a protocol the relay ignores; answers with payloads of up to 301 bytes; reads of every length |
| `adb` | the monitor and the start threads, below | two devices, two changes, one death of the server or failing command, a buffer of 4 cells with headers of 2: a list that just fits, a list cut anywhere, two lists in a read, two start threads for one device |
| `android` | the Android threads, below | four tunnel objects: the current one, one held by each worker, one to open. Objects nobody refers to are reused, so the number of reconnections is not bounded |
| `vpn_output` | packets reach the VPN one by one, whole and in order (`WritesWholePackets`) as long as no tunnel breaks within a packet | digits of base 4, packets of 5 and 6 digits, four per tunnel, two tunnels, reads of every length |
| `desktop` | the desktop program, below | two starts that are not refused, one start and one stop at a time beside the shutdown and the reconnection, two relay processes (an old one that ends late and its successor), one fault: a cable pulled, a command or a relay that fails; one unread line |

The `tcp` invariants: `NoPendingOverrun` (the assertion "A pending packet was
not sent" holds despite stale readiness), `NoLostWakeup` (the socket is always
registered for what the state waits for), `RegisteredWhilePending` (the client
lists the connection exactly while it holds a packet), `AckIsWritten` (the
acknowledgement number counts exactly the bytes given to the socket),
`WrittenInOrder` (the server gets the device's stream), `AckedIsWritten` (the
device drops from its retransmission queue only what was written),
`WithinWindow` (no segment of a device that respects the window is dropped, a FIN
counts once), `SegmentsMatch` (the bytes stand at the sequence numbers they are
sent with, as long as no packet was deferred), `WindowRespected` (no segment
beyond the announced window). `TypeOK` holds the 32 bit range of the numbers.

`relay`: `DispatchesToOwner` (a handler that runs belongs to the object whose event
was polled, although a token of the batch was freed or reused), `LookupsSucceed` (every
token, connection and client that is looked up with an `expect()` or a `panic!()` is
found; the `unwrap()` in `Client::close()` is not a lookup, see below), `RegisteredIsRouted` (a connection is known to
epoll exactly while the router of a live client holds it, once per id),
`NothingKeptAlive` (between batches the slab holds what is registered, and only
connections whose deregister failed besides), `BytesAreWatched` (a client with bytes
for its device is registered for writing, also after an early exit), `CleansTheIdle`
(an expiry closes the idle connections, all and no other, while it removes from the
list it walks).

`packets`: `DeliversWhatWasSent` (packets arrive whole and in order however reads cut
them, and the buffer always has room for the next read: a read of 0 would close the
client), `DataMatchesRaw` (the parsed values and the bytes of a header
never drift apart), `ChecksumsVerify` (a receiver's own sum accepts the packet; its
definition is RFC 1071's, not the code's), `AnswersTheReference` (the packet, parsed
again, mirrors the one that created the connection).

`adb`: `InStep` (what the monitor holds and has still to read is always a sequence of
whole lists of this connection, the types hold, and the monitor does not panic), `Follows` (in the
end the known devices are those online), `Autostarts` (a device that stays online
ends with the client installed, tunnelled and started, though two start threads may
work on it).

`android`: `OneTunnel` (at most one tunnel is not closed, and it is the current one),
`ListenerAgrees` (the listener was told the state of the current tunnel),
`ClosesOnlyBroken` (a worker never closes a tunnel that works, in particular not the
one the other worker opened since), `Stops` (after the stop both workers end and no
tunnel is open), `Reconnects` (with a relay that answers, a tunnel is connected for
good in the end).

`desktop`: `StopIsQuiet` (after a stop, with no call in progress, no reconnection is
scheduled, no relay runs and the phone has neither mapping nor client), `Quits` (the
program quits whatever was in progress, even if the relay ignores SIGTERM), `Restores`
(a monitored tunnel whose phone and relay are there gets its mapping back, or is still
connected).

### Cases the properties exclude

These are behaviours of the code that a property would be violated by; the property
names the case, and `PROJECT.json` lists it with its hazard, which has no property
when all of it lies in the case: the model has the behaviour, and the runs say nothing
of it.

* `AdbMonitor`: `consume_okay` does not leave its loop on the end of the stream, so a
  server that dies within the status leaves the monitor spinning (`Spins`); the
  buffer is not reset between connections, so what is left of a cut list starts
  the next connection (`stale`). The known devices are kept over a restart of the adb
  server, so `Autostarts` speaks of one server.
* `AndroidTunnel`: the last `return tunnel` of `getCurrentTunnel` is outside the lock.
  It may return null, which ends the worker, or a tunnel the other worker is still
  connecting (`torn`). A worker that tested `stopped` just before the stop may open a
  tunnel after `close` (`late`), although `Forwarder.java` says at the wake-up that
  the tunnel is closed.
* `VpnOutput`: a tunnel that breaks within a packet (`cut`) leaves its start in the
  buffer, the framing of the next tunnel is lost, and `clear` before `compact` can fill
  the buffer for ever.
* `Desktop`: the exit of an old relay process drops the reference to the new one, which
  then outlives every stop (race `relay`); a command issued before a stop takes effect
  after it, or a command of the stop fails (`phone`); a start that ends while a stop
  is waiting, or after the stop and for the request of a later start, sets the monitor
  again (`monitor`); a line of a process that has ended is
  taken for one of its successor (`line`).
* `TcpTunnel`: bytes and a FIN on the ACK that completes the handshake
  (`HandshakeFin`): the bytes are dropped and the FIN acknowledges one of them, which
  violates `AckedIsWritten`.
* `Relay`: `Client::close()` unwraps the result of `deregister()`, which a comment in
  `tcp_connection.rs` says can fail. `close_client` has both outcomes: after a failure
  `panic` is `"deregister"` and the relay takes no further step. `LookupsSucceed` is about
  the other value of `panic`, `"lookup"`; the other properties of the run hold in the
  state that the panic leaves. Connections let the same failure pass (`leaked`).
* `TcpTunnel`: `WindowRespected` covers windows that close and open again and numbers
  that wrap, compared modulo the run's small modulus. The device never takes back
  window that it announced, so what a smaller window does to
  `remaining_client_window()` is not checked.
* `UdpConnection`: `PreservesBoundaries` admits the loss of a buffer filled to its last
  cell, which looks empty.
* `UdpConnection` and `TcpConnection`: the assertions that a stale writable event, or a
  FIN of the same batch, can fail are listed as hazards.

### Bounds of the connection runs

The bounds are enough for the cases the properties are about: every state of the
TCP automaton the code can reach, a deferred packet followed by every kind of
event, a window that closes and opens again, a partial write, a retransmission
that overlaps, a FIN behind buffered bytes, and wraps in both directions all occur.
The interesting steps involve one or two bytes; a window of 2 lets a segment be
cut or overlap.

The relay announces to the device the window of the device's own SYN, since the
packetizer copies that header: the device model respects that window.

### Fairness

`TcpTunnel!FairSpec`: weak fairness of the poll, of the handler of a polled event
and of handling a packet that is in the tunnel (the poll loop never stops and
runs every handler of the batch); strong fairness of the client's drain (the
tunnel socket becomes writable again and again); weak fairness of the device's
SYN retransmission and ACK. `UdpConnection!FairSpec`: weak fairness of the handler,
strong fairness of a poll that reports writability: UDP sockets become writable
again and again and polling is level-triggered. Nothing is assumed of expiry,
closing, or new packets.

`Relay!FairSpec`: weak fairness of the steps of the loop; strong fairness of a poll
that reports the listener or a client that is registered for writing (the kernel
reports what is ready), and of the write of the id and the accept by the handlers
that try them. `AdbMonitor!FairSpec`: weak fairness of the monitor and of each start
thread, whose result stays arbitrary; strong fairness of a successful `adb
start-server` and of an OKAY, so that adb does not fail for ever.
`AndroidTunnel!FairSpec`: weak fairness of each worker, of the sender's read when a
packet is there, and of the stop once it began. Nothing is assumed of the relay, of
the packets it sends (a `receive` may block for ever) or of the user.
`Desktop!FairSpec`: weak fairness of the calls in progress, of the timers, of the
exit of a process killed by SIGKILL, of reading a line and of a stopped client's
disconnection; strong fairness of the reconnection's `reverse`. That an awaited adb
command ends at all is an assumption on the USB library: `runForDevice` takes a time
limit and ignores it. Nothing is assumed of a relay asked to terminate.

`CHECK_DEADLOCK FALSE` is used throughout: a closed connection, a relay that panicked,
a program that quit, and threads that ended or that wait for a device stop.

## Proofs

* `TcpTunnelProofs!BufferSafety`: `BufferSpec => [](BufferTypeOK /\ EmptyIsRewound)`, and
  `BufferIsFifo`: `BufferSpec => ImplementsFifo`, for every capacity and every set of
  bytes and chunks. The inductive invariant is the conjunction of the two; the
  refinement shows that storing a slice appends it to `contents` and that taking
  w bytes removes a prefix, slot by slot, on both sides of the wrap.
* `TcpTunnelProofs!ConnectionSafety`: `ConnSpec` implies, always, `ConnTypeOK`,
  `NoPendingOverrun`, `NoLostWakeup`, `RegisteredWhilePending` and `AckIsWritten`, for
  every modulus, capacity and window, every packet of a device and every result
  of the socket. `Steady` is what every method keeps, even in the middle of a
  handler; `Safe` adds what holds between handlers; the inductive invariant `IInv`
  adds that a polled readable event implies that no packet is deferred. That last
  part is why `NoPendingOverrun` holds: only the handler that consumes the
  readiness defers a packet, and it drops the interest in reading before the next
  poll. `NoLostWakeup` needs, for the exits on `WouldBlock`, that what the methods
  before the exit did makes the connection want less (`Calmer`), never more.
  There is one lemma per method of the source.

* `TcpTunnelProofs`, continued: the tunnel with a device and a server, for every modulus,
  capacity, window and stream.
  * `TunnelImplementsConnection`: `Spec => ConnSpec`, every packet the device puts into
    the tunnel is one `ConnSpec` allows. `PendingIsNeverOverrun`, `WakeupIsNeverLost`
    and `PendingIsRegistered` follow through it, and `TunnelTypes` adds the device's
    and the network's types. The step needs `Link`, which ties the connection to the
    device: a connection that has not answered has sent nothing, and a device whose
    SYN was not answered only sends SYNs.
  * `StreamIsInOrder` (`WrittenInOrder`), `OnlyWrittenIsAcked` (`AckedIsWritten`) and
    `BufferKeepsWithinWindow` (`WithinWindow`), all from the inductive invariant
    `Order`. Numbers are only known modulo 2^32, so the argument is about distance:
    every packet in flight stands less than one turn of the numbers away from the
    one that is expected (`Flying`), so a packet that the code accepts because its
    number is equal modulo 2^32 really is the expected one (`Stream`). `Chan` keeps
    the acknowledgements in the channel ascending and none above what was written;
    `Handshake` covers the time before the connection is established. These three
    assume `HandshakeFin = FALSE`: with a FIN and bytes on the ACK that completes the
    handshake they do not hold (see the excluded cases).
  * `SegmentsStandInPlace` (`SegmentsMatch`) and `WindowIsRespected` (`WindowRespected`),
    without that assumption, from the inductive invariant `Flows`. `Numbered` counts what
    the sequence number stands for: the SYN, the bytes taken and the FINs sent. There may
    be two FINs, as `process()` can read the end of the stream just after `process_send()`
    sent one in answer to the device's; then `Silent` says that nothing is read any more,
    so no byte is ever two numbers too far. For the window, the last offer the connection
    heard, and each one still in the tunnel, is a point of the device's stream and a
    length that end at or before the edge (`Offered`); what `remaining_client_window()`
    admits ends before it too (`RemainingInEdge`), and the edge never moves back. A
    packet that was deferred keeps the length in its header, so it ends where it did.
    `Started` covers the time before the SYN-ACK, when the device does not yet know the
    connection's first number.
* `AndroidProofs`, on `AndroidTunnel`: `TunnelTypes` (`TypeOK`), `WorkersShareOneTunnel`
  (`OneTunnel`), `ListenerIsRight` (`ListenerAgrees`) and the action property
  `OnlyBrokenClosed` (`ClosesOnlyBroken`), for any number of tunnel objects. The
  inductive invariant says who may hold the lock where (`Held`) and, as long as
  nothing was `late` or `torn` (`Orderly`), that a tunnel that is being connected is
  the current one and held by the worker in `connect`, that a tunnel a worker reports
  as failed has failed, and that two workers with different tunnels are at most one
  replacement apart.
* `RelayProofs`: the poll loop, for any number of clients, connections, ids and slots:
  `RelayTypeSafe` (`TypeOK`), `RelayDispatches` (`DispatchesToOwner`), `RelayLookupsSucceed`
  (`LookupsSucceed`), `RelayRegisteredIsRouted`, `RelayKeepsNothing` (`NothingKeptAlive`),
  `RelayWatchesBytes` (`BytesAreWatched`) and the action property `RelayCleansTheIdle`
  (`CleansTheIdle`). The methods of the model map worlds to worlds, and so does the
  invariant: `Sound(w)` is the conjunction of `Slab` (a token stands for one object, which
  knows the token, and is marked for removal exactly when that object was closed and
  deregistered), `Open` (what is registered, and in the server's list, is what is open),
  `Routes` (the routers of the open clients hold the open connections, each once),
  `Turns` (devices get their ids in turn, a client that pushes is open) and `Watched`.
  One lemma per method shows that it leaves only sound worlds and that `Grows` holds: a
  token that stands for an object still does. That is what keeps `DispatchesToOwner`
  through a batch; only `clean_removed_tokens` takes tokens away, when no event is left.
  No panic is a part of `Sound`, since each lookup finds what `Slab`, `Open` or `Routes`
  says is there. The one panic the system can cause is that of `Client::close()`:
  the inductive invariant is `Live \/ Stopped`, where `Live` is built on `Sound` and
  `Stopped` says that the relay stands still in what `unwrap_fails` leaves of a sound
  world; each theorem is shown in both cases. The walk of `clean_expired_connections` is a recursive function
  over the indices; `SetInduction` (from the least element of a set of naturals) carries
  `Visited` over it: the entries above the index are the ones to keep, those below were
  not moved.
* `UdpConnectionProofs`: `UdpTypeSafe` (`TypeOK`) and `UdpKeepsBoundaries`
  (`PreservesBoundaries`: the connection implements `DatagramChannel`), for every
  capacity, radix and set of datagrams. The inductive invariant adds `Layout` to the
  types: the blocks met from `tail` lead to `head` (`Chain`) and lie in ascending order
  without overlap (`Run`), or in two such runs (`Split`), where the last block of the
  first runs to the end of the circular part or over it and the second run stays below
  the first. `Stored` shows that the bytes `read_from` writes at `head` belong to no block
  held, in particular those beyond the circular part, whose cells are not brought back
  to 0; so the blocks held read as before and the new one follows them (`Extend`).
  `RunBytes` adds up the lengths of a run: when the new block ends exactly at `tail`,
  which makes the buffer look empty, the queue with it exceeds the capacity. What a walk
  over the blocks meets is a recursive function; the inductions are by `SetInduction`.
* `AndroidProofs!VpnWritesWholePackets`: `OutputSpec => []WritesWholePackets`, for every base,
  every set of packets that tell their length, and any number of tunnels. The invariant
  adds to the property that between two reads the buffer holds no whole packet. As the
  bytes written, buffered and unread are together the packets sent, the unread ones begin
  with the first packet not yet written (`NextPacket`), so the two digits `sinkPacket`
  reads are that packet's length (`ReadsItsLength`); a buffer that does not hold it whole is
  shorter than it, which leaves room for a read of the longest packet (`Between`): the
  `put` that nobody catches does not throw. Most lemmas are about `FlattenSeq`.
* `DesktopProofs!StopLeavesQuiet`: `Spec => []StopIsQuiet`, for any number of starts, stops
  and relay processes in flight at a time, where the run has one start and one stop. The
  inductive invariant has a part for each history. Without the race `relay`, a process
  that runs is the one `RelayService` refers to (`OneRelay`), and an idle tunnel has no
  reference (`Referred`). Without `phone`, the phone is clean while there is no request or
  the tunnel is idle, and behind a stop that has removed the mapping and the client
  (`Clean`); this is why `stopTunnel` may skip the commands on the phone when there is
  neither a serial nor a request. Without `monitor`, a monitor that is set has a request
  and no stop is in progress (`Monitored`). The proof found the second case of that race:
  with two starts, the first may set the monitor for the second's request after the stop,
  and the second may then fail before it leaves the phase `idle`.
* `AdbMonitorProofs!MonitorInStep`: `Spec => []InStep`, for every finite set of devices,
  every size of the header and of a buffer that holds one, and any number of changes
  and faults. What the monitor holds and has still to read is `Flow(h)`: h followed by
  the lists in flight, of which only a connection that ended may have lost the end. In
  the loop over the packets h is empty, so a packet that is whole in the buffer is the
  oldest list in flight (`FirstPacket`). Before that h is what an older connection left,
  and the reply (`Awaits`). A broken connection leaves bytes that hold no status OKAY at
  a multiple of a header (`Leftover`), and the monitor reads more only while it holds
  less than a header; so the OKAY it accepts is the one of this connection, although the
  buffer is not emptied in between. The types bound the start threads of a device, and
  need that they never outnumber its appearances: `Budget` ties the threads, the lists
  the monitor has still to handle and the changes made (`Fits`).
* `PacketPathProofs`: `RouterGetsWhatWasSent` (`DeliversWhatWasSent`), `PathTypes`
  (`TypeOK`), `StoredIsParsed` (`DataMatchesRaw`), `ReceiverAcceptsChecksums`
  (`ChecksumsVerify`) and `AnswerIsMirrored` (`AnswersTheReference`), for every stream of
  well-formed packets, every cut into reads, every payload, number and flags. The
  inductive invariant is `PathInv`, of two parts.
  * `Delivery`: the packets sent are those delivered and some that are left, and the
    buffer and the stream are the bytes of these (`Framed`). The two bytes of a length
    are therefore the length of the next packet (`NextSent`), a round of
    `push_to_network` hands over that packet (`PushFramed`), and `SetInduction` carries
    `Framed` over the rounds. After as many rounds as the buffer had bytes no whole packet
    is left, so what remains is shorter than the longest packet and there is room for a
    read (`RoomForMore`): no read of 0 bytes is taken for the end of the tunnel.
  * `Heads`: the packetizer is made of an IPv4 header r, a transport header t and a
    payload, with parsed values that are a function of these bytes (`Parts`: `Network(r)`
    and `Transport(protocol, t)`), which mirror the packet that created the connection
    (`Mirrored`), and the last packet built is their concatenation with its lengths and
    checksums in place (`BuiltFrom`). One lemma per setter says that it writes its word
    and nothing else (`Kept`), so that the parsed values stay those of the bytes.
  * The sum of the code, folded until it fits in 16 bits, is its argument modulo 65535
    (`FoldedIs`), and so is the receiver's. Both are added up as the bytes in the even
    places, each 256 times, and those in the odd ones (`Every`), for which concatenation
    and the padding of an odd payload are simple (`EveryConcat`, `OnesSumIs`); the word
    of the checksum, cleared before and complemented after, makes the sum 0 modulo 65535
    (`Ipv4Sum`, `TcpSum`, with the pseudo-header in `PseudoHeaderSum`).
  * `ParsedAgain` parses the bytes of a built packet as `Ipv4Packet` does and finds the
    same headers and payload; the last two theorems follow from it.

The proofs assume only what the modules' ASSUMEs state: positive modulus, header
length and payload length, a window smaller than the modulus (less one, for the FIN)
and not above the capacity of the stream buffer, natural capacities. In the code these
are 2^32, 65535 and 4 * 65536. For `Relay`: client ids are naturals, the id has at least
one byte, TCP and UDP ids are disjoint, and `None` is none of the ids, tokens and objects.
For `VpnOutput`: a packet has at least four digits and tells its own length, a read is at
most the longest packet. For `UdpConnection`: a radix of at least 2 and datagrams shorter than its square (65536 in
the code, more than a UDP payload can have). For `AdbMonitor`: finitely many devices, a
header of at least one cell that fits in the buffer. For `PacketPath`: the lengths in a
device's packet are those of the packet and of its headers (`WellFormed`; the IP stack of the device
writes them, the code does not check them), it is no longer than the relay's buffer, and the
answer's length fits in 16 bits (`Answerable`: the relay reads at most
`MAX_PAYLOAD_LENGTH` bytes of a TCP stream, and a datagram of a socket leaves room for the
two headers). TLC evaluates these assumptions in every run of the module.

Every safety invariant and every action property of the passing runs is stated by a
theorem. Only model-checked: the liveness properties (`Drains`, `Follows`, `Autostarts`,
`Stops`, `Reconnects`, `Quits`, `Restores`), as fairness is outside the provers' reach,
and the three properties that the code violates.

## Not modelled, and the plan

* The Android service, activity and notifications: intents and the VPN builder are
  platform calls. The service's `close` is the `stop` of `AndroidTunnel`. A second
  session of the service has a forwarder and a provider of its own.
* The desktop user interface (a view of the snapshot), settings, diagnostics, the log,
  the list of devices and the USB protocol of the adb service; a second quit request,
  which ends the program at once.
* Command line parsing, logging, `cmd_run`'s Ctrl-C handler, and commands that run one
  adb command and end.
* Text: bytes of an adb line, UTF-8 errors, messages.

* `reregister()` is taken to succeed: `update_interests()` expects it to, and nothing in
  the code says that it may fail.
* In `Desktop`, a start that is clicked while the program quits; two lines of the relay
  that arrive in one chunk are separate events, and a `reverse` on the phone is one step.

Overflow of `fin_sequence_number + 1` follows the release build (it wraps).

Planned, in this order:

1. Properties for hazards that have none, as far as the code promises anything there:
   the window that a FIN of the same batch uses up, the bytes and the FIN of the ACK that
   completes the handshake, the rest of a client id that was written in part, and the
   overflow of `fin_sequence_number + 1`, which needs the debug build as a variant.
2. A second session of the Android service over a stop that left a tunnel open.
