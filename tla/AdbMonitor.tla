----------------------------- MODULE AdbMonitor -----------------------------
(***************************************************************************)
(* adb_monitor.rs and the autostart command of main.rs: the thread that    *)
(* follows the device lists of the adb server, and the thread it spawns    *)
(* for every device that appears, which installs and starts the client.    *)
(*                                                                         *)
(* A cell of the stream stands for a byte of a status or of a length, or   *)
(* for a line of a list.  The adb server (external) may refuse to track,   *)
(* and may die in the middle of a reply; devices come and go at any time.  *)
(***************************************************************************)
EXTENDS Integers, Sequences, SequencesExt, FiniteSets

CONSTANTS Devices,       \* bound: the serials
          HEADER,        \* cells of a status and of a length (4)
          BUFFER_SIZE,   \* cells of the buffer (1024)
          MaxChanges,    \* bound: changes of the state of a device
          MaxFaults,     \* bound: deaths of the adb server, and devices whose commands fail
          Preinstalled   \* devices that have the required client at first

ASSUME AdbAssumption ==
  /\ IsFiniteSet(Devices) /\ Preinstalled \subseteq Devices
  /\ HEADER \in Nat \ {0} /\ BUFFER_SIZE \in Nat /\ BUFFER_SIZE >= HEADER
  /\ MaxChanges \in Nat /\ MaxFaults \in Nat

VARIABLES attached,            \* the state adb gives to each device (external)
          up,                  \* the adb server runs (external)
          stream,              \* cells sent to the monitor and not yet read
          ended,               \* "no", or how the connection ended: "eof", "reset"
          pc,                  \* where the monitor thread is
          buf, connected_devices,
          starts,              \* how many async_start() threads of a device are at a step
          installed,           \* devices that have the required client
          tunnel,              \* devices where adb reverse is in place
          running,             \* devices where the client was started
          inflight,            \* history: lists sent on this connection, not handled
          stale,               \* history: a connection ended and left cells in buf
          failed,              \* history: devices on which a command failed
          changes, crashes

vars == <<attached, up, stream, ended, pc, buf, connected_devices, starts,
          installed, tunnel, running, inflight, stale, failed, changes, crashes>>
device_vars == <<attached, changes>>
history_vars == <<stale, failed, crashes>>
start_vars == <<starts, installed, tunnel, running>>

Step == {"check", "install", "tunnel", "start"}   \* of a start thread

Status(s) == [i \in 1 .. HEADER |-> <<s, i>>]
Length(n) == [i \in 1 .. HEADER |-> <<"length", n, i>>]
Line(d, state) == <<"line", d, state>>

\* What the adb server sends: a line for every device that is attached, in some order.
DeviceList(att) ==
  LET seen == SetToSeq({d \in Devices : att[d] # "absent"})
  IN  [i \in DOMAIN seen |-> Line(seen[i], att[seen[i]])]
Packet(list) == Length(Len(list)) \o list

Connected == pc \in {"status", "packets"} /\ ended = "no"
Online == {d \in Devices : attached[d] = "device"}

TypeOK == /\ attached \in [Devices -> {"absent", "offline", "device"}]
          /\ up \in BOOLEAN /\ stale \in BOOLEAN
          /\ ended \in {"no", "eof", "reset"}
          /\ pc \in {"connect", "status", "packets", "repair", "panic"}
          /\ Len(buf) <= BUFFER_SIZE /\ connected_devices \subseteq Devices
          /\ starts \in [Devices -> [Step -> 0 .. MaxChanges + 1]]
          /\ installed \subseteq Devices /\ tunnel \subseteq Online
          /\ running \subseteq installed /\ failed \subseteq Devices
          /\ changes \in 0 .. MaxChanges /\ crashes \in 0 .. MaxFaults

\* AdbMonitor::new(), called by cmd_autostart().
Init == /\ attached \in [Devices -> {"absent", "device"}]
        /\ up \in BOOLEAN /\ stream = << >> /\ ended = "no"
        /\ pc = "connect" /\ buf = << >> /\ connected_devices = {}
        /\ starts = [d \in Devices |-> [step \in Step |-> 0]]
        /\ installed = Preinstalled /\ tunnel = {} /\ running = {}
        /\ inflight = << >> /\ stale = FALSE /\ failed = {}
        /\ changes = 0 /\ crashes = 0

-----------------------------------------------------------------------------
(* The adb server and the devices (external). *)

Change(d, state) ==
  /\ changes < MaxChanges /\ state # attached[d]
  /\ changes' = changes + 1
  /\ attached' = [attached EXCEPT ![d] = state]
  /\ tunnel' = tunnel \ {d}
  /\ IF Connected
       THEN /\ stream' = stream \o Packet(DeviceList(attached'))
            /\ inflight' = Append(inflight, DeviceList(attached'))
       ELSE UNCHANGED <<stream, inflight>>
  /\ UNCHANGED <<up, ended, pc, buf, connected_devices, starts, installed, running, history_vars>>

\* The server dies: what it sent last may be lost, from any byte on.
Crash(n, how) ==
  /\ up /\ crashes + Cardinality(failed) < MaxFaults
  /\ up' = FALSE /\ crashes' = crashes + 1 /\ tunnel' = {}
  /\ IF Connected THEN stream' = SubSeq(stream, 1, n) /\ ended' = how
                  ELSE UNCHANGED <<stream, ended>>
  /\ UNCHANGED <<device_vars, pc, buf, connected_devices, starts, installed, running,
                 inflight, stale, failed>>

-----------------------------------------------------------------------------
(* The monitor thread. *)

\* The stream is dropped: by an error, after which the daemon is repaired, or
\* by a refusal.  buf is not cleared.
drop_stream(then) ==
  /\ pc' = then /\ stream' = << >> /\ ended' = "no" /\ inflight' = << >>

\* The next n cells of the stream go to the buffer.
read_from(n) ==
  /\ n > 0 /\ Len(buf) + n <= BUFFER_SIZE
  /\ buf' = buf \o SubSeq(stream, 1, n) /\ stream' = SubSeq(stream, n + 1, Len(stream))
  /\ UNCHANGED <<pc, ended, inflight, connected_devices, starts, stale>>

\* A read that returns no cell: at the end of the stream, or with a full buffer.
ReadsNothing == (stream = << >> /\ ended = "eof") \/ Len(buf) = BUFFER_SIZE
ReadFails == stream = << >> /\ ended = "reset"

fail == /\ drop_stream("repair") /\ stale' = (stale \/ buf # << >>)
        /\ UNCHANGED <<buf, connected_devices, starts>>

\* TcpStream::connect() and write_all().  The server answers with the status
\* and the list it has, or refuses and closes.
track_devices(status) ==
  /\ pc = "connect"
  /\ IF up THEN /\ pc' = "status"
                /\ IF status = "OKAY"
                     THEN /\ stream' = Status(status) \o Packet(DeviceList(attached))
                          /\ inflight' = <<DeviceList(attached)>> /\ ended' = "no"
                     ELSE /\ stream' = Status(status) \o Packet(<< <<"message">> >>)
                          /\ inflight' = << >> /\ ended' = "eof"
           ELSE pc' = "repair" /\ UNCHANGED <<stream, ended, inflight>>
  /\ UNCHANGED <<device_vars, up, buf, connected_devices, start_vars, history_vars>>

\* The loop of consume_okay() ignores the end of the stream: it then spins.
consume_okay(n) ==
  \/ Len(buf) < HEADER /\ read_from(n)
  \/ Len(buf) < HEADER /\ ReadFails /\ fail
  \/ /\ Len(buf) >= HEADER
     /\ buf' = SubSeq(buf, HEADER + 1, Len(buf))
     /\ IF SubSeq(buf, 1, HEADER) = Status("OKAY")
          THEN pc' = "packets" /\ UNCHANGED <<stream, ended, inflight, stale>>
          ELSE drop_stream("connect") /\ stale' = (stale \/ buf' # << >>)
     /\ UNCHANGED <<connected_devices, starts>>

parse_length(input) ==
  {n \in 0 .. Cardinality(Devices) : SubSeq(input, 1, HEADER) = Length(n)}

\* MUTANT: the header is not counted.
available_packet_length_headerless(input) ==
  IF Len(input) < HEADER THEN {}
  ELSE IF \A n \in parse_length(input) : n > BUFFER_SIZE THEN {-1}
  ELSE {HEADER + n : n \in {n \in parse_length(input) : Len(input) >= n}}

\* The cells of the first packet, {} if it is not complete, and -1 for an error.
available_packet_length(input) ==
  IF Len(input) < HEADER THEN {}
  ELSE IF \A n \in parse_length(input) : n > BUFFER_SIZE THEN {-1}
  ELSE {HEADER + n : n \in {n \in parse_length(input) : Len(input) - HEADER >= n}}

parse_connected_devices(list) ==
  {d \in Devices : \E i \in DOMAIN list : list[i] = Line(d, "device")}

\* One more thread, before its first step.
async_start(threads) == [threads EXCEPT !["check"] = @ + 1]

\* MUTANT: a device that goes away is not forgotten.
handle_packet_only_adds(list) ==
  LET current == parse_connected_devices(list)
  IN  /\ starts' = [d \in Devices |-> IF d \in current \ connected_devices
                                        THEN async_start(starts[d]) ELSE starts[d]]
      /\ connected_devices' = connected_devices \cup current

\* A start thread is spawned for every device that was not in the last list.
handle_packet(list) ==
  LET current == parse_connected_devices(list)
  IN  /\ starts' = [d \in Devices |-> IF d \in current \ connected_devices
                                        THEN async_start(starts[d]) ELSE starts[d]]
      /\ connected_devices' = current

\* MUTANT: as in consume_okay(), the end of the stream is not an error.
fill_buffer_from_spins == ReadFails

\* When fill_buffer_from() returns an error.
fill_buffer_from_fails == ReadFails \/ ReadsNothing

\* One round of the loop of next_packet(), and handle_packet().
next_packet(n) ==
  LET length == available_packet_length(buf)
  IN  \/ length = {} /\ read_from(n)
      \/ (length = {-1} \/ (length = {} /\ fill_buffer_from_fails)) /\ fail
      \/ \E len \in length \ {-1} :
           IF len > Len(buf)    \* a slice out of range
             THEN pc' = "panic" /\ UNCHANGED <<buf, connected_devices, starts, stream,
                                               ended, inflight, stale>>
             ELSE /\ handle_packet(SubSeq(buf, HEADER + 1, len))
                  /\ buf' = SubSeq(buf, len + 1, Len(buf))
                  /\ inflight' = Tail(inflight)
                  /\ UNCHANGED <<pc, stream, ended, stale>>

ConsumeOkay == \E n \in 0 .. Len(stream) :
  /\ pc = "status" /\ consume_okay(n)
  /\ UNCHANGED <<device_vars, up, installed, tunnel, running, failed, crashes>>

NextPacket == \E n \in 0 .. Len(stream) :
  /\ pc = "packets" /\ next_packet(n)
  /\ UNCHANGED <<device_vars, up, installed, tunnel, running, failed, crashes>>

\* adb start-server, which may fail.
repair_adb_daemon(ok) ==
  /\ pc = "repair" /\ pc' = "connect" /\ up' = (up \/ ok)
  /\ UNCHANGED <<device_vars, stream, ended, buf, connected_devices, start_vars,
                 inflight, history_vars>>

-----------------------------------------------------------------------------
(* The threads of async_start(). *)

\* An adb command starts the server if there is none.  It fails on a device
\* that is not there, and may fail on one that is.
exec_adb(d, ok) == /\ up' = TRUE
                   /\ ok => d \in Online
                   /\ IF ok \/ d \notin Online \/ d \in failed
                        THEN UNCHANGED failed
                        ELSE /\ crashes + Cardinality(failed) < MaxFaults
                             /\ failed' = failed \cup {d}

must_install_client(d) == d \notin installed

\* Replacing the package (install -r) stops the client.
cmd_install(d) == /\ installed' = installed \cup {d} /\ running' = running \ {d}
                  /\ UNCHANGED tunnel

cmd_tunnel(d) == tunnel' = tunnel \cup {d} /\ UNCHANGED <<installed, running>>

\* A thread of d takes its step: cmd_start(), whose error ends the thread.
cmd_start(d, step, ok) ==
  LET Then(next) == starts' = [starts EXCEPT ![d][step] = @ - 1, ![d][next] = @ + 1]
      Ends == starts' = [starts EXCEPT ![d][step] = @ - 1]
  IN  /\ exec_adb(d, ok)
      /\ \/ ~ok /\ Ends /\ UNCHANGED <<installed, tunnel, running>>
         \/ /\ ok /\ step = "check"
            /\ Then(IF must_install_client(d) THEN "install" ELSE "tunnel")
            /\ UNCHANGED <<installed, tunnel, running>>
         \/ ok /\ step = "install" /\ Then("tunnel") /\ cmd_install(d)
         \/ ok /\ step = "tunnel" /\ Then("start") /\ cmd_tunnel(d)
         \/ /\ ok /\ step = "start" /\ Ends /\ running' = running \cup {d}
            /\ UNCHANGED <<installed, tunnel>>

Start(d) == \E step \in Step, ok \in BOOLEAN :
  /\ starts[d][step] > 0 /\ cmd_start(d, step, ok)
  /\ UNCHANGED <<device_vars, stream, ended, pc, buf, connected_devices, inflight,
                 stale, crashes>>

-----------------------------------------------------------------------------
Monitor == \/ \E status \in {"OKAY", "FAIL"} : track_devices(status)
           \/ ConsumeOkay
           \/ NextPacket
           \/ \E ok \in BOOLEAN : repair_adb_daemon(ok)

Next == \/ \E d \in Devices, state \in {"absent", "offline", "device"} : Change(d, state)
        \/ \E n \in 0 .. Len(stream), how \in {"eof", "reset"} : Crash(n, how)
        \/ Monitor
        \/ \E d \in Devices : Start(d)

Spec == Init /\ [][Next]_vars

\* The threads run; adb start-server, and a request to track, do not fail for ever.
FairSpec == /\ Spec /\ WF_vars(Monitor)
            /\ SF_vars(repair_adb_daemon(TRUE)) /\ SF_vars(track_devices("OKAY"))
            /\ \A d \in Devices : WF_vars(Start(d))

-----------------------------------------------------------------------------
\* Once the server agreed to track, what the monitor holds and has still to
\* read are the lists of this connection from the start of one of them, all
\* that the server sent if it is alive: however the reads cut the lists, and
\* whatever a broken connection left in the buffer, no list is lost, misread
\* or taken from an older connection.  The types hold, the size of the buffer with
\* them.
InStep ==
  /\ TypeOK
  /\ pc # "panic"
  /\ pc = "packets" =>
       LET sent == FlattenSeq([i \in DOMAIN inflight |-> Packet(inflight[i])])
       IN  IF ended = "no" THEN buf \o stream = sent ELSE IsPrefix(buf \o stream, sent)

\* The loop of consume_okay() at the end of a stream that it never leaves.
Spins == pc = "status" /\ ended = "eof" /\ stream = << >> /\ Len(buf) < HEADER

\* After the last change the monitor knows exactly the devices that are online,
\* over refusals and deaths of the adb server, unless one of them
\* cut a reply: the monitor spins on a cut status, and starts the next
\* connection with what is left of a cut list.
Follows == <>[](connected_devices = Online \/ stale \/ Spins)

\* "start a client on every detected device" (main.rs): as long as the adb
\* server lives and no command fails, every device that is online in the end
\* has the client, installed and started, over a reverse tunnel: also when the
\* start of an earlier appearance is still at work on the same device.
Autostarts ==
  \A d \in Devices :
    <>[](\/ d \in Online => d \in installed /\ d \in tunnel /\ d \in running
         \/ d \in failed \/ crashes > 0 \/ stale \/ Spins)
=============================================================================
