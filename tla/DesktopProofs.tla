--------------------------- MODULE DesktopProofs ----------------------------
(***************************************************************************)
(* The safety property of Desktop, for every set of starts, stops and      *)
(* relay processes and every bound on lines, starts and faults.            *)
(***************************************************************************)
EXTENDS Desktop, TLAPS

Alive == {"starting", "listening"}

\* What the variables may hold.
Label == Micro \cup {"none", "files", "save", "connect", "reverse", "relay", "launch",
                    "am stop", "remove", "kill", "close", "list"}
Status == Alive \cup {"none", "killed", "forced"}
Types == /\ pc \in [Task -> Label] /\ on \in [Task -> Procs \cup {0}]
         /\ procs \in [Procs -> Status] /\ child \in Procs \cup {0}
         /\ active \in BOOLEAN /\ monitor \in BOOLEAN
         /\ mapped \in BOOLEAN /\ vpn \in BOOLEAN

\* The reference to the process is dropped no later than the tunnel is idle, and a
\* stop that goes on does not drop a process that runs.
Referred ==
  /\ phase = "idle" => child = 0
  /\ \A t \in Task :
       /\ pc[t] = "failed" => child = 0
       /\ pc[t] = "stopped" /\ child = on[t] /\ child # 0 => procs[child] \notin Alive

\* No history, no second relay: what runs is what stop() would kill.
OneRelay == app = "running" /\ "relay" \notin races =>
              \A p \in Procs : procs[p] \in Alive => child = p

\* No history, no monitor without a tunnel to watch.
Monitored == app = "running" /\ "monitor" \notin races =>
               (monitor => active /\ ~Stopping /\ phase # "idle")

\* No history, no mapping and no client without a tunnel, nor behind a stop that has
\* removed them.
Clean == app = "running" /\ "phone" \notin races =>
           /\ phase = "idle" \/ ~active => ~mapped /\ ~vpn
           /\ \A t \in Stopper : /\ pc[t] = "remove" => ~vpn
                                 /\ pc[t] \in {"kill", "stopped"} => ~mapped /\ ~vpn

\* The inductive invariant.
IInv == Types /\ Referred /\ OneRelay /\ Monitored /\ Clean

USE DesktopAssumption

\* A call in progress goes on to a label.
LEMMA GotoTypes ==
  ASSUME Types, NEW t \in Task, NEW label \in Label, Goto(t, label)
  PROVE  pc' \in [Task -> Label]
BY DEF Types, Goto

\* What relay.stop() changes keeps its type.
LEMMA RelayStopTypes ==
  ASSUME Types, NEW t \in Task, relay_stop(t)
  PROVE  /\ pc' \in [Task -> Label] /\ on' \in [Task -> Procs \cup {0}]
         /\ procs' \in [Procs -> Status]
<1>1. CASE child = 0
  <2>1. Goto(t, "stopped") /\ UNCHANGED <<on, procs>>
    BY <1>1 DEF relay_stop
  <2>2. pc' \in [Task -> Label]
    BY <2>1, GotoTypes DEF Label, Micro
  <2> QED BY <2>1, <2>2 DEF Types
<1>2. CASE child # 0
  <2>1. Goto(t, "kill")
    BY <1>2 DEF relay_stop
  <2>2. pc' \in [Task -> Label]
    BY <2>1, GotoTypes DEF Label, Micro
  <2>3. on' \in [Task -> Procs \cup {0}]
    BY <1>2 DEF relay_stop, Types
  <2>4. procs' \in [Procs -> Status]
    BY <1>2 DEF relay_stop, Types, Status
  <2> QED BY <2>2, <2>3, <2>4
<1> QED BY <1>1, <1>2

\* The relay that announces itself ran already.
LEMMA RelayReadyKeeps ==
  ASSUME IInv, NEW p \in Procs, RelayReady(p)
  PROVE  IInv'
<1> USE DEF IInv, Types, Task, Stopper, Goto, RelayReady, Event, Micro, tunnel_vars,
            phone_vars
<1>1. Types'
  BY DEF Label, Micro, Status, Alive
<1>2. Referred'
  BY DEF Referred, Alive
<1>3. OneRelay'
  BY DEF OneRelay, Referred, Alive
<1>4. Monitored'
  BY DEF Monitored, Stopping
<1>5. Clean'
  BY DEF Clean, Stopping
<1> QED BY <1>1, <1>2, <1>3, <1>4, <1>5

\* The reference to another process that is dropped with the one that exits is the
\* race of the history; the calls that go on find no process.
LEMMA RelayExitKeeps ==
  ASSUME IInv, NEW p \in Procs, RelayExit(p)
  PROVE  IInv'
<1> USE DEF IInv, Types, Task, Stopper, Goto, RelayExit, Event, Micro, phone_vars,
            Races, setTunnel
<1>1. Types'
  BY DEF Label, Micro, Status, Alive
<1>2. Referred'
  BY DEF Referred, Alive
<1>3. OneRelay'
  BY DEF OneRelay, Referred, Alive
<1>4. Monitored'
  BY DEF Monitored, Stopping
<1>5. Clean'
  BY DEF Clean, Stopping
<1> QED BY <1>1, <1>2, <1>3, <1>4, <1>5

\* The stop that goes on waited for a process that is dead by now.
LEMMA forceTimeoutKeeps ==
  ASSUME IInv, NEW t \in Task, forceTimeout(t)
  PROVE  IInv'
<1> USE DEF IInv, Types, Task, Stopper, Goto, forceTimeout, Event, Micro, tunnel_vars,
            phone_vars
<1>1. Types'
  BY DEF Label, Micro, Status, Alive
<1>2. Referred'
  BY DEF Referred, Alive
<1>3. OneRelay'
  BY DEF OneRelay, Referred, Alive
<1>4. Monitored'
  BY DEF Monitored, Stopping
<1>5. Clean'
  BY DEF Clean, Stopping
<1> QED BY <1>1, <1>2, <1>3, <1>4, <1>5

\* The stop that ends drops a dead process, or leaves its mark; with the tunnel of the
\* request, mapping and client are gone.
LEMMA StoppedKeeps ==
  ASSUME IInv, NEW t \in Starts \cup Stopper, Stopped(t)
  PROVE  IInv'
<1> USE DEF IInv, Types, Task, Stopper, Goto, Stopped, Race, Races, setTunnel,
            phone_vars
<1>1. Types'
  BY DEF Label, Micro, Status, Alive
<1>2. Referred'
  BY DEF Referred, Alive
<1>3. OneRelay'
  BY DEF OneRelay, Referred, Alive
<1>4. Monitored'
  BY DEF Monitored, Stopping
<1>5. Clean'
  BY DEF Clean, Stopping
<1> QED BY <1>1, <1>2, <1>3, <1>4, <1>5

\* A start that begins or is refused leaves the tunnel as it is.
LEMMA startTunnelKeeps ==
  ASSUME IInv, NEW s \in Starts, startTunnel(s)
  PROVE  IInv'
<1> USE DEF IInv, Types, Task, Stopper, Goto, startTunnel, Event, Micro, setTunnel,
            relay_vars, phone_vars
<1>1. Types'
  BY DEF Label, Micro, Status, Alive
<1>2. Referred'
  BY DEF Referred, Alive
<1>3. OneRelay'
  BY DEF OneRelay, Referred, Alive
<1>4. Monitored'
  BY DEF Monitored, Stopping
<1>5. Clean'
  BY DEF Clean, Stopping
<1> QED BY <1>1, <1>2, <1>3, <1>4, <1>5

\* Up to its first command a start only makes its request the active one.
LEMMA PrepareKeeps ==
  ASSUME IInv, NEW s \in Starts, Prepare(s)
  PROVE  IInv'
<1> USE DEF IInv, Task, Stopper
<1>1. PICK label \in {"none", "save", "connect"} : Goto(s, label)
  BY Zenon DEF Prepare
<1>2. /\ active' \in {active, TRUE} /\ phase' \in {phase, "error", "starting"}
      /\ UNCHANGED <<on, procs, child, monitor, mapped, vpn, app, races>>
      /\ Event
  BY Zenon DEF Prepare, setTunnel, relay_vars, phone_vars
<1>3. pc' \in [Task -> Label]
  BY <1>1, GotoTypes DEF Label
<1>4. \A t \in Task \ {s} : pc'[t] = pc[t]
  BY <1>1 DEF Types, Goto
<1>5. pc'[s] \notin {"failed", "stopped"}
  BY <1>1 DEF Types, Goto
<1>6. \A t \in Stopper : t \in Task \ {s}
  OBVIOUS
<1>7. Types'
  BY <1>2, <1>3 DEF Types
<1>8. Referred'
  BY <1>2, <1>4, <1>5 DEF Referred, Types
<1>9. OneRelay'
  BY <1>2 DEF OneRelay
<1>10. /\ (active => active') /\ (monitor' => monitor) /\ (phase' = "idle" => phase = "idle")
       /\ races' = races /\ app' = app
  <2>1. active => active'
    BY Zenon DEF Prepare
  <2>2. (monitor' => monitor) /\ races' = races /\ app' = app
    BY Zenon, <1>2
  <2>3. phase' = "idle" => phase = "idle"
    BY <1>2
  <2> QED BY <2>1, <2>2, <2>3, Zenon
<1>11. Stopping' => Stopping
  BY <1>4, <1>6 DEF Stopping
<1>12. Monitored'
  BY <1>10, <1>11 DEF Monitored
<1>13. (mapped' => mapped) /\ (vpn' => vpn)
  BY <1>2
<1>14. \A t \in Stopper : pc'[t] = pc[t]
  BY <1>4, <1>6
<1>15. Clean'
  BY <1>10, <1>13, <1>14 DEF Clean
<1> QED BY <1>7, <1>8, <1>9, <1>12, <1>15

\* Nothing of the tunnel changes before the mapping.
LEMMA ensureClientInstalledKeeps ==
  ASSUME IInv, NEW s \in Starts, ensureClientInstalled(s)
  PROVE  IInv'
<1> USE DEF IInv, Types, Task, Stopper, Goto, ensureClientInstalled, Event, Micro,
            setTunnel, relay_vars, phone_vars
<1>1. Types'
  BY DEF Label, Micro, Status, Alive
<1>2. Referred'
  BY DEF Referred, Alive
<1>3. OneRelay'
  BY DEF OneRelay, Referred, Alive
<1>4. Monitored'
  BY DEF Monitored, Stopping
<1>5. Clean'
  BY DEF Clean, Stopping
<1> QED BY <1>1, <1>2, <1>3, <1>4, <1>5

\* The mapping is there for an active request or leaves its mark; the relay is new only
\* if none runs.
LEMMA ReverseKeeps ==
  ASSUME IInv, NEW s \in Starts, Reverse(s)
  PROVE  IInv'
<1> USE DEF IInv, Types, Task, Stopper, Goto, Reverse, Event, Micro, setTunnel,
            relay_start, isRunning, Race, Races, Overtaken
<1>1. Types'
  <2>1. pc' \in [Task -> Label]
    BY DEF Label, Micro
  <2>2. on' \in [Task -> Procs \cup {0}]
    OBVIOUS
  <2>3. procs' \in [Procs -> Status] /\ child' \in Procs \cup {0}
    BY DEF Status, Alive
  <2> QED BY <2>1, <2>2, <2>3
<1>2. Referred'
  BY DEF Referred, Alive
<1>3. OneRelay'
  BY DEF OneRelay, Referred, Alive
<1>4. Monitored'
  BY DEF Monitored, Stopping
<1>5. Clean'
  BY DEF Clean, Stopping
<1> QED BY <1>1, <1>2, <1>3, <1>4, <1>5

\* Between the relay and the client nothing changes but the phase.
LEMMA StartedKeeps ==
  ASSUME IInv, NEW s \in Starts, Started(s)
  PROVE  IInv'
<1> USE DEF IInv, Types, Task, Stopper, Goto, Started, setTunnel, relay_vars, phone_vars
<1>1. Types'
  BY DEF Label, Micro, Status, Alive
<1>2. Referred'
  BY DEF Referred, Alive
<1>3. OneRelay'
  BY DEF OneRelay, Referred, Alive
<1>4. Monitored'
  BY DEF Monitored, Stopping
<1>5. Clean'
  BY DEF Clean, Stopping
<1> QED BY <1>1, <1>2, <1>3, <1>4, <1>5

\* The client and the monitor start for an active request, or leave their mark.
LEMMA LaunchKeeps ==
  ASSUME IInv, NEW s \in Starts, Launch(s)
  PROVE  IInv'
<1> USE DEF IInv, Types, Task, Stopper, Goto, Launch, startMonitor, Event, Micro, Races,
            Overtaken, relay_vars
<1>1. Types'
  BY DEF Label, Micro, Status, Alive
<1>2. Referred'
  BY DEF Referred, Alive
<1>3. OneRelay'
  BY DEF OneRelay, Referred, Alive
<1>4. Monitored'
  BY DEF Monitored, Stopping
<1>5. Clean'
  BY DEF Clean, Stopping
<1> QED BY <1>1, <1>2, <1>3, <1>4, <1>5

\* A start that fails kills the process the reference names.
LEMMA StartFailsKeeps ==
  ASSUME IInv, NEW s \in Starts, StartFails(s)
  PROVE  IInv'
<1> USE DEF IInv, Types, Task, Stopper, Goto, StartFails, relay_stop, Event, Micro,
            tunnel_vars
<1>1. Types'
  <2>1. relay_stop(s)
    OBVIOUS
  <2>2. /\ pc' \in [Task -> Label] /\ on' \in [Task -> Procs \cup {0}]
        /\ procs' \in [Procs -> Status]
    BY <2>1, RelayStopTypes
  <2> QED BY <2>2
<1>2. Referred'
  BY DEF Referred, Alive
<1>3. OneRelay'
  BY DEF OneRelay, Referred, Alive
<1>4. Monitored'
  BY DEF Monitored, Stopping
<1>5. Clean'
  BY DEF Clean, Stopping
<1> QED BY <1>1, <1>2, <1>3, <1>4, <1>5

\* A start whose relay exited finds no process to kill.
LEMMA FailedKeeps ==
  ASSUME IInv, NEW s \in Starts, Failed(s)
  PROVE  IInv'
<1> USE DEF IInv, Types, Task, Stopper, Goto, Failed, relay_stop, tunnel_vars,
            phone_vars
<1>1. Types'
  <2>1. relay_stop(s)
    OBVIOUS
  <2>2. /\ pc' \in [Task -> Label] /\ on' \in [Task -> Procs \cup {0}]
        /\ procs' \in [Procs -> Status]
    BY <2>1, RelayStopTypes
  <2> QED BY <2>2
<1>2. Referred'
  BY DEF Referred, Alive
<1>3. OneRelay'
  BY DEF OneRelay, Referred, Alive
<1>4. Monitored'
  BY DEF Monitored, Stopping
<1>5. Clean'
  BY DEF Clean, Stopping
<1> QED BY <1>1, <1>2, <1>3, <1>4, <1>5

\* stopTunnel() skips the commands on the phone only if there is neither serial nor
\* request, and then the phone is clean.
LEMMA StopClickKeeps ==
  ASSUME IInv, NEW t \in Stops, StopClick(t)
  PROVE  IInv'
<1> USE DEF IInv, Types, Task, Stopper, Goto, StopClick, stopTunnel, relay_stop,
            setTunnel, Event, Micro, phone_vars
<1>1. Types'
  <2>1. CASE serial \/ active
    BY <2>1 DEF Label
  <2>2. CASE ~(serial \/ active)
    <3>1. relay_stop(t)
      BY <2>2
    <3>2. /\ pc' \in [Task -> Label] /\ on' \in [Task -> Procs \cup {0}]
          /\ procs' \in [Procs -> Status]
      BY <3>1, RelayStopTypes
    <3> QED BY <3>2
  <2> QED BY <2>1, <2>2
<1>2. Referred'
  BY ZenonT(40) DEF Referred, Alive
<1>3. OneRelay'
  BY DEF OneRelay, Referred, Alive
<1>4. Monitored'
  BY DEF Monitored, Stopping
<1>5. Clean'
  BY DEF Clean, Stopping
<1> QED BY <1>1, <1>2, <1>3, <1>4, <1>5

\* From before-quit on the histories are not kept.
LEMMA BeforeQuitKeeps ==
  ASSUME IInv, BeforeQuit
  PROVE  IInv'
<1> USE DEF IInv, Types, Task, Stopper, Goto, BeforeQuit, stopTunnel, relay_stop,
            setTunnel, Event, Micro, phone_vars
<1>1. Types'
  <2>1. CASE serial \/ active
    BY <2>1, ZenonT(40) DEF Label
  <2>2. CASE ~(serial \/ active)
    <3>1. relay_stop("shutdown")
      BY <2>2
    <3>2. /\ pc' \in [Task -> Label] /\ on' \in [Task -> Procs \cup {0}]
          /\ procs' \in [Procs -> Status]
      BY <3>1, RelayStopTypes
    <3> QED BY <3>2
  <2> QED BY <2>1, <2>2
<1>2. Referred'
  BY ZenonT(40) DEF Referred, Alive
<1>3. OneRelay'
  BY DEF OneRelay, Referred, Alive
<1>4. Monitored'
  BY DEF Monitored, Stopping
<1>5. Clean'
  BY DEF Clean, Stopping
<1> QED BY <1>1, <1>2, <1>3, <1>4, <1>5

\* A command of the stop that fails leaves its mark.
LEMMA StopCommandKeeps ==
  ASSUME IInv, NEW t \in Stopper, StopCommand(t)
  PROVE  IInv'
<1> USE DEF IInv, Types, Task, Stopper, Goto, StopCommand, relay_stop, Event, Micro,
            Race, Races, tunnel_vars
<1>1. Types'
  <2>1. mapped' \in BOOLEAN /\ vpn' \in BOOLEAN
    OBVIOUS
  <2>2. CASE pc[t] = "am stop"
    BY <2>1, <2>2 DEF Label
  <2>3. CASE pc[t] = "remove"
    <3>1. relay_stop(t)
      BY <2>3
    <3>2. /\ pc' \in [Task -> Label] /\ on' \in [Task -> Procs \cup {0}]
          /\ procs' \in [Procs -> Status]
      BY <3>1, RelayStopTypes
    <3> QED BY <2>1, <3>2
  <2> QED BY <2>2, <2>3
<1>2. Referred'
  BY ZenonT(40) DEF Referred, Alive
<1>3. OneRelay'
  BY ZenonT(40) DEF OneRelay, Referred, Alive
<1>4. Monitored'
  BY DEF Monitored, Stopping
<1>5. Clean'
  BY DEF Clean, Stopping
<1> QED BY <1>1, <1>2, <1>3, <1>4, <1>5

\* The program quits.
LEMMA CloseAdbKeeps ==
  ASSUME IInv, CloseAdb
  PROVE  IInv'
<1> USE DEF IInv, Types, Task, Stopper, Goto, CloseAdb, Event, Micro, tunnel_vars,
            relay_vars
<1>1. Types'
  BY DEF Label, Micro, Status, Alive
<1>2. Referred'
  BY DEF Referred, Alive
<1>3. OneRelay'
  BY DEF OneRelay, Referred, Alive
<1>4. Monitored'
  BY DEF Monitored, Stopping
<1>5. Clean'
  BY DEF Clean, Stopping
<1> QED BY <1>1, <1>2, <1>3, <1>4, <1>5

\* The monitor only starts a reconnection.
LEMMA TickKeeps ==
  ASSUME IInv, Tick
  PROVE  IInv'
<1> USE DEF IInv, Types, Task, Stopper, Goto, Tick, Event, Micro, tunnel_vars,
            relay_vars, phone_vars
<1>1. Types'
  BY DEF Label, Micro, Status, Alive
<1>2. Referred'
  BY DEF Referred, Alive
<1>3. OneRelay'
  BY DEF OneRelay, Referred, Alive
<1>4. Monitored'
  BY DEF Monitored, Stopping
<1>5. Clean'
  BY DEF Clean, Stopping
<1> QED BY <1>1, <1>2, <1>3, <1>4, <1>5

\* The reconnection looks for the phone.
LEMMA listDevicesKeeps ==
  ASSUME IInv, listDevices
  PROVE  IInv'
<1> USE DEF IInv, Types, Task, Stopper, Goto, listDevices, Event, Micro, setTunnel,
            relay_vars, phone_vars
<1>1. Types'
  <2>1. pc' \in [Task -> Label]
    BY ZenonT(40) DEF Label, Micro
  <2> QED BY <2>1
<1>2. Referred'
  BY DEF Referred, Alive
<1>3. OneRelay'
  BY DEF OneRelay, Referred, Alive
<1>4. Monitored'
  BY DEF Monitored, Stopping
<1>5. Clean'
  BY DEF Clean, Stopping
<1> QED BY <1>1, <1>2, <1>3, <1>4, <1>5

\* It gives up.
LEMMA ListFailsKeeps ==
  ASSUME IInv, ListFails
  PROVE  IInv'
<1> USE DEF IInv, Types, Task, Stopper, Goto, ListFails, Event, Micro, tunnel_vars,
            relay_vars, phone_vars
<1>1. Types'
  BY DEF Label, Micro, Status, Alive
<1>2. Referred'
  BY DEF Referred, Alive
<1>3. OneRelay'
  BY DEF OneRelay, Referred, Alive
<1>4. Monitored'
  BY DEF Monitored, Stopping
<1>5. Clean'
  BY DEF Clean, Stopping
<1> QED BY <1>1, <1>2, <1>3, <1>4, <1>5

\* What a reconnection restores belongs to an active request, or leaves its mark.
LEMMA RestoreKeeps ==
  ASSUME IInv, NEW ok \in BOOLEAN, Restore(ok)
  PROVE  IInv'
<1> USE DEF IInv, Types, Task, Stopper, Goto, Restore, Event, Micro, Race, Races,
            Overtaken, tunnel_vars, relay_vars
<1>1. Types'
  BY DEF Label, Micro, Status, Alive
<1>2. Referred'
  BY DEF Referred, Alive
<1>3. OneRelay'
  BY DEF OneRelay, Referred, Alive
<1>4. Monitored'
  BY DEF Monitored, Stopping
<1>5. Clean'
  BY DEF Clean, Stopping
<1> QED BY <1>1, <1>2, <1>3, <1>4, <1>5

\* A line of the relay changes the phase only.
LEMMA handleRelayLineKeeps ==
  ASSUME IInv, handleRelayLine
  PROVE  IInv'
<1> USE DEF IInv, Types, Task, Stopper, Goto, handleRelayLine, Event, Micro, setTunnel,
            phone_vars
<1>1. Types'
  BY DEF Label, Micro, Status, Alive
<1>2. Referred'
  BY DEF Referred, Alive
<1>3. OneRelay'
  BY DEF OneRelay, Referred, Alive
<1>4. Monitored'
  BY DEF Monitored, Stopping
<1>5. Clean'
  BY DEF Clean, Stopping
<1> QED BY <1>1, <1>2, <1>3, <1>4, <1>5

\* The cable ends the mapping.
LEMMA CableKeeps ==
  ASSUME IInv, Cable
  PROVE  IInv'
<1> USE DEF IInv, Types, Task, Stopper, Goto, Cable, Event, Micro, tunnel_vars
<1>1. Types'
  BY DEF Label, Micro, Status, Alive
<1>2. Referred'
  BY DEF Referred, Alive
<1>3. OneRelay'
  BY DEF OneRelay, Referred, Alive
<1>4. Monitored'
  BY DEF Monitored, Stopping
<1>5. Clean'
  BY DEF Clean, Stopping
<1> QED BY <1>1, <1>2, <1>3, <1>4, <1>5

\* The relay and the client are not among the tunnel's state.
LEMMA ClientConnectsKeeps ==
  ASSUME IInv, ClientConnects
  PROVE  IInv'
<1> USE DEF IInv, Types, Task, Stopper, Goto, ClientConnects, Event, Micro, tunnel_vars,
            phone_vars, task_vars
<1>1. Types'
  BY DEF Label, Micro, Status, Alive
<1>2. Referred'
  BY DEF Referred, Alive
<1>3. OneRelay'
  BY DEF OneRelay, Referred, Alive
<1>4. Monitored'
  BY DEF Monitored, Stopping
<1>5. Clean'
  BY DEF Clean, Stopping
<1> QED BY <1>1, <1>2, <1>3, <1>4, <1>5

\* Nor is their disconnection.
LEMMA ClientDisconnectsKeeps ==
  ASSUME IInv, ClientDisconnects
  PROVE  IInv'
<1> USE DEF IInv, Types, Task, Stopper, Goto, ClientDisconnects, Event, Micro,
            tunnel_vars, phone_vars, task_vars
<1>1. Types'
  BY DEF Label, Micro, Status, Alive
<1>2. Referred'
  BY DEF Referred, Alive
<1>3. OneRelay'
  BY DEF OneRelay, Referred, Alive
<1>4. Monitored'
  BY DEF Monitored, Stopping
<1>5. Clean'
  BY DEF Clean, Stopping
<1> QED BY <1>1, <1>2, <1>3, <1>4, <1>5

-----------------------------------------------------------------------------
\* The program starts in a state of the invariant.
LEMMA Initially == Init => IInv
BY DEF Init, IInv, Types, Label, Micro, Status, Alive, Task, Stopper, Referred, OneRelay,
       Monitored, Clean, Stopping

\* A step that changes nothing keeps it.
LEMMA Stutters == IInv /\ UNCHANGED vars => IInv'
BY DEF vars, IInv, Types, Task, Stopper, Referred, OneRelay, Monitored, Clean, Stopping

\* Every step keeps it.
LEMMA Steps == IInv /\ [Next]_vars => IInv'
<1> SUFFICES ASSUME IInv, [Next]_vars PROVE IInv'
  OBVIOUS
<1>1. ASSUME NEW s \in Starts, startTunnel(s) \/ StartStep(s) PROVE IInv'
  BY <1>1, startTunnelKeeps, PrepareKeeps, ensureClientInstalledKeeps, ReverseKeeps,
     StartedKeeps, LaunchKeeps, StartFailsKeeps, FailedKeeps, StoppedKeeps, Zenon DEF StartStep
<1>2. ASSUME NEW t \in Stops, StopClick(t) PROVE IInv'
  BY <1>2, StopClickKeeps, Zenon
<1>3. ASSUME NEW t \in Stopper, StopStep(t) PROVE IInv'
  BY <1>3, StopCommandKeeps, StoppedKeeps, Zenon DEF StopStep
<1>4. ASSUME NEW t \in Task, forceTimeout(t) PROVE IInv'
  BY <1>4, forceTimeoutKeeps, Zenon
<1>5. ASSUME NEW p \in Procs, RelayReady(p) \/ RelayExit(p) PROVE IInv'
  BY <1>5, RelayReadyKeeps, RelayExitKeeps, Zenon
<1>6. CASE BeforeQuit \/ CloseAdb \/ Tick \/ handleRelayLine
  BY <1>6, BeforeQuitKeeps, CloseAdbKeeps, TickKeeps, handleRelayLineKeeps, Zenon
<1>7. CASE Reconnect
  BY <1>7, listDevicesKeeps, ListFailsKeeps, RestoreKeeps, Zenon DEF Reconnect
<1>8. CASE Cable \/ ClientConnects \/ ClientDisconnects
  BY <1>8, CableKeeps, ClientConnectsKeeps, ClientDisconnectsKeeps, Zenon
<1>9. CASE UNCHANGED vars
  BY <1>9, Stutters
<1> QED
  BY <1>1, <1>2, <1>3, <1>4, <1>5, <1>6, <1>7, <1>8, <1>9, Zenon DEF Next

\* After a stop with nothing in flight the monitor is off, no relay runs and the phone
\* has neither mapping nor client, but for the races that the histories record: however
\* many starts and stops of the program overlap.
THEOREM StopLeavesQuiet == Spec => []StopIsQuiet
<1>1. ASSUME IInv PROVE StopIsQuiet
  <2> SUFFICES ASSUME app = "running", phase = "idle"
               PROVE  /\ "monitor" \in races \/ ~monitor
                      /\ "relay" \in races \/ \A p \in Procs : procs[p] \notin Alive
                      /\ "phone" \in races \/ (~mapped /\ ~vpn)
    BY Zenon DEF StopIsQuiet, Alive
  <2>1. "monitor" \in races \/ ~monitor
    BY <1>1, Zenon DEF IInv, Monitored
  <2>2. "relay" \in races \/ \A p \in Procs : procs[p] \notin Alive
    BY <1>1 DEF IInv, OneRelay, Referred
  <2>3. "phone" \in races \/ (~mapped /\ ~vpn)
    BY <1>1, Zenon DEF IInv, Clean
  <2> QED BY <2>1, <2>2, <2>3
<1> QED BY <1>1, Initially, Steps, PTL DEF Spec
=============================================================================
