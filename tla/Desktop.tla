------------------------------- MODULE Desktop ------------------------------
(***************************************************************************)
(* controller.ts, services/relay.ts and the quit handler of main.ts: the   *)
(* desktop program starts, watches and stops the relay process and the     *)
(* client on the phone.  Its operations overlap at every await.            *)
(*                                                                         *)
(* A task is a call in progress, and its label names what it awaits; an    *)
(* action is the code between two awaits.  What resumes without an event   *)
(* of its own (a label of Micro) runs before any other event.  There is    *)
(* one phone; the phone, the USB and the relay process are external.       *)
(***************************************************************************)
EXTENDS Naturals, Sequences, FiniteSets

CONSTANTS Starts, Stops,   \* bound: calls of startTunnel(), stopTunnel() at a time
          Procs,           \* bound: relay processes at a time
          MaxLines,        \* bound: lines of the relays not yet read
          MaxStarts,       \* bound: calls of startTunnel() that are not refused
          MaxFaults        \* bound: cables pulled, commands and relays that fail

ASSUME DesktopAssumption ==
  /\ Procs \subseteq Nat \ {0} /\ Starts \cap Stops = {}
  /\ {"shutdown", "reconnect"} \cap (Starts \cup Stops) = {}

VARIABLES phase, serial,     \* of snapshot.tunnel; serial: is it set?
          active,            \* activeRequest is set
          monitor,           \* the interval is set
          pc, on,            \* of each task: its label, the process it waits for
          procs, child,      \* the relay processes; the one RelayService refers to
          app,               \* the program
          attached, mapped,  \* the phone is there; the reverse mapping
          vpn,               \* the client on the phone runs
          linked,            \* the relay process the client is connected to, or 0
          lines,             \* lines the relays printed
          races,             \* history: what a race or an error may have left behind
          starts, faults     \* counters

vars == <<phase, serial, active, monitor, pc, on, procs, child, app, attached, mapped,
          vpn, linked, lines, races, starts, faults>>
bounds == <<starts, faults>>
task_vars == <<pc, on, app, bounds>>
tunnel_vars == <<phase, serial, active, monitor>>
relay_vars == <<procs, child, linked, lines>>
phone_vars == <<attached, mapped, vpn>>

Task == Starts \cup Stops \cup {"shutdown", "reconnect"}
Stopper == Stops \cup {"shutdown"}
Micro == {"started", "failed", "stopped"}

Init == /\ phase = "idle" /\ serial = FALSE /\ active = FALSE /\ monitor = FALSE
        /\ pc = [t \in Task |-> "none"] /\ on = [t \in Task |-> 0]
        /\ procs = [p \in Procs |-> "none"] /\ child = 0 /\ app = "running"
        /\ attached = TRUE /\ mapped = FALSE /\ vpn = FALSE /\ linked = 0
        /\ lines = << >> /\ races = {} /\ starts = 0 /\ faults = 0

\* An event may be handled: the program runs and no task is about to go on.
Event == app \in {"running", "quitting"} /\ \A t \in Task : pc[t] \notin Micro

Goto(t, label) == pc' = [pc EXCEPT ![t] = label]
setTunnel(p, s) == phase' = p /\ serial' = s

Stopping == \E t \in Stopper : pc[t] # "none"
Overtaken == Stopping \/ ~active \/ phase = "idle"   \* a command outlived the tunnel

Fault(happens) == IF happens THEN faults < MaxFaults /\ faults' = faults + 1
                             ELSE UNCHANGED faults
\* What a race leaves behind on the phone, in the monitor, in the relay or as a line.
\* The history ends when the program quits.
Races(left) == races' = IF app = "running" THEN races \cup left ELSE {}
Race(left, happens) == Races(IF happens THEN {left} ELSE {})

-----------------------------------------------------------------------------
(* RelayService. *)

isRunning == child # 0 /\ procs[child] \in {"starting", "listening"}

\* relay.start() of s: a process that runs already is taken for ready.
relay_start(s) ==
  IF isRunning
  THEN Goto(s, "started") /\ UNCHANGED <<on, procs, child>>
  ELSE \E p \in Procs :
         /\ procs[p] = "none" /\ \A q \in Procs : procs[q] = "none" => p <= q
         /\ procs' = [procs EXCEPT ![p] = "starting"] /\ child' = p
         /\ on' = [on EXCEPT ![s] = p] /\ Goto(s, "relay")

\* relay.stop() of t, up to its await.
relay_stop(t) ==
  IF child = 0
  THEN Goto(t, "stopped") /\ UNCHANGED <<on, procs>>
  ELSE /\ procs' = [procs EXCEPT ![child] = IF @ = "forced" THEN @ ELSE "killed"]
       /\ on' = [on EXCEPT ![t] = child] /\ Goto(t, "kill")

\* "Relay server started", unless another relay has the port.
RelayReady(p) ==
  /\ Event /\ procs[p] = "starting" /\ \A q \in Procs : procs[q] # "listening"
  /\ procs' = [procs EXCEPT ![p] = "listening"]
  /\ pc' = [t \in Task |-> IF pc[t] = "relay" /\ on[t] = p THEN "started" ELSE pc[t]]
  /\ UNCHANGED <<tunnel_vars, phone_vars, on, child, app, linked, lines, races, bounds>>

\* A process exits: the handlers of start(), of the controller and of stop().
RelayExit(p) ==
  /\ Event /\ procs[p] # "none" /\ Fault(procs[p] \in {"starting", "listening"})
  /\ procs' = [procs EXCEPT ![p] = "none"] /\ child' = 0
  /\ Races({r \in {"relay", "line"} : IF r = "relay" THEN child \notin {0, p}
                                                   ELSE lines # << >>})
  /\ linked' = IF linked = p THEN 0 ELSE linked
  /\ IF phase \in {"stopping", "idle"} THEN UNCHANGED <<phase, serial>>
                                       ELSE setTunnel("error", FALSE)
  /\ pc' = [t \in Task |-> CASE on[t] = p /\ pc[t] = "relay" -> "failed"
                             [] on[t] = p /\ pc[t] = "kill" -> "stopped"
                             [] OTHER -> pc[t]]
  /\ UNCHANGED <<phone_vars, active, monitor, on, app, lines, starts>>

\* MUTANT: the process is waited for without a limit.
forceTimeout_never(t) == FALSE /\ UNCHANGED vars

\* The relay does not end in 2.5 seconds, and is killed.
forceTimeout(t) ==
  /\ Event /\ pc[t] = "kill" /\ Goto(t, "stopped")
  /\ procs' = [procs EXCEPT ![on[t]] = "forced"]
  /\ UNCHANGED <<tunnel_vars, phone_vars, on, child, app, linked, lines, races, bounds>>

\* stop() goes on, and its caller with it: startTunnel() that failed, stopTunnel().
Stopped(t) ==
  /\ pc[t] = "stopped" /\ child' = 0 /\ on' = [on EXCEPT ![t] = 0]
  /\ Race("relay", child \notin {0, on[t]})
  /\ IF t \in Starts
     THEN setTunnel("error", TRUE) /\ Goto(t, "none") /\ UNCHANGED active
     ELSE setTunnel("idle", FALSE) /\ active' = FALSE
          /\ Goto(t, IF t = "shutdown" THEN "close" ELSE "none")
  /\ UNCHANGED <<phone_vars, monitor, procs, app, linked, lines, bounds>>

-----------------------------------------------------------------------------
(* startTunnel(). *)

\* The button starts a tunnel in these phases; the request may be refused.
startTunnel(s) ==
  /\ Event /\ app = "running" /\ phase \in {"idle", "error"} /\ pc[s] = "none"
  /\ \/ setTunnel("error", FALSE) /\ UNCHANGED <<pc, starts>>
     \/ /\ starts < MaxStarts /\ starts' = starts + 1
        /\ Goto(s, "files") /\ UNCHANGED <<phase, serial>>
  /\ UNCHANGED <<relay_vars, phone_vars, active, monitor, on, app, races, faults>>

Prepare(s) ==
  /\ Event
  /\ \/ /\ pc[s] = "files" /\ Fault(TRUE) /\ setTunnel("error", FALSE) /\ Goto(s, "none")
        /\ UNCHANGED active
     \/ /\ pc[s] = "files" /\ active' = TRUE /\ Goto(s, "save")
        /\ UNCHANGED <<phase, serial, faults>>
     \/ /\ pc[s] = "save" /\ Fault(TRUE) /\ Goto(s, "none")
        /\ UNCHANGED <<phase, serial, active>>
     \/ /\ pc[s] = "save" /\ setTunnel("starting", TRUE) /\ Goto(s, "connect")
        /\ UNCHANGED <<active, faults>>
  /\ UNCHANGED <<relay_vars, phone_vars, monitor, on, app, races, starts>>

\* connectDevice(), listDevices() and ensureClientInstalled(), between whose awaits
\* nothing of the tunnel changes.
ensureClientInstalled(s) ==
  /\ Event /\ pc[s] = "connect" /\ attached
  /\ Goto(s, "reverse") /\ setTunnel("starting", TRUE)
  /\ UNCHANGED <<relay_vars, phone_vars, active, monitor, on, app, races, bounds>>

\* The mapping is there, and the relay is started.
Reverse(s) ==
  /\ Event /\ pc[s] = "reverse" /\ attached /\ mapped' = TRUE
  /\ Race("phone", Overtaken)
  /\ setTunnel("starting", TRUE) /\ relay_start(s)
  /\ UNCHANGED <<active, monitor, attached, vpn, app, linked, lines, bounds>>

Started(s) == /\ pc[s] = "started" /\ setTunnel("waiting-permission", TRUE)
              /\ Goto(s, "launch") /\ on' = [on EXCEPT ![s] = 0]
              /\ UNCHANGED <<relay_vars, phone_vars, active, monitor, app, races, bounds>>

\* MUTANT: the monitor starts whether or not the request is still active.
startMonitor_always == monitor' = TRUE
\* The interval is set if the request is active and asks for it (autoReconnect).
startMonitor == monitor' \in {FALSE, active}

Launch(s) == /\ Event /\ pc[s] = "launch" /\ attached /\ vpn' = TRUE
             /\ Races({r \in {"phone", "monitor"} : IF r = "phone" THEN Overtaken
                                                   ELSE Overtaken /\ active})
             /\ startMonitor /\ Goto(s, "none")
             /\ UNCHANGED <<relay_vars, phase, serial, active, on, attached, mapped, app,
                            bounds>>

\* An awaited command fails, or the relay is not ready in 15 seconds.  A reverse
\* that fails has removed the earlier mapping.
StartFails(s) ==
  /\ Event /\ pc[s] \in {"connect", "reverse", "relay", "launch"}
  /\ Fault(attached \/ pc[s] = "relay")
  /\ mapped' = (mapped /\ pc[s] # "reverse")
  /\ relay_stop(s)
  /\ UNCHANGED <<tunnel_vars, child, linked, lines, attached, vpn, app, races, starts>>

\* The relay exited before it was ready.
Failed(s) == /\ pc[s] = "failed" /\ relay_stop(s)
             /\ UNCHANGED <<tunnel_vars, phone_vars, child, linked, lines, app, races, bounds>>

-----------------------------------------------------------------------------
(* stopTunnel() and shutdown(). *)

stopTunnel(t) ==
  /\ monitor' = FALSE /\ setTunnel("stopping", serial \/ active)
  /\ IF serial \/ active THEN Goto(t, "am stop") /\ UNCHANGED <<on, procs>>
                         ELSE relay_stop(t)
  /\ UNCHANGED <<phone_vars, active, child, linked, lines, bounds>>

StopClick(t) == /\ Event /\ app = "running" /\ phase \in {"waiting-permission", "connected"}
                /\ pc[t] = "none" /\ stopTunnel(t) /\ UNCHANGED <<app, races>>

\* before-quit: shutdown().
BeforeQuit == /\ Event /\ app = "running" /\ app' = "quitting" /\ races' = {}
              /\ stopTunnel("shutdown")

\* The commands of stopTunnel(), whose errors are ignored.
StopCommand(t) ==
  /\ Event /\ pc[t] \in {"am stop", "remove"}
  /\ \E ok \in BOOLEAN :
       /\ ok => attached
       /\ Fault(attached /\ ~ok)
       /\ vpn' = (vpn /\ ~(ok /\ pc[t] = "am stop"))
       /\ mapped' = (mapped /\ ~(ok /\ pc[t] = "remove"))
       /\ Race("phone", ~ok)
  /\ IF pc[t] = "am stop" THEN Goto(t, "remove") /\ UNCHANGED <<on, procs>>
                          ELSE relay_stop(t)
  /\ UNCHANGED <<tunnel_vars, child, linked, lines, attached, app, starts>>

\* adb.close() ends the mappings, and the program.
CloseAdb == /\ Event /\ pc["shutdown"] = "close" /\ Goto("shutdown", "none")
            /\ app' = "quit" /\ mapped' = FALSE
            /\ UNCHANGED <<tunnel_vars, relay_vars, on, attached, vpn, races, bounds>>

-----------------------------------------------------------------------------
(* reconnectIfNeeded(), with reconnecting = (pc["reconnect"] # "none"). *)

Tick == /\ Event /\ monitor /\ pc["reconnect"] = "none" /\ active /\ Goto("reconnect", "list")
        /\ UNCHANGED <<tunnel_vars, relay_vars, phone_vars, on, app, races, bounds>>

\* MUTANT: the early return does not reset reconnecting.
listDevices_kept ==
  /\ Event /\ pc["reconnect"] = "list"
  /\ IF attached /\ active
     THEN /\ Goto("reconnect", IF phase = "waiting-permission" THEN "reverse" ELSE "none")
          /\ UNCHANGED <<phase, serial>>
     ELSE /\ Goto("reconnect", "lost")
          /\ IF phase = "connected" /\ active THEN setTunnel("waiting-permission", TRUE)
                                              ELSE UNCHANGED <<phase, serial>>
  /\ UNCHANGED <<relay_vars, phone_vars, active, monitor, on, app, races, bounds>>

\* The phone of the active request is listed, or not; without a request none is.
listDevices ==
  /\ Event /\ pc["reconnect"] = "list"
  /\ IF attached /\ active
     THEN /\ Goto("reconnect", IF phase = "waiting-permission" THEN "reverse" ELSE "none")
          /\ UNCHANGED <<phase, serial>>
     ELSE /\ Goto("reconnect", "none")
          /\ IF phase = "connected" /\ active THEN setTunnel("waiting-permission", TRUE)
                                              ELSE UNCHANGED <<phase, serial>>
  /\ UNCHANGED <<relay_vars, phone_vars, active, monitor, on, app, races, bounds>>

\* The list cannot be had.
ListFails == /\ Event /\ pc["reconnect"] = "list" /\ Fault(TRUE) /\ Goto("reconnect", "none")
             /\ UNCHANGED <<tunnel_vars, relay_vars, phone_vars, on, app, races, starts>>

\* The mapping is restored, then the client started; activeRequest is read again
\* in between, and an exception ends the call.
Restore(ok) ==
  /\ Event /\ pc["reconnect"] \in {"reverse", "launch"} /\ (ok => attached)
  /\ Fault(attached /\ ~ok)
  /\ IF pc["reconnect"] = "reverse" THEN mapped' = ok /\ UNCHANGED vpn
                                    ELSE vpn' = (vpn \/ ok) /\ UNCHANGED mapped
  /\ Race("phone", ok /\ Overtaken)
  /\ Goto("reconnect", IF ok /\ active /\ pc["reconnect"] = "reverse" THEN "launch"
                                                                   ELSE "none")
  /\ UNCHANGED <<tunnel_vars, relay_vars, on, attached, app, starts>>

\* The line of a client that connects or disconnects.
handleRelayLine ==
  /\ Event /\ lines # << >> /\ lines' = Tail(lines)
  /\ CASE Head(lines) = "connected" -> setTunnel("connected", active)
       [] Head(lines) = "disconnected" /\ active -> setTunnel("waiting-permission", TRUE)
       [] OTHER -> UNCHANGED <<phase, serial>>
  /\ UNCHANGED <<phone_vars, active, monitor, pc, on, procs, child, linked, app, races,
                 bounds>>

-----------------------------------------------------------------------------
(* The phone and the relay's view of it (external). *)

Disconnect == /\ Len(lines) < MaxLines
              /\ linked' = 0 /\ lines' = Append(lines, "disconnected")

\* The cable is pulled, which ends the mapping and the connection, or plugged in.
Cable == /\ Event /\ Fault(attached) /\ attached' = ~attached /\ mapped' = FALSE
         /\ IF linked # 0 THEN Disconnect ELSE UNCHANGED <<linked, lines>>
         /\ UNCHANGED <<tunnel_vars, procs, child, vpn, pc, on, app, races, starts>>

ClientConnects == /\ Event /\ vpn /\ mapped /\ linked = 0 /\ Len(lines) < MaxLines
                  /\ \E p \in Procs : procs[p] = "listening" /\ linked' = p
                  /\ lines' = Append(lines, "connected")
                  /\ UNCHANGED <<tunnel_vars, phone_vars, task_vars, procs, child, races>>

\* The client that was stopped closes its connection.
ClientDisconnects == /\ Event /\ linked # 0 /\ ~vpn /\ Disconnect
                     /\ UNCHANGED <<tunnel_vars, phone_vars, task_vars, procs, child, races>>

StartStep(s) == \/ Prepare(s) \/ ensureClientInstalled(s) \/ Reverse(s) \/ Started(s)
                \/ Launch(s) \/ StartFails(s) \/ Failed(s) \/ Stopped(s)
StopStep(t) == StopCommand(t) \/ Stopped(t)
Reconnect == listDevices \/ ListFails \/ Restore(TRUE) \/ Restore(FALSE)

Next == \/ \E s \in Starts : startTunnel(s) \/ StartStep(s)
        \/ \E t \in Stops : StopClick(t)
        \/ \E t \in Stopper : StopStep(t)
        \/ \E t \in Task : forceTimeout(t)
        \/ \E p \in Procs : RelayReady(p) \/ RelayExit(p)
        \/ BeforeQuit \/ CloseAdb \/ Tick \/ Reconnect \/ handleRelayLine
        \/ Cable \/ ClientConnects \/ ClientDisconnects

Spec == Init /\ [][Next]_vars

\* Every awaited command ends, timers run, a process killed by SIGKILL exits, the
\* relay notices a client that is gone, and a reverse that is tried again and again
\* works once.  Nothing is assumed of a relay that is asked to terminate.
FairSpec == /\ Spec /\ \A s \in Starts : WF_vars(StartStep(s))
            /\ \A t \in Stopper : WF_vars(StopStep(t))
            /\ \A t \in Task : WF_vars(forceTimeout(t))
            /\ \A p \in Procs : WF_vars(procs[p] = "forced" /\ RelayExit(p))
            /\ WF_vars(CloseAdb) /\ WF_vars(Tick) /\ WF_vars(Reconnect)
            /\ WF_vars(handleRelayLine) /\ WF_vars(ClientDisconnects)
            /\ SF_vars(pc["reconnect"] = "reverse" /\ Restore(TRUE))

-----------------------------------------------------------------------------
\* After a stop with nothing in flight: no reconnection is scheduled, no relay runs,
\* and the phone has neither mapping nor client.  The exceptions are the races that
\* the histories record: the exit of an old process drops the reference to a new
\* one; a command issued before the stop takes effect after it.
StopIsQuiet ==
  app = "running" /\ phase = "idle" /\ (\A t \in Task : pc[t] = "none") =>
    /\ "monitor" \in races \/ ~monitor
    /\ "relay" \in races \/ \A p \in Procs : procs[p] \notin {"starting", "listening"}
    /\ "phone" \in races \/ (~mapped /\ ~vpn)

\* The program quits, whatever was in progress and even if the relay ignores the
\* request to terminate.
Quits == app = "quitting" ~> app = "quit"

\* "Restores the reverse mapping after a brief USB disconnect" (README.md): while a
\* tunnel is monitored, not reported as failed, and the phone and the relay are
\* there, the mapping is there again and again, or the client is still connected.
Restores ==
  <>[](/\ monitor /\ active /\ phase \in {"waiting-permission", "connected"} /\ attached
       /\ app = "running" /\ \E p \in Procs : procs[p] = "listening" /\ "line" \notin races)
    => []<>(mapped \/ linked # 0)
=============================================================================
