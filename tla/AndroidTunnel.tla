---------------------------- MODULE AndroidTunnel ---------------------------
(***************************************************************************)
(* The tunnel of the Android client: RelayTunnelProvider.java,             *)
(* PersistentRelayTunnel.java, RelayTunnel.java and Forwarder.java.  Two   *)
(* threads forward packets over one tunnel that is reopened when it        *)
(* breaks, and the main thread stops them.                                 *)
(*                                                                         *)
(* getCurrentTunnelLock is the variable lock.  A section synchronized on   *)
(* the provider is one step: wait() is the only place where a thread       *)
(* sleeps in one, and it gives the monitor up.                             *)
(***************************************************************************)
EXTENDS Naturals, FiniteSets

CONSTANTS Tunnels,    \* bound: RelayTunnel objects that are referenced at a time
          None

Worker == {"sender", "receiver"}

ASSUME TunnelAssumption == Tunnels \subseteq Nat /\ None \notin Tunnels /\ None \notin Worker

VARIABLES tunnel,       \* of the provider: the current RelayTunnel, or None
          first,        \* of the provider: no connection was attempted
          lock,         \* who holds getCurrentTunnelLock
          status,       \* of each RelayTunnel
          stopped,      \* of the PersistentRelayTunnel
          pc,           \* where each worker is
          my,           \* the tunnel a worker uses
          notify_error, \* notifyDisconnectedOnError
          interrupted,  \* the interrupt flags of the workers
          main,         \* where the main thread is
          vpn,          \* what the VPN interface gives to the sender
          shown,        \* the last message posted to the listener
          relay,        \* the relay as adb reverse reaches it (external)
          late,         \* history: a tunnel was opened after the stop
          torn          \* history: getCurrentTunnel() returned what it did not connect

vars == <<tunnel, first, lock, status, stopped, pc, my, notify_error, interrupted,
          main, vpn, shown, relay, late, torn>>
provider_vars == <<tunnel, first, lock, status, notify_error, shown, late, torn>>

Locked == {"wait", "connect", "connecting", "notify"}

TypeOK == /\ tunnel \in Tunnels \cup {None} /\ first \in BOOLEAN
          /\ lock \in Worker \cup {None}
          /\ \A w \in Worker : lock = w <=> pc[w] \in Locked
          /\ status \in [Tunnels -> {"new", "connected", "broken", "closed"}]
          /\ stopped \in BOOLEAN /\ notify_error \in BOOLEAN /\ late \in BOOLEAN
          /\ torn \in BOOLEAN
          /\ pc \in [Worker -> Locked \cup {"read", "top", "get", "return", "use",
                                            "invalidate", "ended", "dead"}]
          /\ my \in [Worker -> Tunnels \cup {None}]
          /\ interrupted \subseteq Worker
          /\ main \in {"running", "close", "cancel", "wake", "done"}
          /\ vpn \in {"none", "v4", "other"} /\ shown \in {"none", "up", "down"}
          /\ relay \in {"up", "down", "mute"}

\* Forwarder.forward() starts both workers.
Init == /\ tunnel = None /\ first = TRUE /\ lock = None
        /\ status = [t \in Tunnels |-> "closed"] /\ stopped = FALSE
        /\ pc = [w \in Worker |-> IF w = "sender" THEN "read" ELSE "top"]
        /\ my = [w \in Worker |-> None] /\ notify_error = FALSE /\ interrupted = {}
        /\ main = "running" /\ vpn = "none" /\ shown = "none"
        /\ relay \in {"up", "down", "mute"} /\ late = FALSE /\ torn = FALSE

Goto(w, label) == pc' = [pc EXCEPT ![w] = label]

-----------------------------------------------------------------------------
(* RelayTunnelProvider. *)

\* RelayTunnel.open(): an object that nobody refers to any more is reused.
open == \E t \in Tunnels :
  /\ status[t] = "closed" /\ \A w \in Worker : my[w] # t
  /\ \A u \in Tunnels : status[u] = "closed" /\ (\A w \in Worker : my[w] # u) => t <= u
  /\ tunnel' = t /\ status' = [status EXCEPT ![t] = "new"]
  /\ late' = (late \/ stopped)

\* MUTANT: getCurrentTunnel() may run in both workers at once.
getCurrentTunnel_shared(w) ==
  /\ pc[w] = "get"
  /\ \/ /\ tunnel # None
        /\ my' = [my EXCEPT ![w] = tunnel] /\ Goto(w, "use")
        /\ UNCHANGED <<tunnel, status, late, lock>>
     \/ /\ tunnel = None /\ first /\ open /\ lock' = w /\ Goto(w, "connect")
        /\ UNCHANGED my
     \/ /\ tunnel = None /\ ~first /\ lock' = w /\ Goto(w, "wait")
        /\ UNCHANGED <<tunnel, status, late, my>>
  /\ UNCHANGED <<first, notify_error, shown, interrupted, torn>>

\* getCurrentTunnel() up to the connection; the lock is kept unless it returns.
getCurrentTunnel(w) ==
  /\ pc[w] = "get" /\ lock = None
  /\ \/ /\ tunnel # None
        /\ my' = [my EXCEPT ![w] = tunnel] /\ Goto(w, "use")
        /\ UNCHANGED <<tunnel, status, late, lock>>
     \/ /\ tunnel = None /\ first /\ open /\ lock' = w /\ Goto(w, "connect")
        /\ UNCHANGED my
     \/ /\ tunnel = None /\ ~first /\ lock' = w /\ Goto(w, "wait")
        /\ UNCHANGED <<tunnel, status, late, my>>
  /\ UNCHANGED <<first, notify_error, shown, interrupted, torn>>

\* MUTANT: an interruption leaves the lock taken.
waitUntilNextAttemptSlot_locked(w) ==
  /\ pc[w] = "wait"
  /\ \/ /\ w \in interrupted /\ interrupted' = interrupted \ {w}
        /\ Goto(w, "top") /\ UNCHANGED <<tunnel, status, late, lock>>
     \/ open /\ Goto(w, "connect") /\ UNCHANGED <<interrupted, lock>>
  /\ UNCHANGED <<first, notify_error, shown, my, torn>>

\* The delay passes and the tunnel is opened, or the thread is interrupted.
waitUntilNextAttemptSlot(w) ==
  /\ pc[w] = "wait"
  /\ \/ /\ w \in interrupted /\ interrupted' = interrupted \ {w} /\ lock' = None
        /\ Goto(w, "top") /\ UNCHANGED <<tunnel, status, late>>
     \/ open /\ Goto(w, "connect") /\ UNCHANGED <<interrupted, lock>>
  /\ UNCHANGED <<first, notify_error, shown, my, torn>>

\* connectTunnel() reads the field again: close() may have emptied it, and the
\* NullPointerException ends the thread.
connectTunnel(w) ==
  /\ pc[w] = "connect" /\ first' = FALSE /\ notify_error' = first
  /\ my' = [my EXCEPT ![w] = tunnel]
  /\ IF tunnel = None THEN Goto(w, "dead") /\ lock' = None
                      ELSE Goto(w, "connecting") /\ UNCHANGED lock
  /\ UNCHANGED <<tunnel, status, late, shown, interrupted, torn>>

\* MUTANT: the lock is released before the listener is notified.
connect_unlocked(w) ==
  /\ pc[w] = "connecting"
  /\ \/ /\ relay = "up" /\ status[my[w]] = "new"
        /\ status' = [status EXCEPT ![my[w]] = "connected"] /\ Goto(w, "notify")
        /\ lock' = None /\ UNCHANGED <<shown, my>>
     \/ /\ relay = "down" \/ status[my[w]] = "closed"
        /\ shown' = IF notify_error THEN "down" ELSE shown
        /\ lock' = None /\ my' = [my EXCEPT ![w] = None] /\ Goto(w, "top")
        /\ UNCHANGED status
  /\ UNCHANGED <<tunnel, first, late, notify_error, interrupted, torn>>

\* RelayTunnel.connect() and readClientId(): it blocks while the relay accepts
\* the connection and does not send the id.  A failure leaves the tunnel current.
connect(w) ==
  /\ pc[w] = "connecting"
  /\ \/ /\ relay = "up" /\ status[my[w]] = "new"
        /\ status' = [status EXCEPT ![my[w]] = "connected"] /\ Goto(w, "notify")
        /\ UNCHANGED <<shown, lock, my>>
     \/ /\ relay = "down" \/ status[my[w]] = "closed"
        /\ shown' = IF notify_error THEN "down" ELSE shown
        /\ lock' = None /\ my' = [my EXCEPT ![w] = None] /\ Goto(w, "top")
        /\ UNCHANGED status
  /\ UNCHANGED <<tunnel, first, late, notify_error, interrupted, torn>>

notifyConnected(w) ==
  /\ pc[w] = "notify" /\ shown' = "up" /\ lock' = None /\ Goto(w, "return")
  /\ UNCHANGED <<tunnel, first, status, late, notify_error, interrupted, my, torn>>

\* The field is read once more, without a lock.
return(w) == /\ pc[w] = "return" /\ my' = [my EXCEPT ![w] = tunnel] /\ Goto(w, "use")
             /\ torn' = (torn \/ tunnel # my[w])
             /\ UNCHANGED <<tunnel, first, lock, status, notify_error, shown, late, interrupted>>

\* invalidateTunnel(): the current tunnel is closed.
invalidate ==
  IF tunnel = None THEN UNCHANGED <<tunnel, status, shown>>
  ELSE tunnel' = None /\ status' = [status EXCEPT ![tunnel] = "closed"] /\ shown' = "down"

\* MUTANT: the tunnel that failed is not compared with the current one.
invalidateTunnel_current(w) ==
  /\ pc[w] = "invalidate" /\ Goto(w, "top") /\ my' = [my EXCEPT ![w] = None]
  /\ invalidate
  /\ UNCHANGED <<first, lock, late, notify_error, interrupted, torn>>

\* invalidateTunnel(tunnelToInvalidate), of a worker whose tunnel failed.
invalidateTunnel(w) ==
  /\ pc[w] = "invalidate" /\ Goto(w, "top") /\ my' = [my EXCEPT ![w] = None]
  /\ IF tunnel = my[w] THEN invalidate ELSE UNCHANGED <<tunnel, status, shown>>
  /\ UNCHANGED <<first, lock, late, notify_error, interrupted, torn>>

-----------------------------------------------------------------------------
(* PersistentRelayTunnel and the loops of Forwarder. *)

\* forwardDeviceToTunnel(): a packet of the VPN; only IPv4 is sent.
forwardDeviceToTunnel ==
  /\ pc["sender"] = "read" /\ vpn # "none" /\ vpn' = "none"
  /\ IF vpn = "v4" THEN Goto("sender", "top") ELSE UNCHANGED pc
  /\ UNCHANGED <<provider_vars, my, interrupted, stopped, main, relay>>

\* while (!stopped.get()): InterruptedIOException ends the worker.
top(w) == /\ pc[w] = "top" /\ Goto(w, IF stopped THEN "ended" ELSE "get")
          /\ UNCHANGED <<provider_vars, my, interrupted>>

\* MUTANT: the tunnel that failed is kept.
fails_kept(w) == /\ pc[w] = "use"
                 /\ \/ my[w] = None /\ Goto(w, "dead")
                    \/ /\ my[w] # None /\ status[my[w]] # "connected"
                       /\ Goto(w, "top")
                 /\ UNCHANGED <<provider_vars, my, interrupted>>

\* A null tunnel is a NullPointerException; a tunnel that is not connected fails.
\* A write to a broken tunnel may still succeed.
fails(w) == /\ pc[w] = "use"
            /\ \/ my[w] = None /\ Goto(w, "dead")
               \/ /\ my[w] # None /\ status[my[w]] # "connected"
                  /\ Goto(w, "invalidate")
            /\ UNCHANGED <<provider_vars, my, interrupted>>

send == /\ pc["sender"] = "use" /\ my["sender"] # None
        /\ status[my["sender"]] \in {"connected", "broken"}
        /\ Goto("sender", "read") /\ my' = [my EXCEPT !["sender"] = None]
        /\ UNCHANGED <<provider_vars, interrupted>>

\* The relay sent something: forwardTunnelToDevice() writes it and receives again.
\* A tunnel breaks for the receiver when all that came before is read.
receive == /\ pc["receiver"] = "use" /\ my["receiver"] # None
           /\ status[my["receiver"]] = "connected"
           /\ Goto("receiver", "top") /\ my' = [my EXCEPT !["receiver"] = None]
           /\ UNCHANGED <<provider_vars, interrupted, stopped, main, vpn, relay>>

Step(w) ==
  /\ \/ top(w) \/ getCurrentTunnel(w) \/ waitUntilNextAttemptSlot(w) \/ connectTunnel(w)
     \/ connect(w) \/ notifyConnected(w) \/ return(w) \/ fails(w) \/ invalidateTunnel(w)
     \/ w = "sender" /\ send
  /\ UNCHANGED <<stopped, main, vpn, relay>>

-----------------------------------------------------------------------------
(* The main thread, the VPN and the relay. *)

\* MUTANT: close() waits for a getCurrentTunnel() that is under way.
close_locked == /\ main = "close" /\ lock = None /\ main' = "cancel" /\ invalidate
                /\ UNCHANGED <<first, lock, late, notify_error, interrupted, stopped, vpn, torn>>

\* PersistentRelayTunnel.close(), after stopped.set(true).
close == /\ main = "close" /\ main' = "cancel" /\ invalidate
         /\ UNCHANGED <<first, lock, late, notify_error, interrupted, stopped, vpn, torn>>

\* Forwarder.stop(): the tunnel is closed, the workers are interrupted, and a
\* packet is sent to the VPN to wake the sender up.
stop == /\ \/ /\ main = "running" /\ main' = "close" /\ stopped' = TRUE
              /\ UNCHANGED <<provider_vars, interrupted, vpn>>
           \/ close
           \/ /\ main = "cancel" /\ main' = "wake" /\ interrupted' = Worker
              /\ UNCHANGED <<provider_vars, stopped, vpn>>
           \/ /\ main = "wake" /\ vpn = "none" /\ main' = "done" /\ vpn' = "v4"
              /\ UNCHANGED <<provider_vars, stopped, interrupted>>
        /\ UNCHANGED <<pc, my, relay>>

Packet(p) == /\ vpn = "none" /\ main = "running" /\ vpn' = p
             /\ UNCHANGED <<provider_vars, stopped, pc, my, interrupted, main, relay>>

\* The relay, or adb reverse, changes: a relay that goes down breaks the tunnel.
RelayIs(r) == /\ relay # r /\ relay' = r
              /\ status' = IF r = "up" THEN status
                           ELSE [t \in Tunnels |-> IF status[t] = "connected"
                                                     THEN "broken" ELSE status[t]]
              /\ UNCHANGED <<tunnel, first, lock, notify_error, shown, late, torn, stopped, pc,
                             my, interrupted, main, vpn>>

Next == \/ \E w \in Worker : Step(w)
        \/ forwardDeviceToTunnel \/ receive \/ stop
        \/ \E p \in {"v4", "other"} : Packet(p)
        \/ \E r \in {"up", "down", "mute"} : RelayIs(r)

Spec == Init /\ [][Next]_vars

\* The threads run, and once it began the stop goes on.
FairSpec == /\ Spec /\ \A w \in Worker : WF_vars(Step(w))
            /\ WF_vars(forwardDeviceToTunnel) /\ WF_vars(stop /\ main # "running")

-----------------------------------------------------------------------------
\* The workers share one tunnel: every other tunnel object is closed, and no
\* tunnel becomes current while a thread waits for the next attempt, as the
\* comment of getCurrentTunnel() says.
OneTunnel == /\ \A t \in Tunnels : status[t] # "closed" => t = tunnel
             /\ \A w \in Worker : pc[w] = "wait" => tunnel = None

\* Until the stop, nobody closes a tunnel that works: a worker whose tunnel
\* failed never closes the one the other worker opened since.  The unlocked
\* return of getCurrentTunnel() is the exception: it may give a worker a tunnel
\* that the other one is still connecting.
ClosesOnlyBroken ==
  [][\A t \in Tunnels : status[t] = "connected" /\ status'[t] = "closed" => stopped \/ torn]_vars

\* Until the stop, the last message posted says whether the current tunnel was
\* connected, unless the worker that connected it has not posted yet.  The
\* exception is the same.
ListenerAgrees ==
  ~stopped /\ ~torn /\ (\A w \in Worker : pc[w] # "notify") =>
    (shown = "up" <=> tunnel # None /\ status[tunnel] \in {"connected", "broken"})

Gone(w) == pc[w] \in {"ended", "dead"}

\* After the stop both workers end and no tunnel stays open, also when a worker
\* waits for the next attempt or for an id the relay never sends; unless a
\* worker that had tested stopped before opens a tunnel after the close.
Stops == stopped ~> ((\A w \in Worker : Gone(w)) /\ tunnel = None) \/ late

\* With a relay that answers from some time on, the tunnel is connected in the
\* end: a tunnel that broke, or that failed to connect, is always replaced.  The
\* exception is again the unlocked return, whose null ends a worker, and by
\* which the workers can close each other's tunnels for ever.
Reconnects ==
  <>[](relay = "up") =>
    <>[](\/ stopped \/ torn
         \/ tunnel # None /\ status[tunnel] = "connected" /\ shown = "up")
=============================================================================
