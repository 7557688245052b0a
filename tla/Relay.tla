-------------------------------- MODULE Relay -------------------------------
(***************************************************************************)
(* relay/relay.rs, selector.rs, tunnel_server.rs, client.rs and router.rs: *)
(* the poll loop of the relay, the handlers it runs and the objects they   *)
(* create and destroy.  The relay has one thread: only the devices and the *)
(* clock act while a handler runs.                                         *)
(*                                                                         *)
(* A handler is one action, except that a client that reads packets pushes *)
(* them one action at a time (current is the client that does).  What a    *)
(* connection does with a packet or an event is in TcpConnection and       *)
(* UdpConnection; here it stays open or closes, and may give the client    *)
(* bytes.                                                                  *)
(***************************************************************************)
EXTENDS Functions, Sequences, Integers

CONSTANTS Clients,          \* bound: the devices that connect, by client id
          Conns,            \* bound: the connections that exist at a time
          Tokens,           \* bound: the slots of the selector's slab
          TcpIds, UdpIds,   \* the connection ids of the packets
          ID_LENGTH,        \* bytes of the client id (4)
          PartialId,        \* may a write take only a part of the id?
          None              \* no handler, no client, no token

VARIABLES handlers,          \* the slab: the object a token stands for
          tokens_to_remove,
          registered,        \* the objects epoll knows (external)
          backlog,           \* devices the listener has not accepted
          edge,              \* the listener has an event to report
          next_client_id,
          clients,           \* the clients of the tunnel server
          client,            \* the Client objects
          conn,              \* the Connection objects
          idle,              \* UDP connections past their idle timeout
          phase,             \* of the poll loop
          batch,             \* polled events whose handler has not run
          current,           \* the client that is pushing packets, or None
          panic              \* why the relay has panicked, "none" while it runs

vars == <<handlers, tokens_to_remove, registered, backlog, edge, next_client_id,
          clients, client, conn, idle, phase, batch, current, panic>>

Ids == TcpIds \cup UdpIds
Interest == {"readable", "writable"}
server == [kind |-> "server", n |-> 0]
Client(c) == [kind |-> "client", n |-> c]
Conn(k) == [kind |-> "connection", n |-> k]
Object == {server} \cup {Client(c) : c \in Clients} \cup {Conn(k) : k \in Conns}

ASSUME RelayAssumption ==
  /\ Clients \subseteq Nat /\ ID_LENGTH \in Nat \ {0} /\ PartialId \in BOOLEAN
  /\ TcpIds \cap UdpIds = {}
  /\ None \notin Clients /\ None \notin Tokens /\ None \notin Ids /\ None \notin Object

ClientState == [state : {"absent", "open", "closed"}, token : Tokens \cup {None},
                pending_id_bytes : 0 .. ID_LENGTH, interests : SUBSET Interest,
                filled : BOOLEAN,   \* network_to_client holds bytes
                router : Seq(Conns)]
ConnState == [state : {"free", "open", "closed"}, client : Clients \cup {None},
              id : Ids \cup {None}, token : Tokens \cup {None},
              leaked : BOOLEAN]     \* history: its deregister failed
\* A failed expect() or panic!() on what is looked up, and the unwrap() of close().
Panics == {"none", "lookup", "deregister"}
Event == [object : Object, token : Tokens, ready : SUBSET Interest]

TypeOK == /\ handlers \in [Tokens -> Object \cup {None}]
          /\ tokens_to_remove \subseteq Tokens /\ registered \subseteq Object
          /\ backlog \in Nat /\ edge \in BOOLEAN /\ next_client_id \in Nat
          /\ clients \subseteq Clients
          /\ client \in [Clients -> ClientState] /\ conn \in [Conns -> ConnState]
          /\ idle \subseteq Conns /\ batch \subseteq Event
          /\ phase \in {"poll", "clean", "run"} /\ current \in Clients \cup {None}
          /\ panic \in Panics

NoConn == [state |-> "free", client |-> None, id |-> None, token |-> None, leaked |-> FALSE]

\* TunnelServer::create() registers the listener, then poll_loop() starts.
Init == /\ \E t \in Tokens : handlers = [u \in Tokens |-> IF u = t THEN server ELSE None]
        /\ tokens_to_remove = {} /\ registered = {server}
        /\ backlog = 0 /\ edge = FALSE /\ next_client_id = 0 /\ clients = {}
        /\ client = [c \in Clients |-> [state |-> "absent", token |-> None,
                       pending_id_bytes |-> ID_LENGTH, interests |-> {},
                       filled |-> FALSE, router |-> << >>]]
        /\ conn = [k \in Conns |-> NoConn]
        /\ idle = {} /\ phase = "poll" /\ batch = {} /\ current = None /\ panic = "none"

Running == panic = "none"

-----------------------------------------------------------------------------
(***************************************************************************)
(* The selector.  A world w is the record of what handlers change; a       *)
(* method maps it to the world, or the set of worlds, it may leave.        *)
(***************************************************************************)
World == [handlers |-> handlers, tokens_to_remove |-> tokens_to_remove,
          registered |-> registered, backlog |-> backlog, next_client_id |-> next_client_id,
          clients |-> clients, client |-> client, conn |-> conn, idle |-> idle,
          current |-> current, panic |-> panic]
Becomes(w) == /\ handlers' = w.handlers /\ tokens_to_remove' = w.tokens_to_remove
              /\ registered' = w.registered /\ backlog' = w.backlog
              /\ next_client_id' = w.next_client_id /\ clients' = w.clients
              /\ client' = w.client /\ conn' = w.conn /\ idle' = w.idle
              /\ current' = w.current /\ panic' = w.panic

VacantTokens == {t \in Tokens : handlers[t] = None}
register(w, o, t) == [w EXCEPT !.handlers[t] = o, !.registered = @ \cup {o}]

\* MUTANT: the handlers are removed at once, while events of the batch may need them.
deregister_now(w, objects, tokens) ==
  [w EXCEPT !.registered = @ \ objects,
            !.handlers = [t \in Tokens |-> IF t \in tokens THEN None ELSE @[t]]]
\* MUTANT: the handlers are never removed.
deregister_only(w, objects, tokens) == [w EXCEPT !.registered = @ \ objects]
\* Of one object or, when several are closed in a row, of all of them.  An object
\* is registered once, so a token is pushed at most once.
deregister(w, objects, tokens) ==
  [w EXCEPT !.registered = @ \ objects, !.tokens_to_remove = @ \cup tokens]

-----------------------------------------------------------------------------
(***************************************************************************)
(* Connection::close() and the router.  Deregistering a connection may     *)
(* fail ("this can happen in mio"): epoll no longer knows the socket, and  *)
(* the token is not removed.  A connection that closes touches nothing of  *)
(* another one, so the connections ks that a loop closes are closed in one *)
(* update.                                                                 *)
(***************************************************************************)
close_all(w, ks, failing) ==
  LET closed == [w EXCEPT !.idle = @ \ ks, !.registered = @ \ {Conn(k) : k \in ks},
                   !.conn = [k \in Conns |-> IF k \in ks
                               THEN [w.conn[k] EXCEPT !.state = "closed",
                                                      !.leaked = k \in failing]
                               ELSE w.conn[k]]]
  IN deregister(closed, {Conn(k) : k \in ks \ failing}, {w.conn[k].token : k \in ks \ failing})

close_connection(w, k, fails) == close_all(w, {k}, IF fails THEN {k} ELSE {})

\* Vec::swap_remove
swap_remove(s, i) == LET n == Len(s) IN SubSeq([s EXCEPT ![i] = s[n]], 1, n - 1)

\* The connection's own handler closed it: remove_from_router().
remove_from_router(w, k) ==
  LET c == w.conn[k].client
      index == {i \in DOMAIN w.client[c].router : w.client[c].router[i] = k}
  IN IF index = {} \/ (c \notin w.clients /\ Client(c) \notin Range(w.handlers))
     THEN [w EXCEPT !.panic = "lookup"]
     ELSE [w EXCEPT !.client[c].router = swap_remove(@, CHOOSE i \in index : TRUE)]

\* MUTANT: the connections are dropped without being closed.
clear_unclosed(w, c, failing) == [w EXCEPT !.client[c].router = << >>]
clear(w, c, failing) ==
  [close_all(w, Range(w.client[c].router), failing) EXCEPT !.client[c].router = << >>]

\* One turn of the loop of clean_expired_connections(), at index i: what is left of
\* the router and what was closed.
visit(r, i, expired) ==
  IF r.left[i] \in expired
  THEN [left |-> swap_remove(r.left, i), closed |-> r.closed \cup {r.left[i]}]
  ELSE r

\* MUTANT: the indices are visited upwards.
clean_expired_connections_upwards(s, expired) ==
  LET walk[i \in 0 .. Len(s)] ==
        IF i = 0 THEN [left |-> s, closed |-> {}]
        ELSE IF i \in DOMAIN walk[i - 1].left THEN visit(walk[i - 1], i, expired)
        ELSE walk[i - 1]
  IN walk[Len(s)]
\* The router s after its last i indices were visited, from the last one down.
clean_expired_connections(s, expired) ==
  LET walk[i \in 0 .. Len(s)] ==
        IF i = 0 THEN [left |-> s, closed |-> {}]
        ELSE visit(walk[i - 1], Len(s) - i + 1, expired)
  IN walk[Len(s)]

-----------------------------------------------------------------------------
(***************************************************************************)
(* The client.                                                             *)
(***************************************************************************)
update_interests(w, c) ==
  [w EXCEPT !.client[c].interests =
     IF w.client[c].filled THEN {"readable", "writable"} ELSE {"readable"}]

\* MUTANT: send_to_client() does not ask for writing.
send_to_client_silent(w, c) == [w EXCEPT !.client[c].filled = TRUE]
send_to_client(w, c) == update_interests([w EXCEPT !.client[c].filled = TRUE], c)

\* close(): Deregistering a client may fail as it may for a connection, but here
\* the result is unwrapped: the relay panics, with closed already set.
unwrap_fails(w, c) == [w EXCEPT !.client[c].state = "closed", !.panic = "deregister"]
\* Otherwise deregister(), Router::clear() and, through the close listener,
\* TunnelServer::remove_client().
close_deregistered(w, c, failing) ==
  LET cleared == clear(deregister([w EXCEPT !.client[c].state = "closed"], {Client(c)},
                                  {w.client[c].token}), c, failing)
  IN IF c \notin w.clients THEN [cleared EXCEPT !.panic = "lookup"]
     ELSE [cleared EXCEPT !.clients = @ \ {c}]
close_client(w, c, failing) == {unwrap_fails(w, c), close_deregistered(w, c, failing)}

\* MUTANT: the whole id is written again after a partial write.
send_id_whole(w, c) ==
  {[w EXCEPT !.client[c].pending_id_bytes = @ - n] : n \in 1 .. ID_LENGTH}
send_id(w, c) ==
  {[w EXCEPT !.client[c].pending_id_bytes = @ - n] :
     n \in IF PartialId THEN 1 .. w.client[c].pending_id_bytes
                        ELSE {w.client[c].pending_id_bytes}}
\* process_send(): the id goes first; a data write that fails in any way,
\* WouldBlock included, closes the client.  After the write, pending sources may
\* refill what was written.  An id write that would block ends process().
process_send(w, c) ==
  IF w.client[c].pending_id_bytes > 0 THEN send_id(w, c)
  ELSE {[w EXCEPT !.client[c].filled = b] :
          b \in IF w.client[c].filled THEN BOOLEAN ELSE {FALSE}}

\* process_receive(): packets to push, or EOF or an error.
process_receive(w, c, failing) == {[w EXCEPT !.current = c]} \cup close_client(w, c, failing)

\* process(): a result that would block leaves it before update_interests().
process_client(w, c, ready, failing) ==
  LET sent == IF "writable" \in ready THEN process_send(w, c) ELSE {w}
      blocked == (IF "writable" \in ready /\ w.client[c].pending_id_bytes > 0
                  THEN {w} ELSE {})
                 \cup (IF "readable" \in ready THEN sent ELSE {})
      failed == IF "writable" \in ready THEN close_client(w, c, failing) ELSE {}
      done == IF "readable" \in ready
              THEN UNION {process_receive(v, c, failing) : v \in sent}
              ELSE {update_interests(v, c) : v \in sent}
  IN blocked \cup failed \cup done

on_ready_client(w, c, ready, failing) ==
  IF w.client[c].state = "closed" THEN {w} ELSE process_client(w, c, ready, failing)

(***************************************************************************)
(* A connection's process(): an open connection is touched, may send to    *)
(* the client, may close, and then removes itself from the router.         *)
(***************************************************************************)
process_connection(w, k, failing) ==
  LET touched == [w EXCEPT !.idle = @ \ {k}]
      sent == {touched, send_to_client(touched, w.conn[k].client)}
  IN sent \cup {remove_from_router(close_connection(v, k, k \in failing), k) : v \in sent}

\* MUTANT: process() does not look at closed.
on_ready_connection_unguarded(w, k, failing) == process_connection(w, k, failing)
on_ready_connection(w, k, failing) ==
  IF w.conn[k].state = "closed" THEN {w} ELSE process_connection(w, k, failing)

\* Client::create(): it starts registered for writing, to send its id.
create_client(w, c, t) ==
  register([w EXCEPT !.client[c] = [@ EXCEPT !.state = "open", !.token = t,
                                             !.interests = {"writable"}]], Client(c), t)

\* The server's accept_client() takes one device, if there is one; accept() or
\* the registration may fail.
accept_client(w) ==
  LET c == w.next_client_id
      taken == [w EXCEPT !.next_client_id = c + 1, !.backlog = @ - 1]
  IN {w} \cup IF w.backlog = 0 THEN {}
              ELSE {[create_client(taken, c, t) EXCEPT !.clients = @ \cup {c}] :
                      t \in VacantTokens} \cup
                   {[taken EXCEPT !.client[c].state = "closed"]}

-----------------------------------------------------------------------------
(***************************************************************************)
(* The poll loop.                                                          *)
(***************************************************************************)
\* External: the next device connects to the listener, an edge.
DeviceConnect ==
  /\ Running /\ next_client_id + backlog \in Clients
  /\ backlog' = backlog + 1 /\ edge' = TRUE
  /\ UNCHANGED <<handlers, tokens_to_remove, registered, next_client_id, clients, client,
                 conn, idle, phase, batch, current, panic>>

\* External: IDLE_TIMEOUT_SECONDS pass without a packet or an event.
Expire(k) ==
  /\ Running /\ conn[k].state = "open" /\ conn[k].id \in UdpIds /\ k \notin idle
  /\ idle' = idle \cup {k}
  /\ UNCHANGED <<handlers, tokens_to_remove, registered, backlog, edge, next_client_id,
                 clients, client, conn, phase, batch, current, panic>>

TokenOf(o) == CASE o.kind = "client" -> client[o.n].token
                [] o.kind = "connection" -> conn[o.n].token
                [] OTHER -> CHOOSE t \in Tokens : handlers[t] = server

\* What epoll can report of an object.  The readiness of a connection is left to
\* its own module; hup on a tunnel comes with what the client is registered for.
Reports(o) ==
  {[object |-> o, token |-> TokenOf(o), ready |-> r] :
     r \in CASE o.kind = "client" -> (SUBSET client[o.n].interests) \ {{}}
             [] o.kind = "server" -> IF edge THEN {{"readable"}} ELSE {}
             [] OTHER -> {{}}}

\* A poll reports some of the events, each object at most once; the cleaning
\* deadline may have passed.  A wakeup with neither changes nothing.
poll(events, deadline) ==
  /\ Running /\ phase = "poll" /\ (events # {} \/ deadline)
  /\ \A d, e \in events : d.object = e.object => d = e
  /\ batch' = events
  /\ phase' = IF deadline THEN "clean" ELSE "run"
  /\ edge' = (edge /\ \A e \in events : e.object # server)
  /\ UNCHANGED <<handlers, tokens_to_remove, registered, backlog, next_client_id, clients,
                 client, conn, idle, current, panic>>

Poll == \E events \in SUBSET UNION {Reports(o) : o \in registered}, deadline \in BOOLEAN :
          poll(events, deadline)

\* TunnelServer::clean_up(), before the handlers of the batch.
clean_up ==
  /\ Running /\ phase = "clean" /\ phase' = "run"
  /\ \E failing \in SUBSET idle :
       LET cleaned == [c \in clients |-> clean_expired_connections(client[c].router, idle)]
       IN Becomes([close_all(World, UNION {cleaned[c].closed : c \in clients}, failing) EXCEPT
                     !.client = [c \in Clients |-> IF c \in clients
                                   THEN [client[c] EXCEPT !.router = cleaned[c].left]
                                   ELSE client[c]]])
  /\ UNCHANGED <<edge, batch>>

\* run_handlers(): the handler is the one the token stands for now.
on_ready(w, e, failing) ==
  LET o == w.handlers[e.token]
  IN CASE o = None -> {[w EXCEPT !.panic = "lookup"]}
       [] o = server -> accept_client(w)
       [] o.kind = "client" -> on_ready_client(w, o.n, e.ready, failing)
       [] OTHER -> on_ready_connection(w, o.n, failing)

run_handler(e, failing) ==
  /\ Running /\ phase = "run" /\ current = None
  /\ batch' = batch \ {e}
  /\ \E w \in on_ready(World, e, failing) : Becomes(w)
  /\ UNCHANGED <<edge, phase>>

RunHandler == \E e \in batch, failing \in SUBSET Conns : run_handler(e, failing)

-----------------------------------------------------------------------------
(***************************************************************************)
(* push_to_network(): each packet goes through Router::send_to_network().  *)
(***************************************************************************)
find_index(c, id) == {i \in DOMAIN client[c].router : conn[client[c].router[i]].id = id}

\* The connection of index i handles the packet: it stays open or closes, and
\* then the router removes it.
forward(w, c, i, closes, fails) ==
  LET k == w.client[c].router[i]
  IN IF closes THEN [close_connection(w, k, fails) EXCEPT
                       !.client[c].router = swap_remove(@, i)]
     ELSE [w EXCEPT !.idle = @ \ {k}]

\* create_connection(): a socket, a token, and a place in the router.
create_connection(w, c, id, k, t) ==
  register([w EXCEPT !.conn[k] = [NoConn EXCEPT !.state = "open", !.client = c, !.id = id,
                                                !.token = t],
                     !.client[c].router = Append(@, k)], Conn(k), t)

FreeConns == {k \in Conns : conn[k].state = "free"}

send_to_network(c, id, answers, closes, fails) ==
  LET w == IF answers THEN send_to_client(World, c) ELSE World
  IN IF find_index(c, id) # {}
     THEN \E i \in find_index(c, id) : Becomes(forward(w, c, i, closes, fails))
     ELSE \E k \in FreeConns, t \in VacantTokens :
            LET v == create_connection(w, c, id, k, t)
            IN Becomes(forward(v, c, Len(v.client[c].router), closes, fails))

\* A packet that is invalid, or whose connection cannot be created, is dropped,
\* which changes nothing.
push_one_packet_to_network(id, answers, closes, fails) ==
  /\ Running /\ current # None
  /\ send_to_network(current, id, answers, closes, fails)
  /\ UNCHANGED <<edge, phase, batch>>

Push == \E id \in Ids, answers, closes, fails \in BOOLEAN :
          push_one_packet_to_network(id, answers, closes, fails)

\* No packet is left: process() ends with update_interests().
PushEnd ==
  /\ Running /\ current # None
  /\ Becomes(update_interests([World EXCEPT !.current = None], current))
  /\ UNCHANGED <<edge, phase, batch>>

\* The handlers are gone, and with them the objects nobody else refers to.
Freed(h) == [k \in Conns |-> IF conn[k].state = "closed" /\ Conn(k) \notin Range(h)
                             THEN NoConn ELSE conn[k]]
clean_removed_tokens ==
  /\ Running /\ phase = "run" /\ batch = {} /\ current = None
  /\ handlers' = [t \in Tokens |-> IF t \in tokens_to_remove THEN None ELSE handlers[t]]
  /\ conn' = Freed(handlers')
  /\ panic' = IF \E t \in tokens_to_remove : handlers[t] = None THEN "lookup" ELSE "none"
  /\ tokens_to_remove' = {} /\ phase' = "poll"
  /\ UNCHANGED <<registered, backlog, edge, next_client_id, clients, client, idle, batch,
                 current>>

Next == \/ DeviceConnect \/ Poll \/ clean_up \/ RunHandler \/ Push \/ PushEnd
        \/ clean_removed_tokens \/ \E k \in Conns : Expire(k)

Spec == Init /\ [][Next]_vars

-----------------------------------------------------------------------------
\* An event is handled by the object it was polled for, or by none: whatever the
\* handlers before it in the batch closed or created, its token is not reused.
DispatchesToOwner == \A e \in batch : handlers[e.token] = e.object

\* What the loop looks up is there: none of "Token not found", "Removing an unknown
\* connection", "Expected client not found", "Trying to remove an unknown client"
\* and a slab key freed twice.  It says nothing of the unwrap() in Client::close(),
\* which panics when the system refuses to deregister.
LookupsSucceed == panic # "lookup"

Routed(c) == Range(client[c].router)

\* A connection is registered exactly while the router of a live client holds
\* it, once, and a router has one connection for an id.
RegisteredIsRouted ==
  /\ {o \in registered : o.kind = "connection"} = {Conn(k) : k \in UNION {Routed(c) : c \in clients}}
  /\ \A c \in Clients :
       /\ c \notin clients => client[c].router = << >>
       /\ \A k \in Routed(c) : conn[k].state = "open" /\ conn[k].client = c
       /\ \A i, j \in DOMAIN client[c].router :
            conn[client[c].router[i]].id = conn[client[c].router[j]].id => i = j

\* Between two batches the slab holds what is registered, and the connections
\* whose deregister failed: nothing that was closed is kept alive.
NothingKeptAlive ==
  phase = "poll" =>
    Range(handlers) \ {None} = registered \cup {Conn(k) : k \in {j \in Conns : conn[j].leaked}}

\* clean_up() closes the idle connections, all of them and no other.
CleansTheIdle ==
  [][phase = "clean" /\ phase' = "run" =>
       /\ \A c \in Clients : Range(client'[c].router) = Routed(c) \ idle
       /\ \A k \in Conns : conn[k].state = "open" =>
            (conn'[k].state = "closed" <=> k \in idle)]_vars

\* A client with bytes for its device is registered for writing, even when a
\* spurious read left process() early.
BytesAreWatched ==
  \A c \in clients : client[c].filled => "writable" \in client[c].interests

(***************************************************************************)
(* Fairness: the loop goes on; polling is level-triggered, so a client     *)
(* that stays registered for writing is reported writable; a socket        *)
(* reported writable again and again takes the id once.                    *)
(***************************************************************************)
PollsClient(c) ==
  \E events \in SUBSET UNION {Reports(o) : o \in registered}, deadline \in BOOLEAN :
    /\ \E e \in events : e.object = Client(c) /\ "writable" \in e.ready
    /\ poll(events, deadline)
PollsServer ==
  \E events \in SUBSET UNION {Reports(o) : o \in registered}, deadline \in BOOLEAN :
    /\ \E e \in events : e.object = server
    /\ poll(events, deadline)
WritesId(c) ==
  /\ RunHandler
  /\ client'[c].pending_id_bytes < client[c].pending_id_bytes
Accepts == RunHandler /\ next_client_id' > next_client_id

FairSpec == /\ Spec
            /\ WF_vars(RunHandler) /\ WF_vars(PushEnd) /\ WF_vars(clean_up)
            /\ WF_vars(clean_removed_tokens) /\ SF_vars(PollsServer) /\ SF_vars(Accepts)
            /\ \A c \in Clients : SF_vars(PollsClient(c)) /\ SF_vars(WritesId(c))

\* Every device that connects is sent its id, unless its client is closed or the
\* relay panics.
ConnectedIsServed ==
  \A c \in Clients : next_client_id + backlog > c
                     ~> \/ client[c].pending_id_bytes = 0 \/ client[c].state = "closed"
                        \/ panic # "none"
=============================================================================
