----------------------------- MODULE RelayProofs ----------------------------
(***************************************************************************)
(* Safety of the poll loop for every number of clients, connections and    *)
(* slots, every order of the events of a batch and every failure.          *)
(***************************************************************************)
EXTENDS Relay, Lemmas

-----------------------------------------------------------------------------
(***************************************************************************)
(* The inductive invariant, as predicates of a world.                      *)
(***************************************************************************)
Worlds == [handlers : [Tokens -> Object \cup {None}], tokens_to_remove : SUBSET Tokens,
           registered : SUBSET Object, backlog : Nat, next_client_id : Nat,
           clients : SUBSET Clients, client : [Clients -> ClientState],
           conn : [Conns -> ConnState], idle : SUBSET Conns,
           current : Clients \cup {None}, panic : Panics]

\* The slab: a token stands for one object, which knows the token, and is marked
\* for removal exactly when the object was closed and deregistered.
Slab(w) ==
  /\ \E t \in Tokens : w.handlers[t] = server
  /\ \A t \in Tokens : w.handlers[t] \in {server, None} => t \notin w.tokens_to_remove
  /\ \A t \in Tokens, c \in Clients : w.handlers[t] = Client(c) =>
       /\ w.client[c].token = t /\ w.client[c].state # "absent"
       /\ t \in w.tokens_to_remove <=> w.client[c].state = "closed"
  /\ \A t \in Tokens, k \in Conns : w.handlers[t] = Conn(k) =>
       /\ w.conn[k].token = t /\ w.conn[k].state # "free"
       /\ t \in w.tokens_to_remove <=> w.conn[k].state = "closed" /\ ~w.conn[k].leaked
  /\ \A c \in Clients : w.client[c].state = "open" =>
       w.client[c].token \in Tokens /\ w.handlers[w.client[c].token] = Client(c)
  /\ \A k \in Conns : w.conn[k].state # "free" =>
       w.conn[k].token \in Tokens /\ w.handlers[w.conn[k].token] = Conn(k)
  /\ \A k \in Conns : w.conn[k].leaked => w.conn[k].state = "closed"

\* What is registered is what is open.
Open(w) ==
  /\ \A o \in Object : o \in w.registered <=>
       \/ o = server
       \/ \E c \in Clients : o = Client(c) /\ w.client[c].state = "open"
       \/ \E k \in Conns : o = Conn(k) /\ w.conn[k].state = "open"
  /\ \A c \in Clients : c \in w.clients <=> w.client[c].state = "open"

Distinct(s) == \A i, j \in DOMAIN s : s[i] = s[j] => i = j

\* The routers of the open clients hold the open connections, each once.
Routes(w) ==
  /\ \A c \in Clients : w.client[c].state # "open" => w.client[c].router = << >>
  /\ \A c \in Clients : Distinct(w.client[c].router)
  /\ \A c \in Clients : \A k \in Range(w.client[c].router) :
       w.conn[k].state = "open" /\ w.conn[k].client = c
  /\ \A k \in Conns : w.conn[k].state = "open" =>
       w.conn[k].client \in Clients /\ k \in Range(w.client[w.conn[k].client].router)
  /\ \A c \in Clients : \A k, l \in Range(w.client[c].router) :
       w.conn[k].id = w.conn[l].id => k = l

\* Devices get their ids in turn; a client that pushes is open.
Turns(w) ==
  /\ \A n \in Nat : n < w.next_client_id + w.backlog => n \in Clients
  /\ \A c \in Clients : c >= w.next_client_id => w.client[c].state = "absent"
  /\ w.current # None => w.client[w.current].state = "open"

Watched(w) == \A c \in Clients : w.client[c].filled => "writable" \in w.client[c].interests

Sound(w) == /\ w \in Worlds /\ w.panic = "none"
            /\ Slab(w) /\ Open(w) /\ Routes(w) /\ Turns(w) /\ Watched(w)

\* A token that stands for an object keeps doing so.
Grows(w, v) == \A t \in Tokens : w.handlers[t] # None => v.handlers[t] = w.handlers[t]

\* The relay runs.
Live == /\ TypeOK /\ Sound(World) /\ DispatchesToOwner
        /\ phase # "run" => tokens_to_remove = {} /\ current = None

\* The unwrap() of close() has stopped the relay: it was sound when it closed the client.
Halted(v) == \E w \in Worlds, c \in Clients :
               Sound(w) /\ w.client[c].state = "open" /\ v = unwrap_fails(w, c)
Stopped == TypeOK /\ DispatchesToOwner /\ phase = "run" /\ Halted(World)

IInv == Live \/ Stopped

\* Objects are told apart by their kind and their number.
LEMMA Objects ==
  /\ server \in Object /\ server # None
  /\ \A c \in Clients : Client(c) \in Object /\ Client(c) # None /\ Client(c) # server
  /\ \A k \in Conns : Conn(k) \in Object /\ Conn(k) # None /\ Conn(k) # server
  /\ \A c \in Clients, k \in Conns : Client(c) # Conn(k)
  /\ \A c, d \in Clients : Client(c) = Client(d) => c = d
  /\ \A k, l \in Conns : Conn(k) = Conn(l) => k = l
  /\ server.kind = "server"
  /\ \A c \in Clients : Client(c).kind = "client" /\ Client(c).n = c
  /\ \A k \in Conns : Conn(k).kind = "connection" /\ Conn(k).n = k
  /\ \A o \in Object : o = server \/ (\E c \in Clients : o = Client(c)) \/ (\E k \in Conns : o = Conn(k))
  BY RelayAssumption DEF Object, server, Client, Conn

-----------------------------------------------------------------------------
(***************************************************************************)
(* The router's vector.                                                    *)
(***************************************************************************)
\* swap_remove() puts the last element in the place of the removed one.
LEMMA SwapRemove ==
  ASSUME NEW S, NEW s \in Seq(S), NEW i \in 1 .. Len(s)
  PROVE  LET r == swap_remove(s, i)
         IN /\ r \in Seq(S) /\ Len(r) = Len(s) - 1
            /\ \A j \in 1 .. Len(s) - 1 : r[j] = IF j = i THEN s[Len(s)] ELSE s[j]
<1> DEFINE n == Len(s)
           u == [s EXCEPT ![i] = s[n]]
           m == n - 1
           r == SubSeq(u, 1, m)
<1>1. n \in Nat /\ n >= 1 /\ m \in Nat /\ m <= n /\ DOMAIN s = 1 .. n /\ n \in 1 .. n
  OBVIOUS
<1>2. /\ \A j \in 1 .. n : u[j] = IF j = i THEN s[n] ELSE s[j]
      /\ \A j \in 1 .. n : u[j] \in S
  BY <1>1
<1> HIDE DEF u, m
<1>3. \A j \in 1 .. m : u[j] \in S
  BY <1>1, <1>2
<1>4. LET x == SubSeq(u, 1, m)
      IN /\ x \in Seq(S) /\ Len(x) = (IF 1 <= m THEN m - 1 + 1 ELSE 0)
         /\ \A j \in 1 .. m - 1 + 1 : x[j] = u[1 + j - 1]
  BY <1>1, <1>3, SubSeqProperties
<1>5. m - 1 + 1 = m /\ (1 <= m \/ m = 0) /\ \A j \in 1 .. m : 1 + j - 1 = j /\ j \in 1 .. n
  BY <1>1
<1>6. r \in Seq(S) /\ Len(r) = m /\ \A j \in 1 .. m : r[j] = u[j]
  BY <1>4, <1>5
<1>7. swap_remove(s, i) = r
  BY DEF swap_remove, u, m
<1> HIDE DEF r, n
<1>8. /\ r \in Seq(S) /\ Len(r) = m
      /\ \A j \in 1 .. m : r[j] = IF j = i THEN s[n] ELSE s[j]
  BY <1>2, <1>5, <1>6
<1> QED BY <1>7, <1>8 DEF m, n

\* Only the empty sequence has no element.
LEMMA EmptyRange ==
  ASSUME NEW S, NEW s \in Seq(S)
  PROVE  Range(s) = {} <=> s = << >>
<1>1. s = << >> => DOMAIN s = {}
  OBVIOUS
<1>2. s # << >> => 1 \in DOMAIN s
  <2>1. Len(s) \in Nat /\ DOMAIN s = 1 .. Len(s) /\ (Len(s) = 0 => s = << >>)
    OBVIOUS
  <2> QED BY <2>1
<1> QED BY <1>1, <1>2 DEF Range

\* s without the elements of ks, each of the others once.
Thinned(s, r, ks) == /\ r \in Seq(Conns) /\ Distinct(r)
                     /\ \A k \in Conns : k \in Range(r) <=> k \in Range(s) /\ k \notin ks

\* swap_remove() removes one element and keeps the others.
LEMMA SwapRemoveThins ==
  ASSUME NEW s \in Seq(Conns), Distinct(s), NEW i \in 1 .. Len(s)
  PROVE  Thinned(s, swap_remove(s, i), {s[i]})
<1> DEFINE n == Len(s)
           r == swap_remove(s, i)
           m == n - 1
<1>1. /\ r \in Seq(Conns) /\ Len(r) = m
      /\ \A j \in 1 .. m : r[j] = IF j = i THEN s[n] ELSE s[j]
  BY SwapRemove
<1>2. /\ n \in Nat /\ n >= 1 /\ DOMAIN s = 1 .. n /\ DOMAIN r = 1 .. m
      /\ \A j \in 1 .. n : s[j] \in Conns
      /\ \A j \in 1 .. m : j \in 1 .. n /\ j # n
      /\ \A j \in 1 .. n : j \in 1 .. m \/ j = n
      /\ n \in 1 .. n
  BY <1>1, SMTT(40)
<1>3. \A a, b \in 1 .. n : s[a] = s[b] => a = b
  BY <1>2 DEF Distinct
<1> HIDE DEF r, m, n
<1>4. Distinct(r)
  <2> SUFFICES ASSUME NEW a \in 1 .. m, NEW b \in 1 .. m, r[a] = r[b] PROVE a = b
    BY <1>2, SMTT(40) DEF Distinct
  <2> QED BY <1>1, <1>2, <1>3
<1>5. ASSUME NEW k \in Range(r) PROVE k \in Range(s) /\ k # s[i]
  <2>1. PICK a \in 1 .. m : r[a] = k
    BY <1>2 DEF Range
  <2>2. PICK b \in 1 .. n : b # i /\ k = s[b]
    BY <1>1, <1>2, <2>1
  <2> QED BY <1>2, <1>3, <2>2 DEF Range, n
<1>6. ASSUME NEW k \in Range(s), k # s[i] PROVE k \in Range(r)
  <2>1. PICK a \in 1 .. n : s[a] = k
    BY <1>2 DEF Range
  <2>2. a # i
    BY <1>6, <2>1
  <2>3. CASE a \in 1 .. m
    BY <1>1, <1>2, <2>1, <2>2, <2>3, SMTT(40) DEF Range
  <2>4. CASE a = n
    <3>1. i \in 1 .. m
      BY <1>2, <2>2, <2>4 DEF n
    <3>2. r[i] = k
      BY <1>1, <2>1, <2>4, <3>1
    <3> QED BY <1>2, <3>1, <3>2 DEF Range
  <2> QED BY <1>2, <2>3, <2>4
<1> QED BY <1>1, <1>4, <1>5, <1>6 DEF Thinned, r

\* The loop over the last n indices of s, last one first.
Walks(f, s, expired, n) ==
  f = [i \in 0 .. n |-> IF i = 0 THEN [left |-> s, closed |-> {}]
                        ELSE visit(f[i - 1], Len(s) - i + 1, expired)]

\* It is well defined.
LEMMA WalkExists ==
  ASSUME NEW s, NEW expired, NEW n \in Nat
  PROVE  \E f : Walks(f, s, expired, n)
<1> USE DEF Walks
<1> DEFINE W(f, m) == Walks(f, s, expired, m)
           T == {m \in Nat : \E f : W(f, m)}
<1>1. 0 \in T
  <2> DEFINE f == [i \in 0 .. 0 |-> [left |-> s, closed |-> {}]]
  <2>1. W(f, 0)
    BY \A i \in 0 .. 0 : i = 0
  <2> QED BY <2>1
<1>2. ASSUME NEW m \in Nat, m \in T PROVE m + 1 \in T
  <2>1. PICK f : W(f, m)
    BY <1>2
  <2> DEFINE g == [i \in 0 .. m + 1 |-> IF i \in 0 .. m THEN f[i]
                                        ELSE visit(f[m], Len(s) - i + 1, expired)]
  <2>2. ASSUME NEW i \in 0 .. m + 1
        PROVE  g[i] = IF i = 0 THEN [left |-> s, closed |-> {}]
                      ELSE visit(g[i - 1], Len(s) - i + 1, expired)
    <3>1. CASE i = 0
      <4>1. 0 \in 0 .. m
        OBVIOUS
      <4> QED BY <2>1, <3>1, <4>1
    <3>2. CASE i # 0
      <4>1. i - 1 \in 0 .. m /\ i - 1 \in 0 .. m + 1 /\ (i \in 0 .. m \/ i - 1 = m)
        BY <3>2
      <4>2. g[i - 1] = f[i - 1]
        BY <4>1
      <4>3. CASE i \in 0 .. m
        <5>1. g[i] = f[i]
          BY <4>3
        <5>2. f[i] = visit(f[i - 1], Len(s) - i + 1, expired)
          BY <2>1, <3>2, <4>3
        <5> QED BY <3>2, <4>2, <5>1, <5>2
      <4>4. CASE i \notin 0 .. m
        <5>1. g[i] = visit(f[m], Len(s) - i + 1, expired)
          BY <4>4
        <5> QED BY <3>2, <4>1, <4>2, <4>4, <5>1
      <4> QED BY <4>3, <4>4
    <3> QED BY <3>1, <3>2
  <2>3. W(g, m + 1)
    <3> HIDE DEF T
    <3>1. g = [i \in 0 .. m + 1 |-> g[i]]
      OBVIOUS
    <3> HIDE DEF g
    <3>2. [i \in 0 .. m + 1 |-> g[i]]
            = [i \in 0 .. m + 1 |-> IF i = 0 THEN [left |-> s, closed |-> {}]
                                    ELSE visit(g[i - 1], Len(s) - i + 1, expired)]
      BY <2>2, Zenon
    <3> QED BY <3>1, <3>2
  <2> HIDE DEF g, W, Walks
  <2> QED BY <2>3
<1> HIDE DEF T, Walks
<1>3. n \in T
  BY <1>1, <1>2, SetInduction
<1> QED BY <1>3 DEF T

\* What the loop has done after its last i indices: they are visited, and the
\* first ones are untouched.
Visited(s, expired, r, i) ==
  /\ r.left \in Seq(Conns) /\ Distinct(r.left) /\ Len(r.left) >= Len(s) - i
  /\ \A j \in 1 .. Len(s) - i : r.left[j] = s[j]
  /\ r.closed = {s[j] : j \in {h \in 1 .. Len(s) : h > Len(s) - i /\ s[h] \in expired}}
  /\ \A k \in Conns : k \in Range(r.left) <=> k \in Range(s) /\ k \notin r.closed

\* One turn of the loop.
LEMMA VisitStep ==
  ASSUME NEW s \in Seq(Conns), Distinct(s), NEW expired, NEW r, NEW i \in Nat, i < Len(s),
         Visited(s, expired, r, i)
  PROVE  Visited(s, expired, visit(r, Len(s) - (i + 1) + 1, expired), i + 1)
<1> DEFINE n == Len(s)
           m == Len(r.left)
           j == n - i
           v == visit(r, j, expired)
<1>0. n \in Nat /\ m \in Nat /\ DOMAIN s = 1 .. n /\ \A h \in 1 .. n : s[h] \in Conns
  BY DEF Visited
<1>1. n - (i + 1) + 1 = j /\ j \in 1 .. n /\ j >= 1 /\ j \in Nat /\ n - (i + 1) = j - 1
  BY <1>0
<1>2. /\ r.left \in Seq(Conns) /\ Distinct(r.left) /\ m >= j
      /\ \A h \in 1 .. j : r.left[h] = s[h]
      /\ r.closed = {s[h] : h \in {g \in 1 .. n : g > j /\ s[g] \in expired}}
      /\ \A k \in Conns : k \in Range(r.left) <=> k \in Range(s) /\ k \notin r.closed
  BY DEF Visited
<1> HIDE DEF n, m, j
<1>3. r.left[j] = s[j] /\ j \in 1 .. m
  BY <1>0, <1>1, <1>2
<1>4. \A g \in 1 .. n : g > j - 1 <=> g > j \/ g = j
  BY <1>0, <1>1
<1>5. CASE s[j] \in expired
  <2> DEFINE q == swap_remove(r.left, j)
  <2>1. v.left = q /\ v.closed = r.closed \cup {s[j]}
    BY <1>3, <1>5 DEF visit
  <2>2. /\ q \in Seq(Conns) /\ Len(q) = m - 1
        /\ \A h \in 1 .. m - 1 : q[h] = IF h = j THEN r.left[m] ELSE r.left[h]
    BY <1>2, <1>3, SwapRemove DEF m
  <2>3. Thinned(r.left, q, {s[j]})
    BY <1>2, <1>3, SwapRemoveThins DEF m
  <2> HIDE DEF q, v
  <2>4. Len(q) >= j - 1
    BY <1>0, <1>1, <1>2, <2>2
  <2>5. ASSUME NEW h \in 1 .. j - 1 PROVE q[h] = s[h]
    <3>1. h \in 1 .. m - 1 /\ h # j /\ h \in 1 .. j
      BY <1>0, <1>1, <1>2
    <3> QED BY <1>2, <2>2, <3>1
  <2>6. r.closed \cup {s[j]} = {s[h] : h \in {g \in 1 .. n : g > j - 1 /\ s[g] \in expired}}
    BY <1>1, <1>2, <1>4, <1>5
  <2>7. \A k \in Conns : k \in Range(q) <=> k \in Range(s) /\ k \notin v.closed
    BY <1>2, <2>1, <2>3 DEF Thinned
  <2>8. Distinct(q)
    BY <2>3 DEF Thinned
  <2> QED BY <1>1, <2>1, <2>2, <2>4, <2>5, <2>6, <2>7, <2>8 DEF Visited, n, v
<1>6. CASE s[j] \notin expired
  <2>1. v = r
    BY <1>3, <1>6 DEF visit
  <2>2. m >= j - 1 /\ \A h \in 1 .. j - 1 : h \in 1 .. j
    BY <1>0, <1>1, <1>2
  <2>3. {g \in 1 .. n : g > j - 1 /\ s[g] \in expired} = {g \in 1 .. n : g > j /\ s[g] \in expired}
    BY <1>4, <1>6
  <2> HIDE DEF v
  <2> QED BY <1>1, <1>2, <2>1, <2>2, <2>3 DEF Visited, n, m, v
<1> QED BY <1>5, <1>6

\* clean_expired_connections() closes and removes the expired connections of a
\* router, all of them and no other, although it removes from the vector it walks.
LEMMA CleanExpired ==
  ASSUME NEW s \in Seq(Conns), Distinct(s), NEW expired
  PROVE  LET r == clean_expired_connections(s, expired)
         IN /\ r.closed = {k \in Range(s) : k \in expired}
            /\ Thinned(s, r.left, r.closed)
<1> DEFINE n == Len(s)
           walk == CHOOSE f : Walks(f, s, expired, n)
           T == {i \in Nat : i <= n => Visited(s, expired, walk[i], i)}
<1>0. n \in Nat /\ DOMAIN s = 1 .. n /\ \A h \in 1 .. n : s[h] \in Conns
  OBVIOUS
<1>1. Walks(walk, s, expired, n)
  <2>1. \E f : Walks(f, s, expired, n)
    BY <1>0, WalkExists
  <2> QED BY <2>1, Zenon
<1>2. clean_expired_connections(s, expired) = walk[n]
  BY DEF clean_expired_connections, Walks
<1> HIDE DEF walk
<1>3. /\ walk[0] = [left |-> s, closed |-> {}]
      /\ \A i \in Nat : i < n => walk[i + 1] = visit(walk[i], n - (i + 1) + 1, expired)
  <2>1. 0 \in 0 .. n
    BY <1>0
  <2>2. ASSUME NEW i \in Nat, i < n PROVE walk[i + 1] = visit(walk[i], n - (i + 1) + 1, expired)
    <3>1. i + 1 \in 0 .. n /\ i + 1 # 0 /\ (i + 1) - 1 = i
      BY <1>0, <2>2
    <3> QED BY <1>1, <3>1 DEF Walks
  <2> QED BY <1>1, <2>1, <2>2 DEF Walks
<1>4. 0 \in T
  <2>1. /\ Len(s) >= Len(s) - 0 /\ Len(s) - 0 = Len(s)
        /\ {h \in 1 .. Len(s) : h > Len(s) - 0 /\ s[h] \in expired} = {}
    BY <1>0
  <2> QED BY <1>3, <2>1 DEF Visited
<1>5. ASSUME NEW i \in Nat, i \in T PROVE i + 1 \in T
  <2> SUFFICES ASSUME i + 1 <= n PROVE Visited(s, expired, walk[i + 1], i + 1)
    OBVIOUS
  <2>1. i < n /\ i <= n
    BY <1>0
  <2>2. Visited(s, expired, walk[i], i)
    BY <1>5, <2>1
  <2> HIDE DEF T
  <2>3. Visited(s, expired, visit(walk[i], Len(s) - (i + 1) + 1, expired), i + 1)
    BY <2>1, <2>2, VisitStep
  <2> QED BY <1>3, <2>1, <2>3
<1>6. n \in T
  <2> HIDE DEF T
  <2> QED BY <1>0, <1>4, <1>5, SetInduction
<1>7. Visited(s, expired, walk[n], n)
  BY <1>0, <1>6
<1> DEFINE r == walk[n]
<1>8. {h \in 1 .. n : h > n - n /\ s[h] \in expired} = {h \in 1 .. n : s[h] \in expired}
  BY <1>0
<1> HIDE DEF r, T
<1>9. r.closed = {s[h] : h \in {g \in 1 .. n : s[g] \in expired}}
  BY <1>7, <1>8 DEF Visited, r
<1>10. r.closed = {k \in Range(s) : k \in expired}
  BY <1>0, <1>9 DEF Range
<1>11. Thinned(s, r.left, r.closed)
  BY <1>7 DEF Visited, Thinned, r
<1> QED BY <1>2, <1>10, <1>11 DEF r

-----------------------------------------------------------------------------
(***************************************************************************)
(* Closing connections.                                                    *)
(***************************************************************************)
\* v is w with the connections ks closed, and the client objects are cl.
CloseFields(w, v, ks, failing) ==
  /\ v.handlers = w.handlers
  /\ v.tokens_to_remove = w.tokens_to_remove \cup {w.conn[k].token : k \in ks \ failing}
  /\ v.registered = w.registered \ {Conn(k) : k \in ks}
  /\ v.backlog = w.backlog /\ v.next_client_id = w.next_client_id /\ v.clients = w.clients
  /\ v.idle = w.idle \ ks /\ v.current = w.current /\ v.panic = w.panic
  /\ \A k \in Conns : /\ v.conn[k].state = IF k \in ks THEN "closed" ELSE w.conn[k].state
                      /\ v.conn[k].leaked <=> IF k \in ks THEN k \in failing ELSE w.conn[k].leaked
                      /\ v.conn[k].client = w.conn[k].client /\ v.conn[k].id = w.conn[k].id
                      /\ v.conn[k].token = w.conn[k].token

\* close_all() closes the connections it is given and no other.
LEMMA CloseAll ==
  ASSUME NEW w \in Worlds, NEW ks \in SUBSET Conns, NEW failing,
         \A k \in ks : w.conn[k].token \in Tokens
  PROVE  LET v == close_all(w, ks, failing)
         IN v \in Worlds /\ CloseFields(w, v, ks, failing) /\ v.client = w.client
<1> DEFINE cs == [k \in Conns |-> IF k \in ks
                    THEN [w.conn[k] EXCEPT !.state = "closed", !.leaked = k \in failing]
                    ELSE w.conn[k]]
           rs == w.registered \ {Conn(k) : k \in ks}
           ts == {w.conn[k].token : k \in ks \ failing}
           v == close_all(w, ks, failing)
<1>1. w.conn \in [Conns -> ConnState]
  BY DEF Worlds
<1>2. ASSUME NEW k \in Conns
      PROVE  /\ cs[k] \in ConnState
             /\ cs[k].state = IF k \in ks THEN "closed" ELSE w.conn[k].state
             /\ cs[k].leaked <=> IF k \in ks THEN k \in failing ELSE w.conn[k].leaked
             /\ cs[k].client = w.conn[k].client /\ cs[k].id = w.conn[k].id
             /\ cs[k].token = w.conn[k].token
  <2>1. w.conn[k] \in ConnState
    BY <1>1
  <2>2. CASE k \in ks
    <3>1. cs[k] = [w.conn[k] EXCEPT !.state = "closed", !.leaked = k \in failing]
      BY <2>2
    <3>2. (k \in failing) \in BOOLEAN
      OBVIOUS
    <3> QED BY <2>1, <2>2, <3>1, <3>2, Zenon DEF ConnState
  <2>3. CASE k \notin ks
    BY <2>1, <2>3
  <2> QED BY <2>2, <2>3
<1>3. cs \in [Conns -> ConnState]
  BY <1>2
<1>4. ts \subseteq Tokens /\ rs \subseteq Object /\ rs \ {Conn(k) : k \in ks \ failing} = rs
  BY DEF Worlds
<1> DEFINE u == [w EXCEPT !.idle = @ \ ks, !.registered = @ \ {Conn(k) : k \in ks},
                          !.conn = cs]
<1>5. v = deregister(u, {Conn(k) : k \in ks \ failing}, ts)
  BY DEF close_all
<1> HIDE DEF cs, ts, v
<1>6. /\ u \in Worlds /\ u.handlers = w.handlers /\ u.tokens_to_remove = w.tokens_to_remove
      /\ u.registered = rs /\ u.backlog = w.backlog /\ u.next_client_id = w.next_client_id
      /\ u.clients = w.clients /\ u.idle = w.idle \ ks /\ u.current = w.current
      /\ u.panic = w.panic /\ u.conn = cs /\ u.client = w.client
  BY <1>3, <1>4 DEF Worlds
<1> HIDE DEF u, rs
<1>7. /\ v \in Worlds /\ v.handlers = w.handlers
      /\ v.tokens_to_remove = w.tokens_to_remove \cup ts
      /\ v.registered = rs /\ v.backlog = w.backlog /\ v.next_client_id = w.next_client_id
      /\ v.clients = w.clients /\ v.idle = w.idle \ ks /\ v.current = w.current
      /\ v.panic = w.panic /\ v.conn = cs /\ v.client = w.client
  BY <1>4, <1>5, <1>6 DEF Worlds, deregister
<1>8. CloseFields(w, v, ks, failing)
  BY <1>2, <1>7 DEF CloseFields, rs, ts
<1> QED BY <1>7, <1>8 DEF v

\* A client object that may only have lost connections.
SameClient(a, b) == /\ b.state = a.state /\ b.token = a.token /\ b.filled = a.filled
                    /\ b.interests = a.interests

\* v is w with the connections ks closed and taken out of the routers.
Dropped(w, v, ks, failing) ==
  /\ v \in Worlds /\ CloseFields(w, v, ks, failing)
  /\ \A c \in Clients : /\ SameClient(w.client[c], v.client[c])
                        /\ Thinned(w.client[c].router, v.client[c].router, ks)

\* Closing open connections and taking them out of their routers is sound, and takes
\* no token away.
LEMMA DroppedSound ==
  ASSUME NEW w, Sound(w), NEW v, NEW ks \in SUBSET Conns, NEW failing,
         \A k \in ks : w.conn[k].state = "open", Dropped(w, v, ks, failing)
  PROVE  Sound(v) /\ Grows(w, v)
<1> DEFINE ts == {w.conn[k].token : k \in ks \ failing}
<1>1. /\ v.handlers = w.handlers
      /\ v.tokens_to_remove = w.tokens_to_remove \cup ts
      /\ v.registered = w.registered \ {Conn(k) : k \in ks}
      /\ v.backlog = w.backlog /\ v.next_client_id = w.next_client_id /\ v.clients = w.clients
      /\ v.idle = w.idle \ ks /\ v.current = w.current /\ v.panic = w.panic
  BY DEF Dropped, CloseFields
<1>2. \A k \in Conns : /\ v.conn[k].state = IF k \in ks THEN "closed" ELSE w.conn[k].state
                       /\ v.conn[k].leaked <=> IF k \in ks THEN k \in failing ELSE w.conn[k].leaked
                       /\ v.conn[k].client = w.conn[k].client /\ v.conn[k].id = w.conn[k].id
                       /\ v.conn[k].token = w.conn[k].token
  BY DEF Dropped, CloseFields
<1>3. \A c \in Clients : /\ v.client[c].state = w.client[c].state
                         /\ v.client[c].token = w.client[c].token
                         /\ v.client[c].filled = w.client[c].filled
                         /\ v.client[c].interests = w.client[c].interests
  BY DEF Dropped, SameClient
<1>4. \A c \in Clients : Thinned(w.client[c].router, v.client[c].router, ks)
  BY DEF Dropped
<1>5. w \in Worlds /\ v \in Worlds
  BY DEF Sound, Dropped
<1>6. Slab(w) /\ Open(w) /\ Routes(w) /\ Turns(w) /\ Watched(w) /\ w.panic = "none"
  BY DEF Sound
<1>7. \A t \in Tokens : t \in ts <=> \E k \in ks \ failing : w.handlers[t] = Conn(k)
  <2>1. \A k \in ks : w.conn[k].token \in Tokens /\ w.handlers[w.conn[k].token] = Conn(k)
    BY <1>6 DEF Slab
  <2>2. ASSUME NEW t \in Tokens, NEW k \in ks, w.handlers[t] = Conn(k) PROVE w.conn[k].token = t
    BY <1>6, <2>2 DEF Slab
  <2> QED BY <2>1, <2>2
<1> HIDE DEF ts
<1>8. Slab(v)
  <2>1. \E t \in Tokens : v.handlers[t] = server
    BY <1>1, <1>6 DEF Slab
  <2>2. ASSUME NEW t \in Tokens, v.handlers[t] \in {server, None} PROVE t \notin v.tokens_to_remove
    BY <1>1, <1>6, <1>7, <2>2, Objects DEF Slab
  <2>3. ASSUME NEW t \in Tokens, NEW c \in Clients, v.handlers[t] = Client(c)
        PROVE  /\ v.client[c].token = t /\ v.client[c].state # "absent"
               /\ t \in v.tokens_to_remove <=> v.client[c].state = "closed"
    <3>1. t \notin ts
      BY <1>1, <1>7, <2>3, Objects
    <3> QED BY <1>1, <1>3, <1>6, <2>3, <3>1 DEF Slab
  <2>4. ASSUME NEW t \in Tokens, NEW k \in Conns, v.handlers[t] = Conn(k)
        PROVE  /\ v.conn[k].token = t /\ v.conn[k].state # "free"
               /\ t \in v.tokens_to_remove <=> v.conn[k].state = "closed" /\ ~v.conn[k].leaked
    <3>1. /\ w.handlers[t] = Conn(k) /\ w.conn[k].token = t /\ w.conn[k].state # "free"
          /\ t \in w.tokens_to_remove <=> w.conn[k].state = "closed" /\ ~w.conn[k].leaked
      BY <1>1, <1>6, <2>4 DEF Slab
    <3>2. t \in ts <=> k \in ks \ failing
      BY <1>7, <3>1, Objects
    <3> QED BY <1>1, <1>2, <3>1, <3>2
  <2>5. \A c \in Clients : v.client[c].state = "open" =>
          v.client[c].token \in Tokens /\ v.handlers[v.client[c].token] = Client(c)
    BY <1>1, <1>3, <1>6 DEF Slab
  <2>6. \A k \in Conns : v.conn[k].state # "free" =>
          v.conn[k].token \in Tokens /\ v.handlers[v.conn[k].token] = Conn(k)
    BY <1>1, <1>2, <1>6 DEF Slab
  <2>7. \A k \in Conns : v.conn[k].leaked => v.conn[k].state = "closed"
    BY <1>2, <1>6 DEF Slab
  <2> QED BY <2>1, <2>2, <2>3, <2>4, <2>5, <2>6, <2>7 DEF Slab
<1>9. Open(v)
  <2>1. \A c \in Clients : c \in v.clients <=> v.client[c].state = "open"
    BY <1>1, <1>3, <1>6 DEF Open
  <2>2. ASSUME NEW o \in Object
        PROVE  o \in v.registered <=>
                 \/ o = server
                 \/ \E c \in Clients : o = Client(c) /\ v.client[c].state = "open"
                 \/ \E k \in Conns : o = Conn(k) /\ v.conn[k].state = "open"
    <3>1. o \in v.registered <=> o \in w.registered /\ ~\E k \in ks : o = Conn(k)
      BY <1>1
    <3>2. o \in w.registered <=>
                 \/ o = server
                 \/ \E c \in Clients : o = Client(c) /\ w.client[c].state = "open"
                 \/ \E k \in Conns : o = Conn(k) /\ w.conn[k].state = "open"
      BY <1>6 DEF Open
    <3> QED BY <1>2, <1>3, <3>1, <3>2, Objects
  <2> QED BY <2>1, <2>2 DEF Open
<1>10. Routes(v)
  <2>1. \A c \in Clients : w.client[c].router \in Seq(Conns) /\ v.client[c].router \in Seq(Conns)
    BY <1>5 DEF Worlds, ClientState
  <2>2. \A c \in Clients, k \in Conns :
          k \in Range(v.client[c].router) <=> k \in Range(w.client[c].router) /\ k \notin ks
    BY <1>4 DEF Thinned
  <2>3. \A c \in Clients : \A k \in Range(v.client[c].router) : k \in Conns
    BY <2>1 DEF Range
  <2>4. ASSUME NEW c \in Clients, v.client[c].state # "open" PROVE v.client[c].router = << >>
    <3>1. w.client[c].router = << >>
      BY <1>3, <1>6, <2>4 DEF Routes
    <3>2. Range(v.client[c].router) = {}
      BY <2>1, <2>2, <2>3, <3>1, EmptyRange
    <3> QED BY <2>1, <3>2, EmptyRange
  <2>5. \A c \in Clients : Distinct(v.client[c].router)
    BY <1>4 DEF Thinned
  <2>6. ASSUME NEW c \in Clients, NEW k \in Range(v.client[c].router)
        PROVE  v.conn[k].state = "open" /\ v.conn[k].client = c
    BY <1>2, <1>6, <2>2, <2>3 DEF Routes
  <2>7. ASSUME NEW k \in Conns, v.conn[k].state = "open"
        PROVE  v.conn[k].client \in Clients /\ k \in Range(v.client[v.conn[k].client].router)
    <3>1. k \notin ks /\ w.conn[k].state = "open"
      BY <1>2, <2>7
    <3> QED BY <1>2, <1>6, <2>2, <3>1 DEF Routes
  <2>8. ASSUME NEW c \in Clients, NEW k \in Range(v.client[c].router),
               NEW l \in Range(v.client[c].router), v.conn[k].id = v.conn[l].id
        PROVE  k = l
    BY <1>2, <1>6, <2>2, <2>3, <2>8 DEF Routes
  <2> QED BY <2>4, <2>5, <2>6, <2>7, <2>8 DEF Routes
<1>11. Turns(v) /\ Watched(v) /\ v.panic = "none"
  <2>1. v.current \in Clients \cup {None}
    BY <1>5 DEF Worlds
  <2> QED BY <1>1, <1>3, <1>6, <2>1 DEF Turns, Watched
<1> QED BY <1>1, <1>5, <1>8, <1>9, <1>10, <1>11 DEF Sound, Grows

-----------------------------------------------------------------------------
(***************************************************************************)
(* What a handler does to bytes, interests, timers and the client that is  *)
(* pushing: objects, tokens and routes stay as they are.                   *)
(***************************************************************************)
SameObjects(w, v) ==
  /\ v.handlers = w.handlers /\ v.tokens_to_remove = w.tokens_to_remove
  /\ v.registered = w.registered /\ v.backlog = w.backlog
  /\ v.next_client_id = w.next_client_id /\ v.clients = w.clients
  /\ v.conn = w.conn /\ v.panic = w.panic
  /\ \A c \in Clients : /\ v.client[c].state = w.client[c].state
                        /\ v.client[c].token = w.client[c].token
                        /\ v.client[c].router = w.client[c].router

\* Such a step is sound if the bytes stay watched and only an open client pushes.
LEMMA TouchedSound ==
  ASSUME NEW w, Sound(w), NEW v \in Worlds, SameObjects(w, v), Watched(v),
         v.current # None => v.client[v.current].state = "open"
  PROVE  Sound(v) /\ Grows(w, v)
<1>1. Slab(w) /\ Open(w) /\ Routes(w) /\ Turns(w) /\ w.panic = "none"
  BY DEF Sound
<1>2. Slab(v)
  BY <1>1 DEF Slab, SameObjects
<1>3. Open(v)
  BY <1>1 DEF Open, SameObjects
<1>4. Routes(v)
  BY <1>1 DEF Routes, SameObjects
<1>5. Turns(v) /\ v.panic = "none" /\ Grows(w, v)
  BY <1>1 DEF Turns, SameObjects, Grows
<1> QED BY <1>2, <1>3, <1>4, <1>5 DEF Sound

\* An open connection or client is touched: its idle timer, or who is pushing.
LEMMA SetIdle ==
  ASSUME NEW w, Sound(w), NEW ks
  PROVE  LET v == [w EXCEPT !.idle = @ \ ks]
         IN /\ Sound(v) /\ Grows(w, v) /\ v.conn = w.conn /\ v.client = w.client
            /\ v.handlers = w.handlers /\ v.clients = w.clients
<1> DEFINE v == [w EXCEPT !.idle = @ \ ks]
<1>1. w \in Worlds /\ Watched(w) /\ Turns(w)
  BY DEF Sound
<1>2. /\ v \in Worlds /\ SameObjects(w, v) /\ v.client = w.client /\ v.current = w.current
      /\ v.conn = w.conn /\ v.handlers = w.handlers /\ v.clients = w.clients
  BY <1>1 DEF Worlds, SameObjects
<1> HIDE DEF v
<1>3. Watched(v) /\ (v.current # None => v.client[v.current].state = "open")
  BY <1>1, <1>2 DEF Watched, Turns
<1>4. Sound(v) /\ Grows(w, v)
  BY <1>2, <1>3, TouchedSound
<1> QED BY <1>2, <1>4 DEF v

\* A client starts or ends pushing the packets it read.
LEMMA SetCurrent ==
  ASSUME NEW w, Sound(w), NEW c \in Clients \cup {None}, c # None => w.client[c].state = "open"
  PROVE  LET v == [w EXCEPT !.current = c]
         IN /\ Sound(v) /\ Grows(w, v) /\ v.client = w.client /\ v.clients = w.clients
            /\ v.handlers = w.handlers
<1> DEFINE v == [w EXCEPT !.current = c]
<1>1. w \in Worlds /\ Watched(w)
  BY DEF Sound
<1>2. /\ v \in Worlds /\ SameObjects(w, v) /\ v.client = w.client /\ v.current = c
      /\ v.handlers = w.handlers /\ v.clients = w.clients
  BY <1>1 DEF Worlds, SameObjects
<1> HIDE DEF v
<1>3. Watched(v) /\ (v.current # None => v.client[v.current].state = "open")
  BY <1>1, <1>2 DEF Watched
<1>4. Sound(v) /\ Grows(w, v)
  BY <1>2, <1>3, TouchedSound
<1> QED BY <1>2, <1>4 DEF v

\* The object of client c is replaced by a, which has the same state, token and router.
LEMMA SetClient ==
  ASSUME NEW w, Sound(w), NEW c \in Clients, NEW a \in ClientState,
         a.state = w.client[c].state, a.token = w.client[c].token,
         a.router = w.client[c].router, a.filled => "writable" \in a.interests
  PROVE  LET v == [w EXCEPT !.client[c] = a]
         IN /\ Sound(v) /\ Grows(w, v) /\ SameObjects(w, v) /\ v.idle = w.idle
            /\ v.current = w.current
<1> DEFINE v == [w EXCEPT !.client[c] = a]
<1>1. w \in Worlds /\ Watched(w) /\ Turns(w) /\ w.client \in [Clients -> ClientState]
  BY DEF Sound, Worlds
<1> DEFINE cl == [w.client EXCEPT ![c] = a]
<1>2. v = [w EXCEPT !.client = cl]
  BY <1>1 DEF Worlds
<1>3. /\ cl \in [Clients -> ClientState]
      /\ \A d \in Clients : cl[d] = IF d = c THEN a ELSE w.client[d]
  BY <1>1
<1> HIDE DEF cl, v
<1>4. /\ v \in Worlds /\ v.client = cl /\ v.current = w.current /\ v.conn = w.conn
      /\ v.handlers = w.handlers /\ v.tokens_to_remove = w.tokens_to_remove
      /\ v.registered = w.registered /\ v.backlog = w.backlog /\ v.idle = w.idle
      /\ v.next_client_id = w.next_client_id /\ v.clients = w.clients /\ v.panic = w.panic
  BY <1>1, <1>2, <1>3 DEF Worlds
<1>5. SameObjects(w, v)
  BY <1>3, <1>4 DEF SameObjects
<1>6. Watched(v)
  BY <1>1, <1>3, <1>4 DEF Watched
<1>7. v.current # None => v.client[v.current].state = "open"
  <2>1. w.current \in Clients \cup {None}
    BY <1>1 DEF Worlds
  <2> QED BY <1>1, <1>3, <1>4, <2>1 DEF Turns
<1>8. Sound(v) /\ Grows(w, v)
  BY <1>4, <1>5, <1>6, <1>7, TouchedSound
<1> QED BY <1>4, <1>5, <1>8 DEF v

\* v is a sound world with the objects of w.
Keeps(w, v) == /\ Sound(v) /\ Grows(w, v) /\ SameObjects(w, v) /\ v.idle = w.idle
               /\ v.current = w.current

\* update_interests() watches the bytes of the client and changes nothing else.
LEMMA UpdateInterests ==
  ASSUME NEW w, Sound(w), NEW c \in Clients
  PROVE  Keeps(w, update_interests(w, c))
<1> DEFINE i == IF w.client[c].filled THEN {"readable", "writable"} ELSE {"readable"}
           a == [w.client[c] EXCEPT !.interests = i]
<1>1. w.client[c] \in ClientState /\ w \in Worlds
  BY DEF Sound, Worlds
<1>2. i \subseteq Interest /\ (w.client[c].filled => "writable" \in i)
  BY DEF Interest
<1>3. update_interests(w, c) = [w EXCEPT !.client[c] = a]
  BY DEF update_interests
<1> HIDE DEF i
<1>4. /\ a \in ClientState /\ a.state = w.client[c].state /\ a.token = w.client[c].token
      /\ a.router = w.client[c].router /\ a.interests = i /\ a.filled = w.client[c].filled
  BY <1>1, <1>2 DEF ClientState
<1> HIDE DEF a
<1> QED BY <1>2, <1>3, <1>4, SetClient DEF Keeps

\* send_to_client() gives the client bytes and asks for writing.
LEMMA SendToClient ==
  ASSUME NEW w, Sound(w), NEW c \in Clients
  PROVE  Keeps(w, send_to_client(w, c))
<1> DEFINE b == [w.client[c] EXCEPT !.filled = TRUE]
           i == {"readable", "writable"}
           a == [w.client[c] EXCEPT !.filled = TRUE, !.interests = i]
           u == [w EXCEPT !.client[c].filled = TRUE]
           j == IF u.client[c].filled THEN i ELSE {"readable"}
<1>1. w.client[c] \in ClientState /\ w \in Worlds /\ w.client \in [Clients -> ClientState]
  BY DEF Sound, Worlds
<1>2. send_to_client(w, c) = [u EXCEPT !.client[c].interests = j]
  BY DEF send_to_client, update_interests
<1>3. /\ b \in ClientState /\ b.filled /\ [b EXCEPT !.interests = i] = a
      /\ a \in ClientState /\ a.state = w.client[c].state /\ a.token = w.client[c].token
      /\ a.router = w.client[c].router /\ a.interests = i
  BY <1>1 DEF ClientState, Interest
<1>4. u = [w EXCEPT !.client[c] = b]
  OBVIOUS
<1> HIDE DEF a, b, u
<1>5. u \in Worlds /\ u.client = [w.client EXCEPT ![c] = b]
  BY <1>1, <1>3, <1>4 DEF Worlds
<1>6. u.client[c] = b
  BY <1>1, <1>5
<1>7. j = i
  BY <1>3, <1>6
<1> HIDE DEF i, j
<1>8. [u EXCEPT !.client[c].interests = i] = [w EXCEPT !.client[c] = a]
  <2>1. [u EXCEPT !.client[c].interests = i] = [u EXCEPT !.client[c] = a]
    BY <1>3, <1>5, <1>6
  <2>2. [u.client EXCEPT ![c] = a] = [w.client EXCEPT ![c] = a]
    BY <1>1, <1>5
  <2>3. [u EXCEPT !.client = [u.client EXCEPT ![c] = a]]
          = [w EXCEPT !.client = [w.client EXCEPT ![c] = a]]
    BY <1>1, <1>4, <1>5, <2>2 DEF Worlds
  <2> QED BY <2>1, <2>3
<1>9. a.filled => "writable" \in a.interests
  BY <1>3 DEF i
<1>10. send_to_client(w, c) = [w EXCEPT !.client[c] = a]
  BY <1>2, <1>7, <1>8
<1>11. /\ a \in ClientState /\ a.state = w.client[c].state /\ a.token = w.client[c].token
       /\ a.router = w.client[c].router
  BY <1>3
<1> QED BY <1>9, <1>10, <1>11, SetClient DEF Keeps

\* send_id() and the write of process_send() only take bytes away.
LEMMA ProcessSend ==
  ASSUME NEW w, Sound(w), NEW c \in Clients, NEW v \in process_send(w, c)
  PROVE  Keeps(w, v)
<1>1. w.client[c] \in ClientState /\ Watched(w) /\ w \in Worlds
  BY DEF Sound, Worlds
<1>2. CASE w.client[c].pending_id_bytes > 0
  <2> DEFINE p == w.client[c].pending_id_bytes
  <2>0. p \in 0 .. ID_LENGTH /\ ID_LENGTH \in Nat /\ p \in Nat
    BY <1>1, RelayAssumption DEF ClientState
  <2>1. PICK n \in 1 .. p : v = [w EXCEPT !.client[c].pending_id_bytes = @ - n]
    <3>1. v \in send_id(w, c)
      BY <1>2 DEF process_send
    <3>2. PICK n \in (IF PartialId THEN 1 .. p ELSE {p}) :
            v = [w EXCEPT !.client[c].pending_id_bytes = @ - n]
      BY <3>1 DEF send_id
    <3>3. n \in 1 .. p
      BY <1>2, <2>0, <3>2
    <3> QED BY <3>2, <3>3
  <2> DEFINE q == p - n
             a == [w.client[c] EXCEPT !.pending_id_bytes = q]
  <2>2. q \in 0 .. ID_LENGTH
    BY <2>0
  <2>3. v = [w EXCEPT !.client[c] = a]
    BY <2>1
  <2> HIDE DEF q
  <2>4. /\ a \in ClientState /\ a.state = w.client[c].state /\ a.token = w.client[c].token
        /\ a.router = w.client[c].router /\ a.filled = w.client[c].filled
        /\ a.interests = w.client[c].interests
    BY <1>1, <2>2 DEF ClientState
  <2> HIDE DEF a
  <2>5. a.filled => "writable" \in a.interests
    BY <1>1, <2>4 DEF Watched
  <2> QED BY <2>3, <2>4, <2>5, SetClient DEF Keeps
<1>3. CASE ~(w.client[c].pending_id_bytes > 0)
  <2>1. PICK b \in BOOLEAN : /\ b => w.client[c].filled
                             /\ v = [w EXCEPT !.client[c].filled = b]
    <3>1. PICK b \in (IF w.client[c].filled THEN BOOLEAN ELSE {FALSE}) :
            v = [w EXCEPT !.client[c].filled = b]
      BY <1>3 DEF process_send
    <3>2. b \in BOOLEAN /\ (b => w.client[c].filled)
      BY <3>1
    <3> QED BY <3>1, <3>2
  <2> DEFINE a == [w.client[c] EXCEPT !.filled = b]
  <2>2. v = [w EXCEPT !.client[c] = a]
    BY <2>1
  <2>3. /\ a \in ClientState /\ a.state = w.client[c].state /\ a.token = w.client[c].token
        /\ a.router = w.client[c].router /\ a.interests = w.client[c].interests
    BY <1>1, <2>1 DEF ClientState
  <2>4. a.filled = b
    BY <1>1, Zenon DEF ClientState
  <2> HIDE DEF a
  <2>5. a.filled => "writable" \in a.interests
    BY <1>1, <2>1, <2>3, <2>4 DEF Watched
  <2> QED BY <2>2, <2>3, <2>5, SetClient DEF Keeps
<1> QED BY <1>2, <1>3

-----------------------------------------------------------------------------
(***************************************************************************)
(* Closing a client.                                                       *)
(***************************************************************************)
\* clear() closes the connections of the router and empties it.
LEMMA Clear ==
  ASSUME NEW w \in Worlds, NEW c \in Clients, NEW failing,
         \A k \in Range(w.client[c].router) : w.conn[k].token \in Tokens
  PROVE  LET v == clear(w, c, failing)
         IN /\ v \in Worlds /\ CloseFields(w, v, Range(w.client[c].router), failing)
            /\ v.client = [w.client EXCEPT ![c] = [w.client[c] EXCEPT !.router = << >>]]
<1> DEFINE ks == Range(w.client[c].router)
           u == close_all(w, ks, failing)
           a == [w.client[c] EXCEPT !.router = << >>]
           cl == [w.client EXCEPT ![c] = a]
           v == clear(w, c, failing)
<1>1. w.client[c] \in ClientState /\ w.client \in [Clients -> ClientState]
  BY DEF Worlds
<1>2. ks \in SUBSET Conns
  BY <1>1 DEF ClientState, Range
<1>3. u \in Worlds /\ CloseFields(w, u, ks, failing) /\ u.client = w.client
  BY <1>2, CloseAll
<1>4. v = [u EXCEPT !.client[c].router = << >>]
  BY DEF clear
<1>5. a \in ClientState
  <2>1. << >> \in Seq(Conns)
    OBVIOUS
  <2> QED BY <1>1, <2>1 DEF ClientState
<1> HIDE DEF u, a, v, ks
<1>6. cl \in [Clients -> ClientState]
  BY <1>1, <1>5
<1>7. v = [u EXCEPT !.client = cl]
  <2>1. [u.client EXCEPT ![c] = [u.client[c] EXCEPT !.router = << >>]] = cl
    BY <1>3, Zenon DEF a
  <2> QED BY <1>4, <2>1
<1> HIDE DEF cl
<1>8. /\ v \in Worlds /\ v.client = cl /\ v.current = u.current /\ v.conn = u.conn
      /\ v.handlers = u.handlers /\ v.tokens_to_remove = u.tokens_to_remove
      /\ v.registered = u.registered /\ v.backlog = u.backlog /\ v.idle = u.idle
      /\ v.next_client_id = u.next_client_id /\ v.clients = u.clients /\ v.panic = u.panic
  BY <1>3, <1>6, <1>7 DEF Worlds
<1>9. CloseFields(w, v, ks, failing)
  BY <1>3, <1>8 DEF CloseFields
<1> QED BY <1>8, <1>9 DEF cl, a, v, ks

\* The connections of a router are open and have a token.
LEMMA RoutedOpen ==
  ASSUME NEW w, Sound(w), NEW c \in Clients
  PROVE  /\ w.client[c].router \in Seq(Conns) /\ Distinct(w.client[c].router)
         /\ Range(w.client[c].router) \in SUBSET Conns
         /\ \A k \in Range(w.client[c].router) :
              w.conn[k].state = "open" /\ w.conn[k].client = c /\ w.conn[k].token \in Tokens
<1>1. w.client[c] \in ClientState /\ Slab(w) /\ Routes(w)
  BY DEF Sound, Worlds
<1>2. w.client[c].router \in Seq(Conns)
  BY <1>1 DEF ClientState
<1>3. Range(w.client[c].router) \in SUBSET Conns
  BY <1>2 DEF Range
<1> QED BY <1>1, <1>2, <1>3 DEF Slab, Routes

\* A router that loses nothing is thinned of nothing.
LEMMA ThinnedSame ==
  ASSUME NEW s \in Seq(Conns), Distinct(s), NEW ks, \A k \in Range(s) : k \notin ks
  PROVE  Thinned(s, s, ks)
  BY DEF Thinned

\* clear() is sound.
LEMMA ClearSound ==
  ASSUME NEW w, Sound(w), NEW c \in Clients, NEW failing
  PROVE  Sound(clear(w, c, failing)) /\ Grows(w, clear(w, c, failing))
<1> DEFINE ks == Range(w.client[c].router)
           v == clear(w, c, failing)
           a == [w.client[c] EXCEPT !.router = << >>]
<1>0. w \in Worlds /\ w.client \in [Clients -> ClientState] /\ w.client[c] \in ClientState
  BY DEF Sound, Worlds
<1>1. /\ v \in Worlds /\ CloseFields(w, v, ks, failing)
      /\ v.client = [w.client EXCEPT ![c] = a]
  BY <1>0, RoutedOpen, Clear
<1>2. ks \in SUBSET Conns /\ \A k \in ks : w.conn[k].state = "open"
  BY RoutedOpen
<1>3. SameClient(w.client[c], a) /\ a.router = << >>
  BY <1>0 DEF ClientState, SameClient
<1> HIDE DEF a, v
<1>4. ASSUME NEW d \in Clients
      PROVE  /\ SameClient(w.client[d], v.client[d])
             /\ Thinned(w.client[d].router, v.client[d].router, ks)
  <2>1. CASE d = c
    <3>1. v.client[d] = a
      BY <1>0, <1>1, <2>1
    <3>2. << >> \in Seq(Conns) /\ DOMAIN << >> = {}
      OBVIOUS
    <3>3. Range(<< >>) = {}
      BY <3>2, EmptyRange
    <3>4. Thinned(w.client[c].router, << >>, ks)
      BY <3>2, <3>3 DEF Thinned, Distinct
    <3> QED BY <1>3, <2>1, <3>1, <3>4
  <2>2. CASE d # c
    <3>1. v.client[d] = w.client[d]
      BY <1>0, <1>1, <2>2
    <3>2. Thinned(w.client[d].router, w.client[d].router, ks)
      <4>0. \A e \in Clients : \A k \in Range(w.client[e].router) : w.conn[k].client = e
        BY DEF Sound, Routes
      <4>1. ASSUME NEW k \in Range(w.client[d].router) PROVE k \notin ks
        BY <2>2, <4>0
      <4> HIDE DEF ks
      <4> QED BY <4>1, RoutedOpen, ThinnedSame
    <3> QED BY <3>1, <3>2 DEF SameClient
  <2> QED BY <2>1, <2>2
<1>5. Dropped(w, v, ks, failing)
  BY <1>1, <1>4 DEF Dropped
<1> HIDE DEF ks
<1>6. Sound(v) /\ Grows(w, v)
  BY <1>2, <1>5, DroppedSound
<1> QED BY <1>6 DEF v

\* r is w with client c, which has no connection, closed and forgotten.
Shut(w, r, c) ==
  /\ r \in Worlds /\ r.handlers = w.handlers
  /\ r.tokens_to_remove = w.tokens_to_remove \cup {w.client[c].token}
  /\ r.registered = w.registered \ {Client(c)} /\ r.clients = w.clients \ {c}
  /\ r.backlog = w.backlog /\ r.next_client_id = w.next_client_id
  /\ r.current = w.current /\ r.panic = w.panic
  /\ \A k \in Conns : /\ r.conn[k].state = w.conn[k].state
                      /\ r.conn[k].leaked <=> w.conn[k].leaked
                      /\ r.conn[k].client = w.conn[k].client /\ r.conn[k].id = w.conn[k].id
                      /\ r.conn[k].token = w.conn[k].token
  /\ \A d \in Clients : /\ r.client[d].state = IF d = c THEN "closed" ELSE w.client[d].state
                        /\ r.client[d].token = w.client[d].token
                        /\ r.client[d].router = w.client[d].router
                        /\ r.client[d].filled = w.client[d].filled
                        /\ r.client[d].interests = w.client[d].interests

\* Closing a client and its connections is sound and takes no token away.
LEMMA ShutSound ==
  ASSUME NEW w, Sound(w), NEW r, NEW c \in Clients, w.client[c].state = "open",
         w.client[c].router = << >>, w.current = None, Shut(w, r, c)
  PROVE  Sound(r) /\ Grows(w, r)
<1> DEFINE t0 == w.client[c].token
<1>1. Slab(w) /\ Open(w) /\ Routes(w) /\ Turns(w) /\ Watched(w) /\ w.panic = "none" /\ w \in Worlds
  BY DEF Sound
<1>2. t0 \in Tokens /\ w.handlers[t0] = Client(c)
  BY <1>1 DEF Slab
<1>3. \A k \in Conns : /\ r.conn[k].state = w.conn[k].state
                       /\ r.conn[k].leaked <=> w.conn[k].leaked
                       /\ r.conn[k].client = w.conn[k].client /\ r.conn[k].id = w.conn[k].id
                       /\ r.conn[k].token = w.conn[k].token
  BY DEF Shut
<1>4. \A d \in Clients : /\ r.client[d].state = IF d = c THEN "closed" ELSE w.client[d].state
                         /\ r.client[d].token = w.client[d].token
                         /\ r.client[d].router = w.client[d].router
                         /\ r.client[d].filled = w.client[d].filled
                         /\ r.client[d].interests = w.client[d].interests
  BY DEF Shut
<1>5. /\ r \in Worlds /\ r.handlers = w.handlers
      /\ r.tokens_to_remove = w.tokens_to_remove \cup {t0}
      /\ r.registered = w.registered \ {Client(c)} /\ r.clients = w.clients \ {c}
      /\ r.backlog = w.backlog /\ r.next_client_id = w.next_client_id
      /\ r.current = w.current /\ r.panic = w.panic
  BY DEF Shut
<1> HIDE DEF t0
<1>6. Slab(r)
  <2>1. \E t \in Tokens : r.handlers[t] = server
    BY <1>1, <1>5 DEF Slab
  <2>2. ASSUME NEW t \in Tokens, r.handlers[t] \in {server, None} PROVE t \notin r.tokens_to_remove
    BY <1>1, <1>2, <1>5, <2>2, Objects DEF Slab
  <2>3. ASSUME NEW t \in Tokens, NEW d \in Clients, r.handlers[t] = Client(d)
        PROVE  /\ r.client[d].token = t /\ r.client[d].state # "absent"
               /\ t \in r.tokens_to_remove <=> r.client[d].state = "closed"
    <3>1. /\ w.client[d].token = t /\ w.client[d].state # "absent"
          /\ t \in w.tokens_to_remove <=> w.client[d].state = "closed"
      BY <1>1, <1>5, <2>3 DEF Slab
    <3>2. t = t0 <=> d = c
      BY <1>2, <1>5, <2>3, <3>1, Objects DEF t0
    <3> QED BY <1>4, <1>5, <3>1, <3>2
  <2>4. ASSUME NEW t \in Tokens, NEW k \in Conns, r.handlers[t] = Conn(k)
        PROVE  /\ r.conn[k].token = t /\ r.conn[k].state # "free"
               /\ t \in r.tokens_to_remove <=> r.conn[k].state = "closed" /\ ~r.conn[k].leaked
    <3>1. /\ w.conn[k].token = t /\ w.conn[k].state # "free"
          /\ t \in w.tokens_to_remove <=> w.conn[k].state = "closed" /\ ~w.conn[k].leaked
      BY <1>1, <1>5, <2>4 DEF Slab
    <3>2. t # t0
      BY <1>2, <1>5, <2>4, Objects
    <3> QED BY <1>3, <1>5, <3>1, <3>2
  <2>5. \A d \in Clients : r.client[d].state = "open" =>
          r.client[d].token \in Tokens /\ r.handlers[r.client[d].token] = Client(d)
    BY <1>1, <1>4, <1>5 DEF Slab
  <2>6. \A k \in Conns : r.conn[k].state # "free" =>
          r.conn[k].token \in Tokens /\ r.handlers[r.conn[k].token] = Conn(k)
    BY <1>1, <1>3, <1>5 DEF Slab
  <2>7. \A k \in Conns : r.conn[k].leaked => r.conn[k].state = "closed"
    BY <1>1, <1>3 DEF Slab
  <2> QED BY <2>1, <2>2, <2>3, <2>4, <2>5, <2>6, <2>7 DEF Slab
<1>7. Open(r)
  <2>1. \A d \in Clients : d \in r.clients <=> r.client[d].state = "open"
    BY <1>1, <1>4, <1>5 DEF Open
  <2>2. ASSUME NEW o \in Object
        PROVE  o \in r.registered <=>
                 \/ o = server
                 \/ \E d \in Clients : o = Client(d) /\ r.client[d].state = "open"
                 \/ \E k \in Conns : o = Conn(k) /\ r.conn[k].state = "open"
    <3>1. o \in w.registered <=>
                 \/ o = server
                 \/ \E d \in Clients : o = Client(d) /\ w.client[d].state = "open"
                 \/ \E k \in Conns : o = Conn(k) /\ w.conn[k].state = "open"
      BY <1>1 DEF Open
    <3> QED BY <1>3, <1>4, <1>5, <3>1, Objects
  <2> QED BY <2>1, <2>2 DEF Open
<1>8. Routes(r)
  <2>1. \A d \in Clients : \A k \in Range(w.client[d].router) : k \in Conns
    BY RoutedOpen
  <2>2. \A d \in Clients : r.client[d].state # "open" => r.client[d].router = << >>
    BY <1>1, <1>4 DEF Routes
  <2>3. \A d \in Clients : \A k \in Range(r.client[d].router) :
          r.conn[k].state = "open" /\ r.conn[k].client = d
    BY <1>1, <1>3, <1>4, <2>1 DEF Routes
  <2>4. \A k \in Conns : r.conn[k].state = "open" =>
          r.conn[k].client \in Clients /\ k \in Range(r.client[r.conn[k].client].router)
    BY <1>1, <1>3, <1>4 DEF Routes
  <2>5. \A d \in Clients : \A k, l \in Range(r.client[d].router) :
          r.conn[k].id = r.conn[l].id => k = l
    BY <1>1, <1>3, <1>4, <2>1 DEF Routes
  <2>6. \A d \in Clients : Distinct(r.client[d].router)
    BY <1>1, <1>4 DEF Routes
  <2> QED BY <2>2, <2>3, <2>4, <2>5, <2>6 DEF Routes
<1>9. Turns(r) /\ Watched(r) /\ r.panic = "none"
  <2>1. ASSUME NEW d \in Clients, d >= r.next_client_id PROVE r.client[d].state = "absent"
    <3>1. w.client[d].state = "absent"
      BY <1>1, <1>5, <2>1 DEF Turns
    <3> QED BY <1>4, <3>1
  <2> QED BY <1>1, <1>4, <1>5, <2>1 DEF Turns, Watched
<1> QED BY <1>5, <1>6, <1>7, <1>8, <1>9 DEF Sound, Grows

\* Client::close() is sound if deregister() succeeds: the router is cleared and the
\* server forgets the client.
LEMMA CloseClient ==
  ASSUME NEW w, Sound(w), NEW c \in Clients, w.client[c].state = "open", w.current = None,
         NEW failing
  PROVE  LET v == close_deregistered(w, c, failing)
         IN Sound(v) /\ Grows(w, v)
<1> DEFINE ks == Range(w.client[c].router)
           m == clear(w, c, failing)
           b == [w.client[c] EXCEPT !.state = "closed"]
           u == [w EXCEPT !.client[c].state = "closed"]
           x == deregister(u, {Client(c)}, {w.client[c].token})
           v == clear(x, c, failing)
           r == close_deregistered(w, c, failing)
<1>0. /\ w \in Worlds /\ w.client \in [Clients -> ClientState] /\ w.client[c] \in ClientState
      /\ Slab(w) /\ Open(w)
  BY DEF Sound, Worlds
<1>1. w.client[c].token \in Tokens /\ c \in w.clients
  BY <1>0 DEF Slab, Open
<1>2. /\ m \in Worlds /\ CloseFields(w, m, ks, failing)
      /\ m.client = [w.client EXCEPT ![c] = [w.client[c] EXCEPT !.router = << >>]]
  BY <1>0, RoutedOpen, Clear, ZenonT(60)
<1>3. Sound(m) /\ Grows(w, m)
  BY ClearSound
<1>4. b \in ClientState /\ SameClient([w.client[c] EXCEPT !.state = "closed"], b)
  BY <1>0 DEF ClientState, SameClient
<1>5. /\ x \in Worlds /\ x.client = [w.client EXCEPT ![c] = b] /\ x.conn = w.conn
      /\ x.handlers = w.handlers
      /\ x.tokens_to_remove = w.tokens_to_remove \cup {w.client[c].token}
      /\ x.registered = w.registered \ {Client(c)} /\ x.backlog = w.backlog
      /\ x.next_client_id = w.next_client_id /\ x.clients = w.clients
      /\ x.current = w.current /\ x.panic = w.panic
  <2>1. u = [w EXCEPT !.client = [w.client EXCEPT ![c] = b]]
    OBVIOUS
  <2> HIDE DEF u, b
  <2>2. [w.client EXCEPT ![c] = b] \in [Clients -> ClientState]
    BY <1>0, <1>4
  <2> DEFINE cl == [w.client EXCEPT ![c] = b]
  <2>3. cl \in [Clients -> ClientState] /\ u = [w EXCEPT !.client = cl]
    BY <2>1, <2>2
  <2> HIDE DEF cl
  <2>4. /\ u \in Worlds /\ u.client = cl /\ u.conn = w.conn /\ u.handlers = w.handlers
        /\ u.tokens_to_remove = w.tokens_to_remove /\ u.registered = w.registered
        /\ u.backlog = w.backlog /\ u.next_client_id = w.next_client_id
        /\ u.clients = w.clients /\ u.current = w.current /\ u.panic = w.panic
    BY <1>0, <2>3 DEF Worlds
  <2>5. /\ x \in Worlds /\ x.client = u.client /\ x.conn = u.conn /\ x.handlers = u.handlers
        /\ x.tokens_to_remove = u.tokens_to_remove \cup {w.client[c].token}
        /\ x.registered = u.registered \ {Client(c)} /\ x.backlog = u.backlog
        /\ x.next_client_id = u.next_client_id /\ x.clients = u.clients
        /\ x.current = u.current /\ x.panic = u.panic
    BY <1>1, <2>4 DEF Worlds, deregister
  <2> QED BY <2>4, <2>5 DEF cl
<1>6. /\ x.client[c].router = w.client[c].router
      /\ \A k \in ks : x.conn[k].token \in Tokens
  <2>1. x.client[c] = b
    BY <1>0, <1>5
  <2> QED BY <1>0, <1>5, <2>1, RoutedOpen DEF ClientState
<1> HIDE DEF x, m, b
<1>7. /\ v \in Worlds /\ CloseFields(x, v, ks, failing)
      /\ v.client = [x.client EXCEPT ![c] = [x.client[c] EXCEPT !.router = << >>]]
  <2>1. \A k \in Range(x.client[c].router) : x.conn[k].token \in Tokens
    BY <1>6
  <2>2. /\ v \in Worlds /\ CloseFields(x, v, Range(x.client[c].router), failing)
        /\ v.client = [x.client EXCEPT ![c] = [x.client[c] EXCEPT !.router = << >>]]
    <3>1. x \in Worlds
      BY <1>5
    <3> QED BY <2>1, <3>1, Clear
  <2> QED BY <1>6, <2>2
<1>8. r = [v EXCEPT !.clients = @ \ {c}]
  BY <1>1 DEF close_deregistered, x
<1> HIDE DEF v, r, ks
<1>9. /\ r \in Worlds /\ r.client = v.client /\ r.conn = v.conn /\ r.handlers = v.handlers
      /\ r.tokens_to_remove = v.tokens_to_remove /\ r.registered = v.registered
      /\ r.backlog = v.backlog /\ r.next_client_id = v.next_client_id
      /\ r.clients = v.clients \ {c} /\ r.current = v.current /\ r.panic = v.panic
  BY <1>7, <1>8 DEF Worlds
<1>10. ASSUME NEW d \in Clients
       PROVE  /\ r.client[d].state = IF d = c THEN "closed" ELSE m.client[d].state
              /\ r.client[d].token = m.client[d].token
              /\ r.client[d].router = m.client[d].router
              /\ r.client[d].filled = m.client[d].filled
              /\ r.client[d].interests = m.client[d].interests
  <2>1. CASE d # c
    <3>1. r.client[d] = w.client[d] /\ m.client[d] = w.client[d]
      BY <1>0, <1>2, <1>4, <1>5, <1>7, <1>9, <2>1
    <3> QED BY <2>1, <3>1
  <2>2. CASE d = c
    <3>1. x.client[c] = b
      BY <1>0, <1>5
    <3>2. x.client \in [Clients -> ClientState]
      BY <1>5 DEF Worlds
    <3>3. r.client[c] = [b EXCEPT !.router = << >>]
      BY <1>7, <1>9, <3>1, <3>2
    <3>4. m.client[c] = [w.client[c] EXCEPT !.router = << >>]
      BY <1>0, <1>2
    <3> QED BY <1>0, <2>2, <3>3, <3>4 DEF ClientState, b
  <2> QED BY <2>1, <2>2
<1>11. m.client[c].state = "open" /\ m.client[c].router = << >>
       /\ m.client[c].token = w.client[c].token
  <2>1. m.client[c] = [w.client[c] EXCEPT !.router = << >>]
    BY <1>0, <1>2
  <2> QED BY <1>0, <2>1 DEF ClientState
<1>12. /\ r.handlers = m.handlers
       /\ r.tokens_to_remove = m.tokens_to_remove \cup {m.client[c].token}
       /\ r.registered = m.registered \ {Client(c)} /\ r.clients = m.clients \ {c}
       /\ r.backlog = m.backlog /\ r.next_client_id = m.next_client_id
       /\ r.current = m.current /\ r.panic = m.panic
  BY <1>2, <1>5, <1>7, <1>9, <1>11 DEF CloseFields
<1>13. \A k \in Conns : /\ r.conn[k].state = m.conn[k].state
                        /\ r.conn[k].leaked <=> m.conn[k].leaked
                        /\ r.conn[k].client = m.conn[k].client /\ r.conn[k].id = m.conn[k].id
                        /\ r.conn[k].token = m.conn[k].token
  BY <1>2, <1>5, <1>7, <1>9 DEF CloseFields
<1>14. Shut(m, r, c)
  BY <1>9, <1>10, <1>12, <1>13 DEF Shut
<1>15. m.current = None
  BY <1>2 DEF CloseFields
<1>16. Sound(r) /\ Grows(m, r)
  BY <1>3, <1>11, <1>14, <1>15, ShutSound
<1>17. Grows(w, r)
  BY <1>3, <1>16, <1>2, <1>12 DEF Grows, CloseFields
<1> QED BY <1>16, <1>17 DEF r

\* If it does not, the world is what unwrap() leaves of a sound one.
LEMMA UnwrapFails ==
  ASSUME NEW w, Sound(w), NEW c \in Clients, w.client[c].state = "open"
  PROVE  LET v == unwrap_fails(w, c)
         IN /\ Halted(v) /\ v \in Worlds /\ v.handlers = w.handlers /\ Grows(w, v)
            /\ v.registered = w.registered /\ v.clients = w.clients /\ v.conn = w.conn
            /\ v.panic = "deregister"
            /\ \A d \in Clients : /\ v.client[d].router = w.client[d].router
                                  /\ v.client[d].filled = w.client[d].filled
                                  /\ v.client[d].interests = w.client[d].interests
<1> DEFINE b == [w.client[c] EXCEPT !.state = "closed"]
           cl == [w.client EXCEPT ![c] = b]
           v == unwrap_fails(w, c)
<1>1. w \in Worlds /\ w.client \in [Clients -> ClientState] /\ w.client[c] \in ClientState
  BY DEF Sound, Worlds
<1>2. /\ b \in ClientState /\ b.router = w.client[c].router /\ b.filled = w.client[c].filled
      /\ b.interests = w.client[c].interests
  BY <1>1 DEF ClientState
<1>3. v = [w EXCEPT !.client = cl, !.panic = "deregister"]
  BY DEF unwrap_fails
<1> HIDE DEF b
<1>4. /\ cl \in [Clients -> ClientState]
      /\ \A d \in Clients : cl[d] = IF d = c THEN b ELSE w.client[d]
  BY <1>1, <1>2
<1> HIDE DEF cl
<1>5. /\ v \in Worlds /\ v.handlers = w.handlers /\ v.registered = w.registered
      /\ v.clients = w.clients /\ v.conn = w.conn /\ v.client = cl /\ v.panic = "deregister"
  BY <1>1, <1>3, <1>4 DEF Worlds, Panics
<1>6. Halted(v)
  BY <1>1 DEF Halted
<1> HIDE DEF v
<1> QED BY <1>2, <1>4, <1>5, <1>6 DEF Grows, v

-----------------------------------------------------------------------------
(***************************************************************************)
(* The handlers of a batch.                                                *)
(***************************************************************************)
\* Tokens keep their objects over two steps if they do over each.
LEMMA GrowsTrans ==
  ASSUME NEW w, NEW v, NEW u, Grows(w, v), Grows(v, u)
  PROVE  Grows(w, u)
  BY DEF Grows

\* Closing a client leaves a sound world, or stops the relay.
LEMMA CloseOrHalt ==
  ASSUME NEW w, Sound(w), NEW c \in Clients, w.client[c].state = "open", w.current = None,
         NEW failing, NEW v \in close_client(w, c, failing)
  PROVE  (Sound(v) \/ Halted(v)) /\ Grows(w, v)
<1>1. v = unwrap_fails(w, c) \/ v = close_deregistered(w, c, failing)
  BY DEF close_client
<1> QED BY <1>1, CloseClient, UnwrapFails

\* Client::on_ready(), with every early exit, is sound unless close() panics.
LEMMA OnReadyClient ==
  ASSUME NEW w, Sound(w), NEW c \in Clients, w.client[c].state # "absent", w.current = None,
         NEW ready, NEW failing, NEW v \in on_ready_client(w, c, ready, failing)
  PROVE  (Sound(v) \/ Halted(v)) /\ Grows(w, v)
<1> DEFINE sent == IF "writable" \in ready THEN process_send(w, c) ELSE {w}
<1>0. Grows(w, w)
  BY DEF Grows
<1>1. CASE w.client[c].state = "closed"
  BY <1>0, <1>1 DEF on_ready_client
<1>2. CASE w.client[c].state # "closed"
  <2>1. w.client[c].state = "open"
    BY <1>2 DEF Sound, Worlds, ClientState
  <2>2. v \in process_client(w, c, ready, failing)
    BY <1>2 DEF on_ready_client
  <2>3. ASSUME NEW u \in sent
        PROVE  Sound(u) /\ Grows(w, u) /\ u.client[c].state = "open" /\ u.current = None
    <3>1. CASE u = w
      BY <1>0, <2>1, <3>1
    <3>2. CASE u \in process_send(w, c)
      BY <2>1, <3>2, ProcessSend DEF Keeps, SameObjects
    <3> QED BY <3>1, <3>2
  <2>4. \/ v = w \/ v \in sent \/ v \in close_client(w, c, failing)
        \/ \E u \in sent : \/ v \in process_receive(u, c, failing)
                           \/ v = update_interests(u, c)
    BY <2>2 DEF process_client
  <2> HIDE DEF sent
  <2>5. CASE v = w
    BY <1>0, <2>5
  <2>6. CASE v \in sent
    BY <2>3, <2>6
  <2>7. CASE v \in close_client(w, c, failing)
    BY <2>1, <2>7, CloseOrHalt
  <2>8. ASSUME NEW u \in sent, v \in process_receive(u, c, failing)
        PROVE  (Sound(v) \/ Halted(v)) /\ Grows(w, v)
    <3>0. Sound(u) /\ Grows(w, u) /\ u.client[c].state = "open" /\ u.current = None
      BY <2>3
    <3>1. CASE v = [u EXCEPT !.current = c]
      <4>1. Sound([u EXCEPT !.current = c]) /\ Grows(u, [u EXCEPT !.current = c])
        BY <3>0, SetCurrent
      <4> QED BY <3>0, <3>1, <4>1, GrowsTrans
    <3>2. CASE v \in close_client(u, c, failing)
      <4>1. (Sound(v) \/ Halted(v)) /\ Grows(u, v)
        BY <3>0, <3>2, CloseOrHalt
      <4> QED BY <3>0, <4>1, GrowsTrans
    <3> QED BY <2>8, <3>1, <3>2 DEF process_receive
  <2>9. ASSUME NEW u \in sent, v = update_interests(u, c)
        PROVE  Sound(v) /\ Grows(w, v)
    <3>1. Sound(v) /\ Grows(u, v)
      BY <2>3, <2>9, UpdateInterests, SMTT(40) DEF Keeps
    <3> QED BY <2>3, <3>1, GrowsTrans
  <2> QED BY <2>4, <2>5, <2>6, <2>7, <2>8, <2>9
<1> QED BY <1>1, <1>2

\* A connection that is closed and taken out of its router by swap_remove().
LEMMA DropOne ==
  ASSUME NEW w, Sound(w), NEW c \in Clients, NEW i \in DOMAIN w.client[c].router, NEW failing
  PROVE  LET k == w.client[c].router[i]
             v == [close_all(w, {k}, failing) EXCEPT !.client[c].router = swap_remove(@, i)]
         IN Sound(v) /\ Grows(w, v)
<1> DEFINE s == w.client[c].router
           k == s[i]
           u == close_all(w, {k}, failing)
           a == [w.client[c] EXCEPT !.router = swap_remove(s, i)]
           cl == [w.client EXCEPT ![c] = a]
           v == [u EXCEPT !.client[c].router = swap_remove(@, i)]
<1>0. w \in Worlds /\ w.client \in [Clients -> ClientState] /\ w.client[c] \in ClientState
  BY DEF Sound, Worlds
<1>1. /\ s \in Seq(Conns) /\ Distinct(s) /\ Range(s) \in SUBSET Conns
      /\ \A j \in Range(s) :
           w.conn[j].state = "open" /\ w.conn[j].client = c /\ w.conn[j].token \in Tokens
  BY RoutedOpen
<1>2. i \in 1 .. Len(s) /\ k \in Range(s) /\ k \in Conns
  BY <1>1 DEF Range
<1>3. Thinned(s, swap_remove(s, i), {k})
  BY <1>1, <1>2, SwapRemoveThins
<1> HIDE DEF k
<1>4. u \in Worlds /\ CloseFields(w, u, {k}, failing) /\ u.client = w.client
  BY <1>0, <1>1, <1>2, CloseAll
<1>5. a \in ClientState /\ SameClient(w.client[c], a) /\ a.router = swap_remove(s, i)
  <2> DEFINE q == swap_remove(s, i)
  <2>1. q \in Seq(Conns)
    BY <1>3 DEF Thinned
  <2> HIDE DEF q
  <2>2. [w.client[c] EXCEPT !.router = q] \in ClientState
    BY <1>0, <2>1 DEF ClientState
  <2>3. /\ SameClient(w.client[c], [w.client[c] EXCEPT !.router = q])
        /\ [w.client[c] EXCEPT !.router = q].router = q
    BY <1>0 DEF ClientState, SameClient
  <2> QED BY <2>2, <2>3 DEF q
<1>6. [u.client EXCEPT ![c] = [u.client[c] EXCEPT !.router = swap_remove(u.client[c].router, i)]] = cl
  BY <1>4, Zenon
<1>7. v = [u EXCEPT !.client = cl]
  BY <1>6
<1> HIDE DEF u, a, v
<1>8. /\ cl \in [Clients -> ClientState]
      /\ \A d \in Clients : cl[d] = IF d = c THEN a ELSE w.client[d]
  BY <1>0, <1>5
<1> HIDE DEF cl
<1>9. /\ v \in Worlds /\ v.client = cl /\ v.current = u.current /\ v.conn = u.conn
      /\ v.handlers = u.handlers /\ v.tokens_to_remove = u.tokens_to_remove
      /\ v.registered = u.registered /\ v.backlog = u.backlog /\ v.idle = u.idle
      /\ v.next_client_id = u.next_client_id /\ v.clients = u.clients /\ v.panic = u.panic
  BY <1>4, <1>7, <1>8 DEF Worlds
<1>10. CloseFields(w, v, {k}, failing)
  BY <1>4, <1>9 DEF CloseFields
<1>11. ASSUME NEW d \in Clients
       PROVE  /\ SameClient(w.client[d], v.client[d])
              /\ Thinned(w.client[d].router, v.client[d].router, {k})
  <2>1. CASE d = c
    BY <1>3, <1>5, <1>8, <1>9, <2>1
  <2>2. CASE d # c
    <3>1. v.client[d] = w.client[d]
      BY <1>8, <1>9, <2>2
    <3>2. \A j \in Range(w.client[d].router) : w.conn[j].client = d
      BY DEF Sound, Routes
    <3>3. \A j \in Range(w.client[d].router) : j \notin {k}
      BY <1>1, <1>2, <2>2, <3>2
    <3>4. Thinned(w.client[d].router, w.client[d].router, {k})
      BY <3>3, RoutedOpen, ThinnedSame
    <3> QED BY <3>1, <3>4 DEF SameClient
  <2> QED BY <2>1, <2>2
<1>12. Dropped(w, v, {k}, failing)
  BY <1>9, <1>10, <1>11 DEF Dropped
<1>13. Sound(v) /\ Grows(w, v)
  BY <1>1, <1>2, <1>12, DroppedSound
<1> QED BY <1>13 DEF v, u, k

\* A connection that closes in its own handler finds itself in its client's router.
LEMMA SelfRemove ==
  ASSUME NEW w, Sound(w), NEW k \in Conns, w.conn[k].state = "open", NEW fails
  PROVE  LET v == remove_from_router(close_connection(w, k, fails), k)
         IN Sound(v) /\ Grows(w, v)
<1> DEFINE failing == IF fails THEN {k} ELSE {}
           u == close_all(w, {k}, failing)
           c == w.conn[k].client
           index == {i \in DOMAIN w.client[c].router : w.client[c].router[i] = k}
           i0 == CHOOSE i \in index : TRUE
<1>1. w \in Worlds /\ Slab(w) /\ Open(w) /\ Routes(w)
  BY DEF Sound
<1>2. c \in Clients /\ k \in Range(w.client[c].router) /\ w.conn[k].token \in Tokens
  BY <1>1 DEF Routes, Slab
<1>3. index # {}
  BY <1>2 DEF Range
<1>4. c \in w.clients
  <2>1. w.client[c].router \in Seq(Conns) /\ w.client[c].router # << >>
    BY <1>2, RoutedOpen, EmptyRange, SMTT(40)
  <2> QED BY <1>1, <1>2, <2>1 DEF Routes, Open
<1>5. i0 \in DOMAIN w.client[c].router /\ w.client[c].router[i0] = k
  BY <1>3
<1>6. /\ u.client = w.client /\ u.clients = w.clients /\ u.conn[k].client = c
      /\ u \in Worlds
  <2> HIDE DEF failing
  <2>1. {k} \in SUBSET Conns /\ \A l \in {k} : w.conn[l].token \in Tokens
    BY <1>2
  <2>2. u \in Worlds /\ CloseFields(w, u, {k}, failing) /\ u.client = w.client
    BY <1>1, <2>1, CloseAll
  <2> HIDE DEF u
  <2> QED BY <2>2 DEF CloseFields
<1> HIDE DEF u, c, i0, failing
<1>7. remove_from_router(u, k) = [u EXCEPT !.client[c].router = swap_remove(@, i0)]
  <2> DEFINE e == u.conn[k].client
             mine == {i \in DOMAIN u.client[e].router : u.client[e].router[i] = k}
             out == [u EXCEPT !.client[e].router = swap_remove(@, CHOOSE i \in mine : TRUE)]
  <2>1. e = c /\ mine = index
    BY <1>6
  <2>2. remove_from_router(u, k)
          = IF mine = {} \/ (e \notin u.clients /\ Client(e) \notin Range(u.handlers))
            THEN [u EXCEPT !.panic = "lookup"] ELSE out
    BY DEF remove_from_router
  <2> HIDE DEF out, mine, e
  <2>3. remove_from_router(u, k) = out
    BY <1>3, <1>4, <1>6, <2>1, <2>2
  <2>4. (CHOOSE i \in mine : TRUE) = i0
    BY <2>1 DEF i0
  <2> QED BY <2>1, <2>3, <2>4 DEF out
<1>8. close_connection(w, k, fails) = u
  BY DEF close_connection, u, failing
<1>9. LET l == w.client[c].router[i0]
          v == [close_all(w, {l}, failing) EXCEPT !.client[c].router = swap_remove(@, i0)]
      IN Sound(v) /\ Grows(w, v)
  BY <1>2, <1>5, DropOne
<1>10. close_all(w, {w.client[c].router[i0]}, failing) = u
  BY <1>5 DEF u
<1> QED BY <1>7, <1>8, <1>9, <1>10

\* A connection's process() is sound.
LEMMA OnReadyConnection ==
  ASSUME NEW w, Sound(w), NEW k \in Conns, w.conn[k].state # "free", NEW failing,
         NEW v \in on_ready_connection(w, k, failing)
  PROVE  Sound(v) /\ Grows(w, v)
<1>1. CASE w.conn[k].state = "closed"
  <2>1. v = w
    BY <1>1 DEF on_ready_connection
  <2> QED BY <2>1 DEF Grows
<1>2. CASE w.conn[k].state # "closed"
  <2> DEFINE touched == [w EXCEPT !.idle = @ \ {k}]
             c == w.conn[k].client
             given == send_to_client(touched, c)
  <2>1. w.conn[k].state = "open" /\ c \in Clients
    <3>1. w.conn[k] \in ConnState /\ Routes(w)
      BY DEF Sound, Worlds
    <3>2. w.conn[k].state = "open"
      BY <1>2, <3>1 DEF ConnState
    <3> QED BY <3>1, <3>2 DEF Routes
  <2>2. Sound(touched) /\ Grows(w, touched) /\ touched.conn = w.conn
    BY SetIdle
  <2>3. \E u \in {touched, given} :
          v = u \/ v = remove_from_router(close_connection(u, k, k \in failing), k)
    BY <1>2 DEF on_ready_connection, process_connection
  <2> HIDE DEF touched
  <2>4. Sound(given) /\ Grows(touched, given) /\ given.conn = w.conn
    BY <2>1, <2>2, SendToClient DEF Keeps, SameObjects
  <2> HIDE DEF given, c
  <2>5. \A u \in {touched, given} : Sound(u) /\ Grows(w, u) /\ u.conn[k].state = "open"
    BY <2>1, <2>2, <2>4, GrowsTrans
  <2>6. PICK u \in {touched, given} :
          v = u \/ v = remove_from_router(close_connection(u, k, k \in failing), k)
    BY <2>3
  <2>7. Sound(u) /\ Grows(w, u) /\ u.conn[k].state = "open"
    BY <2>5
  <2>8. CASE v = remove_from_router(close_connection(u, k, k \in failing), k)
    <3> DEFINE f == k \in failing
    <3> HIDE DEF f
    <3>1. LET x == remove_from_router(close_connection(u, k, f), k) IN Sound(x) /\ Grows(u, x)
      BY <2>7, SelfRemove
    <3>2. Sound(v) /\ Grows(u, v)
      BY <2>8, <3>1 DEF f
    <3> QED BY <2>7, <3>2, GrowsTrans
  <2> QED BY <2>6, <2>7, <2>8
<1> QED BY <1>1, <1>2

-----------------------------------------------------------------------------
(***************************************************************************)
(* New objects.                                                            *)
(***************************************************************************)
\* v is w with object o registered under the token t, which was vacant.
Registers(w, v, o, t) ==
  /\ v \in Worlds /\ w.handlers[t] = None
  /\ v.handlers = [w.handlers EXCEPT ![t] = o]
  /\ v.registered = w.registered \cup {o}
  /\ v.tokens_to_remove = w.tokens_to_remove /\ v.panic = w.panic

\* v is w after the next device was taken from the backlog.
Takes(w, v) == /\ w.backlog # 0 /\ v.backlog = w.backlog - 1
               /\ v.next_client_id = w.next_client_id + 1
               /\ v.current = w.current /\ v.conn = w.conn /\ v.idle = w.idle

\* The id of the next device is that of a client that does not exist yet.
LEMMA NextClient ==
  ASSUME NEW w, Sound(w), NEW v \in Worlds, Takes(w, v)
  PROVE  /\ w.next_client_id \in Clients /\ w.client[w.next_client_id].state = "absent"
         /\ \A n \in Nat : n < v.next_client_id + v.backlog => n \in Clients
         /\ \A c \in Clients : c >= v.next_client_id <=> c >= w.next_client_id /\ c # w.next_client_id
<1>1. Turns(w) /\ w \in Worlds /\ Clients \subseteq Nat
  BY RelayAssumption DEF Sound
<1>2. w.next_client_id \in Nat /\ w.backlog \in Nat /\ v.backlog \in Nat /\ w.backlog # 0
  BY <1>1 DEF Worlds, Takes
<1>3. w.next_client_id < w.next_client_id + w.backlog /\ w.next_client_id >= w.next_client_id
  BY <1>2
<1>4. w.next_client_id \in Clients /\ w.client[w.next_client_id].state = "absent"
  BY <1>1, <1>2, <1>3 DEF Turns
<1>5. v.next_client_id + v.backlog = w.next_client_id + w.backlog
  BY <1>2 DEF Takes
<1>6. \A n \in Nat : n < v.next_client_id + v.backlog => n \in Clients
  BY <1>1, <1>5 DEF Turns
<1>7. ASSUME NEW c \in Clients
      PROVE  c >= v.next_client_id <=> c >= w.next_client_id /\ c # w.next_client_id
  <2>1. c \in Nat
    BY <1>1
  <2> QED BY <1>2, <2>1 DEF Takes
<1> QED BY <1>4, <1>6, <1>7

\* A device whose registration fails leaves nothing behind but its id.
LEMMA RefusedSound ==
  ASSUME NEW w, Sound(w), NEW v \in Worlds, Takes(w, v), NEW c, c = w.next_client_id,
         v.handlers = w.handlers, v.tokens_to_remove = w.tokens_to_remove,
         v.registered = w.registered, v.clients = w.clients, v.panic = w.panic,
         \A d \in Clients : /\ v.client[d].state = IF d = c THEN "closed" ELSE w.client[d].state
                            /\ v.client[d].token = w.client[d].token
                            /\ v.client[d].router = w.client[d].router
                            /\ v.client[d].filled = w.client[d].filled
                            /\ v.client[d].interests = w.client[d].interests
  PROVE  Sound(v) /\ Grows(w, v)
<1>1. Slab(w) /\ Open(w) /\ Routes(w) /\ Turns(w) /\ Watched(w) /\ w.panic = "none" /\ w \in Worlds
  BY DEF Sound
<1>2. /\ c \in Clients /\ w.client[c].state = "absent"
      /\ \A n \in Nat : n < v.next_client_id + v.backlog => n \in Clients
      /\ \A d \in Clients : d >= v.next_client_id <=> d >= c /\ d # c
  BY NextClient
<1>3. v.conn = w.conn /\ v.current = w.current /\ v.current \in Clients \cup {None}
  BY DEF Takes, Worlds
<1>4. \A t \in Tokens : w.handlers[t] # Client(c)
  BY <1>1, <1>2 DEF Slab
<1>5. Slab(v)
  <2>1. ASSUME NEW t \in Tokens, NEW d \in Clients, v.handlers[t] = Client(d)
        PROVE  /\ v.client[d].token = t /\ v.client[d].state # "absent"
               /\ t \in v.tokens_to_remove <=> v.client[d].state = "closed"
    <3>1. d # c
      BY <1>4, <2>1
    <3> QED BY <1>1, <2>1, <3>1 DEF Slab
  <2>2. \A d \in Clients : v.client[d].state = "open" =>
          v.client[d].token \in Tokens /\ v.handlers[v.client[d].token] = Client(d)
    BY <1>1 DEF Slab
  <2>3. /\ \E t \in Tokens : v.handlers[t] = server
        /\ \A t \in Tokens : v.handlers[t] \in {server, None} => t \notin v.tokens_to_remove
        /\ \A t \in Tokens, k \in Conns : v.handlers[t] = Conn(k) =>
             /\ v.conn[k].token = t /\ v.conn[k].state # "free"
             /\ t \in v.tokens_to_remove <=> v.conn[k].state = "closed" /\ ~v.conn[k].leaked
        /\ \A k \in Conns : v.conn[k].state # "free" =>
             v.conn[k].token \in Tokens /\ v.handlers[v.conn[k].token] = Conn(k)
        /\ \A k \in Conns : v.conn[k].leaked => v.conn[k].state = "closed"
    BY <1>1, <1>3 DEF Slab
  <2> QED BY <2>1, <2>2, <2>3 DEF Slab
<1>6. Open(v)
  <2>1. \A d \in Clients : v.client[d].state = "open" <=> w.client[d].state = "open"
    BY <1>2
  <2> QED BY <1>1, <1>3, <2>1 DEF Open
<1>7. Routes(v)
  <2>1. w.client[c].router = << >>
    BY <1>1, <1>2 DEF Routes
  <2>2. \A d \in Clients : v.client[d].state # "open" => v.client[d].router = << >>
    BY <1>1, <1>2, <2>1 DEF Routes
  <2> QED BY <1>1, <1>3, <2>2 DEF Routes
<1>8. Turns(v) /\ Watched(v) /\ v.panic = "none"
  <2>1. ASSUME NEW d \in Clients, d >= v.next_client_id PROVE v.client[d].state = "absent"
    BY <1>1, <1>2, <2>1 DEF Turns
  <2>2. v.current # None => v.client[v.current].state = "open"
    BY <1>1, <1>2, <1>3 DEF Turns
  <2> QED BY <1>1, <1>2, <2>1, <2>2 DEF Turns, Watched
<1> QED BY <1>5, <1>6, <1>7, <1>8 DEF Sound, Grows

\* A client that is created takes a vacant token and the next id.
LEMMA NewClientSound ==
  ASSUME NEW w, Sound(w), NEW v, NEW t \in Tokens, NEW c, c = w.next_client_id,
         Takes(w, v), Registers(w, v, Client(c), t), v.clients = w.clients \cup {c},
         \A d \in Clients : d # c => v.client[d] = w.client[d],
         v.client[c].state = "open", v.client[c].token = t,
         v.client[c].router = w.client[c].router, v.client[c].interests = {"writable"}
  PROVE  Sound(v) /\ Grows(w, v)
<1>1. Slab(w) /\ Open(w) /\ Routes(w) /\ Turns(w) /\ Watched(w) /\ w.panic = "none" /\ w \in Worlds
  BY DEF Sound
<1>2. /\ c \in Clients /\ w.client[c].state = "absent"
      /\ \A n \in Nat : n < v.next_client_id + v.backlog => n \in Clients
      /\ \A d \in Clients : d >= v.next_client_id <=> d >= c /\ d # c
  BY NextClient DEF Registers
<1>3. /\ v \in Worlds /\ v.conn = w.conn /\ v.current = w.current
      /\ v.current \in Clients \cup {None}
      /\ v.tokens_to_remove = w.tokens_to_remove /\ v.panic = w.panic
      /\ v.registered = w.registered \cup {Client(c)} /\ w.handlers[t] = None
  BY DEF Takes, Registers, Worlds
<1>4. \A u \in Tokens : v.handlers[u] = IF u = t THEN Client(c) ELSE w.handlers[u]
  BY <1>1 DEF Registers, Worlds
<1>5. \A u \in Tokens : w.handlers[u] # Client(c)
  BY <1>1, <1>2 DEF Slab
<1>6. t \notin w.tokens_to_remove
  BY <1>1, <1>3 DEF Slab
<1>7. Slab(v)
  <2>1. \E u \in Tokens : v.handlers[u] = server
    BY <1>1, <1>3, <1>4, Objects DEF Slab
  <2>2. \A u \in Tokens : v.handlers[u] \in {server, None} => u \notin v.tokens_to_remove
    BY <1>1, <1>2, <1>3, <1>4, Objects DEF Slab
  <2>3. ASSUME NEW u \in Tokens, NEW d \in Clients, v.handlers[u] = Client(d)
        PROVE  /\ v.client[d].token = u /\ v.client[d].state # "absent"
               /\ u \in v.tokens_to_remove <=> v.client[d].state = "closed"
    <3>1. CASE u = t
      <4>1. d = c
        BY <1>2, <1>4, <2>3, <3>1, Objects
      <4> QED BY <1>3, <1>6, <3>1, <4>1
    <3>2. CASE u # t
      <4>1. w.handlers[u] = Client(d) /\ d # c
        BY <1>4, <1>5, <2>3, <3>2
      <4> QED BY <1>1, <1>3, <4>1 DEF Slab
    <3> QED BY <3>1, <3>2
  <2>4. ASSUME NEW u \in Tokens, NEW k \in Conns, v.handlers[u] = Conn(k)
        PROVE  /\ v.conn[k].token = u /\ v.conn[k].state # "free"
               /\ u \in v.tokens_to_remove <=> v.conn[k].state = "closed" /\ ~v.conn[k].leaked
    <3>1. w.handlers[u] = Conn(k)
      BY <1>2, <1>4, <2>4, Objects
    <3> QED BY <1>1, <1>3, <3>1 DEF Slab
  <2>5. ASSUME NEW d \in Clients, v.client[d].state = "open"
        PROVE  v.client[d].token \in Tokens /\ v.handlers[v.client[d].token] = Client(d)
    <3>1. CASE d = c
      BY <1>4, <3>1
    <3>2. CASE d # c
      <4>1. w.client[d].token \in Tokens /\ w.handlers[w.client[d].token] = Client(d)
        BY <1>1, <2>5, <3>2 DEF Slab
      <4> QED BY <1>3, <1>4, <3>2, <4>1, Objects
    <3> QED BY <3>1, <3>2
  <2>6. \A k \in Conns : v.conn[k].state # "free" =>
          v.conn[k].token \in Tokens /\ v.handlers[v.conn[k].token] = Conn(k)
    BY <1>1, <1>3, <1>4, Objects DEF Slab
  <2>7. \A k \in Conns : v.conn[k].leaked => v.conn[k].state = "closed"
    BY <1>1, <1>3 DEF Slab
  <2> QED BY <2>1, <2>2, <2>3, <2>4, <2>5, <2>6, <2>7 DEF Slab
<1>8. Open(v)
  <2>1. \A d \in Clients : d \in v.clients <=> v.client[d].state = "open"
    BY <1>1 DEF Open
  <2>2. ASSUME NEW o \in Object
        PROVE  o \in v.registered <=>
                 \/ o = server
                 \/ \E d \in Clients : o = Client(d) /\ v.client[d].state = "open"
                 \/ \E k \in Conns : o = Conn(k) /\ v.conn[k].state = "open"
    <3>1. o \in w.registered <=>
                 \/ o = server
                 \/ \E d \in Clients : o = Client(d) /\ w.client[d].state = "open"
                 \/ \E k \in Conns : o = Conn(k) /\ w.conn[k].state = "open"
      BY <1>1 DEF Open
    <3> QED BY <1>2, <1>3, <3>1, Objects
  <2> QED BY <2>1, <2>2 DEF Open
<1>9. Routes(v)
  <2>1. w.client[c].router = << >>
    BY <1>1, <1>2 DEF Routes
  <2>2. \A d \in Clients : v.client[d].router = w.client[d].router
    OBVIOUS
  <2>3. \A d \in Clients : v.client[d].state # "open" => v.client[d].router = << >>
    BY <1>1, <1>2, <2>1 DEF Routes
  <2> QED BY <1>1, <1>3, <2>2, <2>3 DEF Routes
<1>10. Turns(v) /\ Watched(v) /\ v.panic = "none"
  <2>1. ASSUME NEW d \in Clients, d >= v.next_client_id PROVE v.client[d].state = "absent"
    BY <1>1, <1>2, <2>1 DEF Turns
  <2>2. v.current # None => v.client[v.current].state = "open"
    BY <1>1, <1>2, <1>3 DEF Turns
  <2>3. Watched(v)
    BY <1>1, <1>2 DEF Watched
  <2> QED BY <1>1, <1>2, <1>3, <2>1, <2>2, <2>3 DEF Turns
<1>11. Grows(w, v)
  BY <1>3, <1>4 DEF Grows
<1> QED BY <1>3, <1>7, <1>8, <1>9, <1>10, <1>11 DEF Sound

\* accept_client() is sound: it takes a device, refuses one, or finds none.
LEMMA AcceptClient ==
  ASSUME NEW w, Sound(w), w.handlers = handlers, NEW v \in accept_client(w)
  PROVE  Sound(v) /\ Grows(w, v)
<1> DEFINE c == w.next_client_id
           taken == [w EXCEPT !.next_client_id = c + 1, !.backlog = @ - 1]
<1>0. /\ w \in Worlds /\ w.client \in [Clients -> ClientState] /\ w.backlog \in Nat
      /\ w.next_client_id \in Nat
  BY DEF Sound, Worlds
<1>1. CASE v = w
  BY <1>1 DEF Grows
<1>2. CASE v # w
  <2>1. /\ w.backlog # 0
        /\ \/ v = [taken EXCEPT !.client[c].state = "closed"]
           \/ \E t \in VacantTokens :
                v = [create_client(taken, c, t) EXCEPT !.clients = @ \cup {c}]
    BY <1>2 DEF accept_client
  <2>2. w.backlog - 1 \in Nat /\ c + 1 \in Nat
    BY <1>0, <2>1
  <2>3. /\ taken \in Worlds /\ taken.next_client_id = c + 1 /\ taken.backlog = w.backlog - 1
        /\ taken.client = w.client /\ taken.conn = w.conn /\ taken.handlers = w.handlers
        /\ taken.tokens_to_remove = w.tokens_to_remove /\ taken.registered = w.registered
        /\ taken.clients = w.clients /\ taken.current = w.current /\ taken.panic = w.panic
        /\ taken.idle = w.idle
    BY <1>0, <2>2 DEF Worlds
  <2> HIDE DEF taken
  <2>4. Takes(w, taken)
    BY <2>1, <2>3 DEF Takes
  <2>5. c \in Clients /\ w.client[c] \in ClientState
    BY <1>0, <2>3, <2>4, NextClient
  <2> HIDE DEF c
  <2>6. CASE v = [taken EXCEPT !.client[c].state = "closed"]
    <3> DEFINE a == [w.client[c] EXCEPT !.state = "closed"]
               cl == [w.client EXCEPT ![c] = a]
    <3>1. /\ a \in ClientState /\ a.state = "closed" /\ a.token = w.client[c].token
          /\ a.router = w.client[c].router /\ a.filled = w.client[c].filled
          /\ a.interests = w.client[c].interests
      BY <2>5 DEF ClientState
    <3>2. [taken.client EXCEPT ![c] = [taken.client[c] EXCEPT !.state = "closed"]] = cl
      BY <2>3, Zenon
    <3>3. v = [taken EXCEPT !.client = cl]
      BY <2>6, <3>2
    <3> HIDE DEF a
    <3>4. /\ cl \in [Clients -> ClientState]
          /\ \A d \in Clients : cl[d] = IF d = c THEN a ELSE w.client[d]
      BY <1>0, <3>1
    <3> HIDE DEF cl
    <3>5. /\ v \in Worlds /\ v.client = cl /\ v.next_client_id = c + 1
          /\ v.backlog = w.backlog - 1 /\ v.conn = w.conn /\ v.handlers = w.handlers
          /\ v.tokens_to_remove = w.tokens_to_remove /\ v.registered = w.registered
          /\ v.clients = w.clients /\ v.current = w.current /\ v.panic = w.panic
          /\ v.idle = w.idle
      BY <2>3, <3>3, <3>4 DEF Worlds
    <3>6. Takes(w, v)
      BY <2>1, <3>5 DEF Takes, c
    <3>7. \A d \in Clients : /\ v.client[d].state = IF d = c THEN "closed" ELSE w.client[d].state
                             /\ v.client[d].token = w.client[d].token
                             /\ v.client[d].router = w.client[d].router
                             /\ v.client[d].filled = w.client[d].filled
                             /\ v.client[d].interests = w.client[d].interests
      BY <3>1, <3>4, <3>5
    <3> QED BY <3>5, <3>6, <3>7, RefusedSound DEF c
  <2>7. ASSUME NEW t \in VacantTokens,
               v = [create_client(taken, c, t) EXCEPT !.clients = @ \cup {c}]
        PROVE  Sound(v) /\ Grows(w, v)
    <3> DEFINE a == [w.client[c] EXCEPT !.state = "open", !.token = t, !.interests = {"writable"}]
               cl == [w.client EXCEPT ![c] = a]
               x == [taken EXCEPT !.client[c] = [@ EXCEPT !.state = "open", !.token = t,
                                                          !.interests = {"writable"}]]
               h == [w.handlers EXCEPT ![t] = Client(c)]
               y == register(x, Client(c), t)
    <3>1. t \in Tokens /\ w.handlers[t] = None
      BY DEF VacantTokens
    <3>2. /\ a \in ClientState /\ a.state = "open" /\ a.token = t
          /\ a.router = w.client[c].router /\ a.interests = {"writable"}
      BY <2>5, <3>1 DEF ClientState, Interest
    <3>3. [taken.client EXCEPT ![c] = [taken.client[c] EXCEPT !.state = "open", !.token = t,
                                                              !.interests = {"writable"}]] = cl
      BY <2>3, Zenon
    <3>4. x = [taken EXCEPT !.client = cl]
      BY <3>3
    <3>5. v = [y EXCEPT !.clients = @ \cup {c}]
      BY <2>7 DEF create_client
    <3> HIDE DEF a, x
    <3>6. /\ cl \in [Clients -> ClientState]
          /\ \A d \in Clients : cl[d] = IF d = c THEN a ELSE w.client[d]
      BY <1>0, <3>2
    <3> HIDE DEF cl
    <3>7. /\ x \in Worlds /\ x.client = cl /\ x.next_client_id = c + 1
          /\ x.backlog = w.backlog - 1 /\ x.conn = w.conn /\ x.handlers = w.handlers
          /\ x.tokens_to_remove = w.tokens_to_remove /\ x.registered = w.registered
          /\ x.clients = w.clients /\ x.current = w.current /\ x.panic = w.panic
          /\ x.idle = w.idle
      BY <2>3, <3>4, <3>6 DEF Worlds
    <3>8. h \in [Tokens -> Object \cup {None}] /\ Client(c) \in Object
      <4>1. w.handlers \in [Tokens -> Object \cup {None}] /\ Client(c) \in Object
        BY <1>0, <2>5, Objects DEF Worlds
      <4> QED BY <3>1, <4>1
    <3>9. [x.handlers EXCEPT ![t] = Client(c)] = h
      BY <3>7
    <3>10. y = [x EXCEPT !.handlers = h, !.registered = @ \cup {Client(c)}]
      BY <3>9 DEF register
    <3> HIDE DEF h, y
    <3>11. /\ y \in Worlds /\ y.client = cl /\ y.next_client_id = c + 1
           /\ y.backlog = w.backlog - 1 /\ y.conn = w.conn /\ y.handlers = h
           /\ y.tokens_to_remove = w.tokens_to_remove
           /\ y.registered = w.registered \cup {Client(c)}
           /\ y.clients = w.clients /\ y.current = w.current /\ y.panic = w.panic
           /\ y.idle = w.idle
      BY <3>7, <3>8, <3>10 DEF Worlds
    <3>12. /\ v \in Worlds /\ v.client = cl /\ v.next_client_id = c + 1
           /\ v.backlog = w.backlog - 1 /\ v.conn = w.conn /\ v.handlers = h
           /\ v.tokens_to_remove = w.tokens_to_remove
           /\ v.registered = w.registered \cup {Client(c)}
           /\ v.clients = w.clients \cup {c} /\ v.current = w.current /\ v.panic = w.panic
           /\ v.idle = w.idle
      BY <2>5, <3>5, <3>11 DEF Worlds
    <3>13. Takes(w, v)
      BY <2>1, <3>12 DEF Takes, c
    <3>14. Registers(w, v, Client(c), t)
      BY <3>1, <3>12 DEF Registers, h
    <3>15. /\ \A d \in Clients : d # c => v.client[d] = w.client[d]
           /\ v.client[c].state = "open" /\ v.client[c].token = t
           /\ v.client[c].router = w.client[c].router
           /\ v.client[c].interests = {"writable"}
      BY <2>5, <3>2, <3>6, <3>12
    <3> QED BY <3>1, <3>12, <3>13, <3>14, <3>15, NewClientSound DEF c
  <2> QED BY <2>1, <2>6, <2>7
<1> QED BY <1>1, <1>2

\* run_handlers(): whatever the token of an event stands for, its handler is sound.
LEMMA OnReady ==
  ASSUME NEW w, Sound(w), w.handlers = handlers, w.current = None, NEW e, e.token \in Tokens,
         w.handlers[e.token] # None, NEW failing, NEW v \in on_ready(w, e, failing)
  PROVE  (Sound(v) \/ Halted(v)) /\ Grows(w, v)
<1> DEFINE o == w.handlers[e.token]
<1>1. o \in Object /\ w \in Worlds /\ Slab(w)
  BY DEF Sound, Worlds
<1>2. CASE o = server
  <2>1. v \in accept_client(w)
    BY <1>2, Objects DEF on_ready
  <2> QED BY <2>1, AcceptClient
<1>3. ASSUME NEW c \in Clients, o = Client(c) PROVE (Sound(v) \/ Halted(v)) /\ Grows(w, v)
  <2>1. w.client[c].state # "absent"
    BY <1>1, <1>3 DEF Slab
  <2>2. o # None /\ o # server /\ o.kind = "client" /\ o.n = c
    BY <1>3, Objects
  <2>3. v \in on_ready_client(w, c, e.ready, failing)
    BY <2>2 DEF on_ready
  <2> QED BY <2>1, <2>3, OnReadyClient
<1>4. ASSUME NEW k \in Conns, o = Conn(k) PROVE Sound(v) /\ Grows(w, v)
  <2>1. w.conn[k].state # "free"
    BY <1>1, <1>4 DEF Slab
  <2>2. o # None /\ o # server /\ o.kind = "connection" /\ o.n = k
    BY <1>4, Objects
  <2>3. v \in on_ready_connection(w, k, failing)
    BY <2>2 DEF on_ready
  <2> QED BY <2>1, <2>3, OnReadyConnection
<1> QED BY <1>1, <1>2, <1>3, <1>4, Objects

\* What is appended to a router joins its elements.
LEMMA AppendRange ==
  ASSUME NEW s \in Seq(Conns), NEW k \in Conns
  PROVE  /\ Append(s, k) \in Seq(Conns) /\ Len(Append(s, k)) \in DOMAIN Append(s, k)
         /\ Append(s, k)[Len(Append(s, k))] = k
         /\ \A j \in Conns : j \in Range(Append(s, k)) <=> j \in Range(s) \/ j = k
         /\ Distinct(s) /\ k \notin Range(s) => Distinct(Append(s, k))
<1> DEFINE n == Len(s)
           r == Append(s, k)
<1>1. /\ n \in Nat /\ DOMAIN s = 1 .. n /\ r \in Seq(Conns) /\ Len(r) = n + 1
      /\ DOMAIN r = 1 .. n + 1 /\ r[n + 1] = k /\ \A i \in 1 .. n : r[i] = s[i]
  OBVIOUS
<1>2. n + 1 \in 1 .. n + 1 /\ \A i \in 1 .. n + 1 : i \in 1 .. n \/ i = n + 1
  BY <1>1
<1>3. \A i \in 1 .. n : i \in 1 .. n + 1
  BY <1>1
<1> HIDE DEF r, n
<1>4. \A j \in Conns : j \in Range(r) <=> j \in Range(s) \/ j = k
  BY <1>1, <1>2, <1>3 DEF Range
<1>5. ASSUME Distinct(s), k \notin Range(s) PROVE Distinct(r)
  <2>1. \A i \in 1 .. n : s[i] # k
    BY <1>1, <1>5 DEF Range
  <2>2. \A i, j \in 1 .. n : s[i] = s[j] => i = j
    BY <1>1, <1>5 DEF Distinct
  <2> SUFFICES ASSUME NEW i \in 1 .. n + 1, NEW j \in 1 .. n + 1, r[i] = r[j] PROVE i = j
    BY <1>1 DEF Distinct
  <2> QED BY <1>1, <1>2, <2>1, <2>2
<1> QED BY <1>1, <1>2, <1>4, <1>5 DEF r

\* A connection that is created takes a vacant token and a place in the router.
LEMMA NewConnSound ==
  ASSUME NEW w, Sound(w), NEW v, NEW t \in Tokens, NEW c \in Clients, NEW k \in Conns, NEW id,
         w.client[c].state = "open", w.conn[k].state = "free",
         \A j \in Range(w.client[c].router) : w.conn[j].id # id,
         Registers(w, v, Conn(k), t),
         v.backlog = w.backlog, v.next_client_id = w.next_client_id, v.clients = w.clients,
         v.current = w.current,
         \A j \in Conns : j # k => v.conn[j] = w.conn[j],
         v.conn[k].state = "open", v.conn[k].client = c, v.conn[k].id = id,
         v.conn[k].token = t, ~v.conn[k].leaked,
         \A d \in Clients :
           /\ SameClient(w.client[d], v.client[d])
           /\ v.client[d].router = IF d = c THEN Append(w.client[d].router, k)
                                            ELSE w.client[d].router
  PROVE  Sound(v) /\ Grows(w, v)
<1>1. Slab(w) /\ Open(w) /\ Routes(w) /\ Turns(w) /\ Watched(w) /\ w.panic = "none" /\ w \in Worlds
  BY DEF Sound
<1>2. /\ v \in Worlds /\ v.current \in Clients \cup {None}
      /\ v.tokens_to_remove = w.tokens_to_remove /\ v.panic = w.panic
      /\ v.registered = w.registered \cup {Conn(k)} /\ w.handlers[t] = None
  BY DEF Registers, Worlds
<1>3. \A u \in Tokens : v.handlers[u] = IF u = t THEN Conn(k) ELSE w.handlers[u]
  BY <1>1 DEF Registers, Worlds
<1>4. \A u \in Tokens : w.handlers[u] # Conn(k)
  BY <1>1 DEF Slab
<1>5. t \notin w.tokens_to_remove
  BY <1>1, <1>2 DEF Slab
<1>6. \A d \in Clients : /\ v.client[d].state = w.client[d].state
                         /\ v.client[d].token = w.client[d].token
                         /\ v.client[d].filled = w.client[d].filled
                         /\ v.client[d].interests = w.client[d].interests
  BY DEF SameClient
<1>7. Slab(v)
  <2>1. \E u \in Tokens : v.handlers[u] = server
    BY <1>1, <1>2, <1>3, Objects DEF Slab
  <2>2. \A u \in Tokens : v.handlers[u] \in {server, None} => u \notin v.tokens_to_remove
    BY <1>1, <1>2, <1>3, Objects DEF Slab
  <2>3. ASSUME NEW u \in Tokens, NEW d \in Clients, v.handlers[u] = Client(d)
        PROVE  /\ v.client[d].token = u /\ v.client[d].state # "absent"
               /\ u \in v.tokens_to_remove <=> v.client[d].state = "closed"
    <3>1. w.handlers[u] = Client(d)
      BY <1>3, <2>3, Objects
    <3> QED BY <1>1, <1>2, <1>6, <3>1 DEF Slab
  <2>4. ASSUME NEW u \in Tokens, NEW j \in Conns, v.handlers[u] = Conn(j)
        PROVE  /\ v.conn[j].token = u /\ v.conn[j].state # "free"
               /\ u \in v.tokens_to_remove <=> v.conn[j].state = "closed" /\ ~v.conn[j].leaked
    <3>1. CASE u = t
      <4>1. j = k
        BY <1>3, <2>4, <3>1, Objects
      <4> QED BY <1>2, <1>5, <3>1, <4>1
    <3>2. CASE u # t
      <4>1. w.handlers[u] = Conn(j) /\ j # k
        BY <1>3, <1>4, <2>4, <3>2
      <4> QED BY <1>1, <1>2, <4>1 DEF Slab
    <3> QED BY <3>1, <3>2
  <2>5. \A d \in Clients : v.client[d].state = "open" =>
          v.client[d].token \in Tokens /\ v.handlers[v.client[d].token] = Client(d)
    BY <1>1, <1>2, <1>3, <1>6, Objects DEF Slab
  <2>6. ASSUME NEW j \in Conns, v.conn[j].state # "free"
        PROVE  v.conn[j].token \in Tokens /\ v.handlers[v.conn[j].token] = Conn(j)
    <3>1. CASE j = k
      BY <1>3, <3>1
    <3>2. CASE j # k
      <4>1. w.conn[j].token \in Tokens /\ w.handlers[w.conn[j].token] = Conn(j)
        BY <1>1, <2>6, <3>2 DEF Slab
      <4> QED BY <1>2, <1>3, <3>2, <4>1, Objects
    <3> QED BY <3>1, <3>2
  <2>7. ASSUME NEW j \in Conns, v.conn[j].leaked PROVE v.conn[j].state = "closed"
    <3>1. j # k
      BY <2>7
    <3> QED BY <1>1, <2>7, <3>1 DEF Slab
  <2> QED BY <2>1, <2>2, <2>3, <2>4, <2>5, <2>6, <2>7 DEF Slab
<1>8. Open(v)
  <2>1. \A d \in Clients : d \in v.clients <=> v.client[d].state = "open"
    BY <1>1, <1>6 DEF Open
  <2>2. ASSUME NEW o \in Object
        PROVE  o \in v.registered <=>
                 \/ o = server
                 \/ \E d \in Clients : o = Client(d) /\ v.client[d].state = "open"
                 \/ \E j \in Conns : o = Conn(j) /\ v.conn[j].state = "open"
    <3>1. o \in w.registered <=>
                 \/ o = server
                 \/ \E d \in Clients : o = Client(d) /\ w.client[d].state = "open"
                 \/ \E j \in Conns : o = Conn(j) /\ w.conn[j].state = "open"
      BY <1>1 DEF Open
    <3> QED BY <1>2, <1>6, <3>1, Objects
  <2> QED BY <2>1, <2>2 DEF Open
<1>9. Routes(v)
  <2> DEFINE s == w.client[c].router
  <2>0. s \in Seq(Conns) /\ Distinct(s) /\ \A d \in Clients : Range(w.client[d].router) \subseteq Conns
    BY RoutedOpen
  <2>1. \A d \in Clients : k \notin Range(w.client[d].router)
    BY <1>1 DEF Routes
  <2>2. /\ v.client[c].router = Append(s, k) /\ Append(s, k) \in Seq(Conns)
        /\ Distinct(Append(s, k))
        /\ \A j \in Conns : j \in Range(Append(s, k)) <=> j \in Range(s) \/ j = k
    BY <2>0, <2>1, AppendRange
  <2>3. \A d \in Clients : Range(v.client[d].router) \subseteq Conns
    <3>1. \A d \in Clients : v.client[d].router \in Seq(Conns)
      BY <1>2 DEF Worlds, ClientState
    <3> QED BY <3>1 DEF Range
  <2>4. \A d \in Clients, j \in Conns :
          j \in Range(v.client[d].router) <=> j \in Range(w.client[d].router) \/ (d = c /\ j = k)
    BY <2>1, <2>2
  <2> HIDE DEF s
  <2>5. \A d \in Clients : v.client[d].state # "open" => v.client[d].router = << >>
    BY <1>1, <1>6 DEF Routes
  <2>6. ASSUME NEW d \in Clients PROVE Distinct(v.client[d].router)
    <3>1. CASE d = c
      BY <2>2, <3>1
    <3>2. CASE d # c
      <4>1. v.client[d].router = w.client[d].router
        BY <3>2
      <4> QED BY <1>1, <4>1 DEF Routes
    <3> QED BY <3>1, <3>2
  <2>7. ASSUME NEW d \in Clients, NEW j \in Range(v.client[d].router)
        PROVE  v.conn[j].state = "open" /\ v.conn[j].client = d
    <3>0. j \in Conns
      BY <2>3
    <3>1. CASE j = k
      BY <2>1, <2>4, <3>0, <3>1
    <3>2. CASE j # k
      BY <1>1, <2>4, <3>0, <3>2 DEF Routes
    <3> QED BY <3>1, <3>2
  <2>8. ASSUME NEW j \in Conns, v.conn[j].state = "open"
        PROVE  v.conn[j].client \in Clients /\ j \in Range(v.client[v.conn[j].client].router)
    <3>1. CASE j = k
      BY <2>4, <3>1
    <3>2. CASE j # k
      <4>1. w.conn[j].client \in Clients /\ j \in Range(w.client[w.conn[j].client].router)
        BY <1>1, <2>8, <3>2 DEF Routes
      <4> QED BY <2>4, <3>2, <4>1
    <3> QED BY <3>1, <3>2
  <2>9. ASSUME NEW d \in Clients, NEW j \in Range(v.client[d].router),
               NEW l \in Range(v.client[d].router), v.conn[j].id = v.conn[l].id
        PROVE  j = l
    <3>0. j \in Conns /\ l \in Conns
      BY <2>3
    <3>1. CASE j # k /\ l # k
      BY <1>1, <2>4, <2>9, <3>0, <3>1 DEF Routes
    <3>2. CASE j = k /\ l # k
      <4>1. d = c /\ l \in Range(w.client[c].router)
        BY <2>1, <2>4, <3>0, <3>2
      <4> QED BY <2>9, <3>0, <3>2, <4>1
    <3>3. CASE j # k /\ l = k
      <4>1. d = c /\ j \in Range(w.client[c].router)
        BY <2>1, <2>4, <3>0, <3>3
      <4> QED BY <2>9, <3>0, <3>3, <4>1
    <3> QED BY <3>1, <3>2, <3>3
  <2> QED BY <2>5, <2>6, <2>7, <2>8, <2>9 DEF Routes
<1>10. Turns(v) /\ Watched(v) /\ v.panic = "none"
  BY <1>1, <1>2, <1>6 DEF Turns, Watched
<1>11. Grows(w, v)
  BY <1>2, <1>3 DEF Grows
<1> QED BY <1>2, <1>7, <1>8, <1>9, <1>10, <1>11 DEF Sound

\* create_connection() is sound, and the connection is the last of the router.
LEMMA CreateConnection ==
  ASSUME NEW w, Sound(w), NEW t \in Tokens, w.handlers[t] = None, NEW c \in Clients,
         NEW k \in Conns, NEW id \in Ids, w.client[c].state = "open", w.conn[k].state = "free",
         \A j \in Range(w.client[c].router) : w.conn[j].id # id
  PROVE  LET v == create_connection(w, c, id, k, t)
         IN /\ Sound(v) /\ Grows(w, v) /\ v.current = w.current
            /\ Len(v.client[c].router) \in DOMAIN v.client[c].router
<1> DEFINE n == [NoConn EXCEPT !.state = "open", !.client = c, !.id = id, !.token = t]
           cs == [w.conn EXCEPT ![k] = n]
           q == Append(w.client[c].router, k)
           a == [w.client[c] EXCEPT !.router = q]
           cl == [w.client EXCEPT ![c] = a]
           x == [w EXCEPT !.conn[k] = n, !.client[c].router = Append(@, k)]
           h == [w.handlers EXCEPT ![t] = Conn(k)]
           v == create_connection(w, c, id, k, t)
<1>0. /\ w \in Worlds /\ w.client \in [Clients -> ClientState] /\ w.client[c] \in ClientState
      /\ w.conn \in [Conns -> ConnState] /\ w.handlers \in [Tokens -> Object \cup {None}]
  BY DEF Sound, Worlds
<1>1. /\ n \in ConnState /\ n.state = "open" /\ n.client = c /\ n.id = id /\ n.token = t
      /\ ~n.leaked
  BY DEF NoConn, ConnState
<1>2. /\ q \in Seq(Conns) /\ Len(q) \in DOMAIN q
  BY RoutedOpen, AppendRange
<1>3. v = register(x, Conn(k), t)
  BY DEF create_connection
<1> HIDE DEF n, q
<1>4. a \in ClientState /\ SameClient(w.client[c], a) /\ a.router = q
  BY <1>0, <1>2 DEF ClientState, SameClient
<1>5. x = [w EXCEPT !.conn = cs, !.client = cl]
  BY <1>0 DEF Worlds, q
<1> HIDE DEF a, x
<1>6. /\ cs \in [Conns -> ConnState] /\ \A j \in Conns : cs[j] = IF j = k THEN n ELSE w.conn[j]
      /\ cl \in [Clients -> ClientState]
      /\ \A d \in Clients : cl[d] = IF d = c THEN a ELSE w.client[d]
  BY <1>0, <1>1, <1>4
<1> HIDE DEF cs, cl
<1>7. /\ x \in Worlds /\ x.client = cl /\ x.conn = cs /\ x.handlers = w.handlers
      /\ x.tokens_to_remove = w.tokens_to_remove /\ x.registered = w.registered
      /\ x.backlog = w.backlog /\ x.next_client_id = w.next_client_id
      /\ x.clients = w.clients /\ x.current = w.current /\ x.panic = w.panic
  BY <1>0, <1>5, <1>6 DEF Worlds
<1>8. h \in [Tokens -> Object \cup {None}] /\ Conn(k) \in Object
  BY <1>0, Objects
<1>9. [x.handlers EXCEPT ![t] = Conn(k)] = h
  BY <1>7
<1>10. v = [x EXCEPT !.handlers = h, !.registered = @ \cup {Conn(k)}]
  BY <1>3, <1>9 DEF register
<1> HIDE DEF h, v
<1>11. /\ v \in Worlds /\ v.client = cl /\ v.conn = cs /\ v.handlers = h
       /\ v.tokens_to_remove = w.tokens_to_remove
       /\ v.registered = w.registered \cup {Conn(k)}
       /\ v.backlog = w.backlog /\ v.next_client_id = w.next_client_id
       /\ v.clients = w.clients /\ v.current = w.current /\ v.panic = w.panic
  BY <1>7, <1>8, <1>10 DEF Worlds
<1>12. Registers(w, v, Conn(k), t)
  BY <1>11 DEF Registers, h
<1>13. ASSUME NEW d \in Clients
       PROVE  /\ SameClient(w.client[d], v.client[d])
              /\ v.client[d].router = IF d = c THEN Append(w.client[d].router, k)
                                               ELSE w.client[d].router
  <2>1. CASE d = c
    BY <1>4, <1>6, <1>11, <2>1 DEF q
  <2>2. CASE d # c
    BY <1>6, <1>11, <2>2 DEF SameClient
  <2> QED BY <2>1, <2>2
<1>14. /\ \A j \in Conns : j # k => v.conn[j] = w.conn[j]
       /\ v.conn[k] = n
  BY <1>6, <1>11
<1>15. Sound(v) /\ Grows(w, v)
  BY <1>1, <1>11, <1>12, <1>13, <1>14, NewConnSound, SMTT(40)
<1>16. v.client[c].router = q
  BY <1>4, <1>6, <1>11
<1> QED BY <1>2, <1>11, <1>15, <1>16 DEF v

\* The connection at index i handles a packet.
LEMMA Forward ==
  ASSUME NEW w, Sound(w), NEW c \in Clients, NEW i \in DOMAIN w.client[c].router,
         NEW closes, NEW fails
  PROVE  LET v == forward(w, c, i, closes, fails) IN Sound(v) /\ Grows(w, v)
<1> DEFINE k == w.client[c].router[i]
           f == IF fails THEN {k} ELSE {}
<1>1. CASE closes
  <2>1. forward(w, c, i, closes, fails)
          = [close_all(w, {k}, f) EXCEPT !.client[c].router = swap_remove(@, i)]
    BY <1>1, SMTT(40) DEF forward, close_connection
  <2> HIDE DEF f
  <2>2. LET v == [close_all(w, {k}, f) EXCEPT !.client[c].router = swap_remove(@, i)]
        IN Sound(v) /\ Grows(w, v)
    BY DropOne
  <2> QED BY <2>1, <2>2
<1>2. CASE ~closes
  <2>1. forward(w, c, i, closes, fails) = [w EXCEPT !.idle = @ \ {k}]
    BY <1>2 DEF forward
  <2>2. Sound([w EXCEPT !.idle = @ \ {k}]) /\ Grows(w, [w EXCEPT !.idle = @ \ {k}])
    BY SetIdle
  <2> QED BY <2>1, <2>2
<1> QED BY <1>1, <1>2

\* clean_up() closes the idle connections, and only them.
LEMMA CleanUp ==
  ASSUME Sound(World), NEW failing
  PROVE  LET cleaned == [c \in clients |-> clean_expired_connections(client[c].router, idle)]
             ks == UNION {cleaned[c].closed : c \in clients}
             v == [close_all(World, ks, failing) EXCEPT
                     !.client = [c \in Clients |-> IF c \in clients
                                   THEN [client[c] EXCEPT !.router = cleaned[c].left]
                                   ELSE client[c]]]
         IN /\ Sound(v) /\ Grows(World, v) /\ Dropped(World, v, ks, failing)
            /\ v.current = current
            /\ \A k \in Conns : k \in ks <=> k \in idle /\ conn[k].state = "open"
<1> DEFINE w == World
           cleaned == [c \in clients |-> clean_expired_connections(client[c].router, idle)]
           ks == UNION {cleaned[c].closed : c \in clients}
           u == close_all(World, ks, failing)
           cl == [c \in Clients |-> IF c \in clients
                    THEN [client[c] EXCEPT !.router = cleaned[c].left] ELSE client[c]]
           v == [u EXCEPT !.client = cl]
<1>0. /\ w.client = client /\ w.conn = conn /\ w.clients = clients /\ w.idle = idle
      /\ w.current = current
  BY DEF World
<1> HIDE DEF w
<1>s. Sound(w)
  BY DEF w
<1>1. /\ w \in Worlds /\ Open(w) /\ Routes(w) /\ Slab(w) /\ client \in [Clients -> ClientState]
      /\ clients \subseteq Clients
  BY <1>s, <1>0 DEF Sound, Worlds
<1>2. \A c \in Clients : /\ client[c].router \in Seq(Conns) /\ Distinct(client[c].router)
                         /\ Range(client[c].router) \subseteq Conns
                         /\ \A k \in Range(client[c].router) :
                              conn[k].state = "open" /\ conn[k].token \in Tokens
  BY <1>s, <1>0, RoutedOpen
<1>3. ASSUME NEW c \in clients
      PROVE  /\ cleaned[c].closed = {k \in Range(client[c].router) : k \in idle}
             /\ Thinned(client[c].router, cleaned[c].left, cleaned[c].closed)
  <2> DEFINE s == client[c].router
  <2>1. s \in Seq(Conns) /\ Distinct(s)
    BY <1>1, <1>2
  <2>2. cleaned[c] = clean_expired_connections(s, idle)
    OBVIOUS
  <2> HIDE DEF s, cleaned
  <2>3. LET r == clean_expired_connections(s, idle)
        IN /\ r.closed = {k \in Range(s) : k \in idle} /\ Thinned(s, r.left, r.closed)
    BY <2>1, CleanExpired
  <2> QED BY <2>2, <2>3 DEF s
<1> HIDE DEF cleaned
<1>4. /\ ks \in SUBSET Conns
      /\ \A k \in ks : k \in idle /\ conn[k].state = "open" /\ conn[k].token \in Tokens
      /\ \A c \in clients : \A k \in Range(client[c].router) : k \in idle => k \in ks
  BY <1>1, <1>2, <1>3
<1>5. ASSUME NEW k \in Conns, k \in idle, conn[k].state = "open" PROVE k \in ks
  <2>1. conn[k].client \in Clients /\ k \in Range(client[conn[k].client].router)
    BY <1>0, <1>1, <1>5 DEF Routes
  <2>2. client[conn[k].client].router # << >>
    BY <1>2, <2>1, EmptyRange
  <2>3. conn[k].client \in clients
    BY <1>0, <1>1, <2>1, <2>2 DEF Routes, Open
  <2> QED BY <1>4, <1>5, <2>1, <2>3
<1> HIDE DEF ks
<1>6. u \in Worlds /\ CloseFields(w, u, ks, failing) /\ u.client = client
  <2>1. \A k \in ks : w.conn[k].token \in Tokens
    BY <1>0, <1>4
  <2>2. LET x == close_all(w, ks, failing)
        IN x \in Worlds /\ CloseFields(w, x, ks, failing) /\ x.client = w.client
    BY <1>1, <1>4, <2>1, CloseAll
  <2> QED BY <1>0, <2>2 DEF w
<1>7. ASSUME NEW c \in Clients
      PROVE  /\ cl[c] \in ClientState /\ SameClient(client[c], cl[c])
             /\ Thinned(client[c].router, cl[c].router, ks)
  <2>0. client[c] \in ClientState
    BY <1>1
  <2>1. CASE c \in clients
    <3> DEFINE q == cleaned[c].left
    <3>1. cl[c] = [client[c] EXCEPT !.router = q]
      BY <2>1
    <3>2. Thinned(client[c].router, q, cleaned[c].closed)
      BY <1>3, <2>1
    <3>3. \A k \in Range(client[c].router) : k \in ks <=> k \in cleaned[c].closed
      BY <1>3, <1>4, <2>1
    <3> HIDE DEF q, cl
    <3>4. Thinned(client[c].router, q, ks)
      BY <3>2, <3>3 DEF Thinned
    <3>5. q \in Seq(Conns)
      BY <3>4 DEF Thinned
    <3>6. cl[c] \in ClientState /\ SameClient(client[c], cl[c]) /\ cl[c].router = q
      BY <2>0, <3>1, <3>5 DEF ClientState, SameClient
    <3> QED BY <3>4, <3>6
  <2>2. CASE c \notin clients
    <3>1. cl[c] = client[c]
      BY <2>2
    <3>2. client[c].router = << >>
      BY <1>0, <1>1, <2>2 DEF Routes, Open
    <3>3. Range(client[c].router) = {}
      BY <1>2, <3>2, EmptyRange
    <3> HIDE DEF cl
    <3>4. Thinned(client[c].router, client[c].router, ks)
      BY <1>2, <3>3, ThinnedSame
    <3> QED BY <2>0, <3>1, <3>4 DEF SameClient
  <2> QED BY <2>1, <2>2
<1>8. cl \in [Clients -> ClientState]
  BY <1>7
<1> HIDE DEF cl, u
<1>9. /\ v \in Worlds /\ v.client = cl /\ v.current = u.current /\ v.conn = u.conn
      /\ v.handlers = u.handlers /\ v.tokens_to_remove = u.tokens_to_remove
      /\ v.registered = u.registered /\ v.backlog = u.backlog /\ v.idle = u.idle
      /\ v.next_client_id = u.next_client_id /\ v.clients = u.clients /\ v.panic = u.panic
  BY <1>6, <1>8 DEF Worlds
<1> HIDE DEF v
<1>10. CloseFields(w, v, ks, failing)
  BY <1>6, <1>9 DEF CloseFields
<1>11. Dropped(w, v, ks, failing)
  BY <1>0, <1>7, <1>9, <1>10 DEF Dropped
<1>12. Sound(v) /\ Grows(w, v)
  <2>1. \A k \in ks : w.conn[k].state = "open"
    BY <1>0, <1>4
  <2> QED BY <1>s, <1>4, <1>11, <2>1, DroppedSound
<1>13. v.current = current
  BY <1>0, <1>10 DEF CloseFields
<1>14. \A k \in Conns : k \in ks <=> k \in idle /\ conn[k].state = "open"
  BY <1>4, <1>5
<1> QED BY <1>11, <1>12, <1>13, <1>14 DEF v, u, cl, ks, cleaned, w

-----------------------------------------------------------------------------
(***************************************************************************)
(* The steps of the loop.                                                  *)
(***************************************************************************)
\* The fields of the current world, and its type.
LEMMA WorldFields ==
  /\ World.handlers = handlers /\ World.tokens_to_remove = tokens_to_remove
  /\ World.registered = registered /\ World.backlog = backlog
  /\ World.next_client_id = next_client_id /\ World.clients = clients
  /\ World.client = client /\ World.conn = conn /\ World.idle = idle
  /\ World.current = current /\ World.panic = panic
  BY DEF World

\* What is left of TypeOK beside the type of the world.
Rest == edge \in BOOLEAN /\ batch \subseteq Event /\ phase \in {"poll", "clean", "run"}

\* A handler's world is the next state.
LEMMA BecomesWorld ==
  ASSUME NEW w \in Worlds, Becomes(w)
  PROVE  World' = w
  BY DEF Becomes, World, Worlds

\* It keeps the types.
LEMMA WorldTyped ==
  ASSUME NEW w \in Worlds, Becomes(w), Rest'
  PROVE  TypeOK'
<1>1. /\ handlers' \in [Tokens -> Object \cup {None}]
      /\ tokens_to_remove' \subseteq Tokens /\ registered' \subseteq Object
      /\ backlog' \in Nat /\ next_client_id' \in Nat /\ clients' \subseteq Clients
      /\ client' \in [Clients -> ClientState] /\ conn' \in [Conns -> ConnState]
      /\ idle' \subseteq Conns /\ current' \in Clients \cup {None} /\ panic' \in Panics
  BY DEF Worlds, Becomes
<1> QED BY <1>1 DEF TypeOK, Rest

\* A step to a sound world keeps the invariant if the batch still finds its objects.
LEMMA WorldStep ==
  ASSUME NEW w, Sound(w), Becomes(w), Rest', DispatchesToOwner',
         phase' # "run" => w.tokens_to_remove = {} /\ w.current = None
  PROVE  Live'
<1>1. w \in Worlds
  BY DEF Sound
<1>2. Sound(World')
  BY <1>1, BecomesWorld
<1>3. TypeOK'
  BY <1>1, WorldTyped
<1>4. phase' # "run" => tokens_to_remove' = {} /\ current' = None
  BY DEF Becomes
<1> QED BY <1>2, <1>3, <1>4 DEF Live

\* The batch finds its objects when it only shrinks and tokens keep their objects.
LEMMA OwnersStay ==
  ASSUME Live, NEW w, Grows(World, w), Becomes(w), batch' \subseteq batch
  PROVE  DispatchesToOwner'
<1> SUFFICES ASSUME NEW e \in batch' PROVE handlers'[e.token] = e.object
  BY DEF DispatchesToOwner
<1>1. e \in batch /\ e \in Event /\ handlers[e.token] = e.object
  BY DEF Live, TypeOK, DispatchesToOwner
<1>2. e.token \in Tokens /\ e.object # None
  BY <1>1, RelayAssumption DEF Event
<1> QED BY <1>1, <1>2, WorldFields DEF Grows, Becomes

\* The world that a handler leaves.
LEMMA HandlerStep ==
  ASSUME Live, NEW w, Sound(w), Grows(World, w), Becomes(w), Rest', batch' \subseteq batch,
         phase' # "run" => w.tokens_to_remove = {} /\ w.current = None
  PROVE  Live'
  BY OwnersStay, WorldStep

\* A step that stops the relay.
LEMMA HaltStep ==
  ASSUME Live, NEW w, Halted(w), Grows(World, w), Becomes(w), Rest', batch' \subseteq batch,
         phase' = "run"
  PROVE  Stopped'
<1>1. w \in Worlds
  BY UnwrapFails DEF Halted
<1>2. World' = w /\ TypeOK' /\ DispatchesToOwner'
  BY <1>1, BecomesWorld, WorldTyped, OwnersStay
<1>3. Halted(World')
  BY <1>2
<1> QED BY <1>2, <1>3 DEF Stopped

\* The handler of an event of the batch.
LEMMA RunHandlerStep ==
  ASSUME Live, RunHandler
  PROVE  Live' \/ Stopped'
<1>1. PICK e \in batch, failing \in SUBSET Conns : run_handler(e, failing)
  BY DEF RunHandler
<1>2. PICK w \in on_ready(World, e, failing) : Becomes(w)
  BY <1>1 DEF run_handler
<1>3. /\ Sound(World) /\ World.handlers = handlers /\ World.current = None
      /\ e \in Event /\ handlers[e.token] = e.object
  BY <1>1, WorldFields DEF Live, TypeOK, DispatchesToOwner, run_handler
<1>4. e.token \in Tokens /\ World.handlers[e.token] # None
  BY <1>3, RelayAssumption DEF Event
<1>5. (Sound(w) \/ Halted(w)) /\ Grows(World, w)
  BY <1>2, <1>3, <1>4, OnReady
<1>6. Rest' /\ batch' \subseteq batch /\ phase' = "run"
  BY <1>1 DEF run_handler, Rest, Live, TypeOK
<1> QED BY <1>2, <1>5, <1>6, HandlerStep, HaltStep

\* The cleaning of the idle connections.
LEMMA CleanUpStep ==
  ASSUME Live, clean_up
  PROVE  Live'
<1>1. PICK failing \in SUBSET idle :
        LET cleaned == [c \in clients |-> clean_expired_connections(client[c].router, idle)]
        IN Becomes([close_all(World, UNION {cleaned[c].closed : c \in clients}, failing) EXCEPT
                      !.client = [c \in Clients |-> IF c \in clients
                                    THEN [client[c] EXCEPT !.router = cleaned[c].left]
                                    ELSE client[c]]])
  BY DEF clean_up
<1> DEFINE cleaned == [c \in clients |-> clean_expired_connections(client[c].router, idle)]
           ks == UNION {cleaned[c].closed : c \in clients}
           v == [close_all(World, ks, failing) EXCEPT
                   !.client = [c \in Clients |-> IF c \in clients
                                 THEN [client[c] EXCEPT !.router = cleaned[c].left]
                                 ELSE client[c]]]
<1>2. Sound(World)
  BY DEF Live
<1>3. Sound(v) /\ Grows(World, v)
  BY <1>2, CleanUp
<1>4. Becomes(v)
  BY <1>1
<1> HIDE DEF v
<1>5. Rest' /\ batch' \subseteq batch /\ phase' = "run"
  BY DEF clean_up, Rest, Live, TypeOK
<1> QED BY <1>3, <1>4, <1>5, HandlerStep

\* A packet of the client that is pushing.
LEMMA PushStep ==
  ASSUME Live, Push
  PROVE  Live'
<1>1. PICK id \in Ids, answers \in BOOLEAN, closes \in BOOLEAN, fails \in BOOLEAN :
        push_one_packet_to_network(id, answers, closes, fails)
  BY DEF Push
<1> DEFINE c == current
           w == IF answers THEN send_to_client(World, c) ELSE World
<1>2. /\ Sound(World) /\ c \in Clients /\ World.client[c].state = "open" /\ phase = "run"
  <2>1. Sound(World) /\ current # None /\ current \in Clients
    BY <1>1 DEF Live, TypeOK, push_one_packet_to_network
  <2> QED BY <1>1, <2>1, WorldFields DEF Sound, Turns, Live, TypeOK, push_one_packet_to_network
<1>3. /\ Sound(w) /\ Grows(World, w) /\ w.conn = conn /\ w.handlers = handlers
      /\ w.client[c].router = client[c].router /\ w.client[c].state = "open"
  <2>1. CASE answers
    BY <1>2, <2>1, SendToClient, WorldFields DEF Keeps, SameObjects
  <2>2. CASE ~answers
    BY <1>2, <2>2, WorldFields DEF Grows
  <2> QED BY <2>1, <2>2
<1>4. send_to_network(c, id, answers, closes, fails)
  BY <1>1 DEF push_one_packet_to_network
<1>5. Rest' /\ batch' \subseteq batch /\ phase' = "run"
  BY <1>1, <1>2 DEF push_one_packet_to_network, Rest, Live, TypeOK
<1>6. \/ \E i \in find_index(c, id) : Becomes(forward(w, c, i, closes, fails))
      \/ /\ find_index(c, id) = {}
         /\ \E k \in FreeConns, t \in VacantTokens :
              LET v == create_connection(w, c, id, k, t)
              IN Becomes(forward(v, c, Len(v.client[c].router), closes, fails))
  BY <1>4 DEF send_to_network
<1> HIDE DEF w, c
<1>7. ASSUME NEW i \in find_index(c, id), Becomes(forward(w, c, i, closes, fails)) PROVE Live'
  <2>1. i \in DOMAIN w.client[c].router
    BY <1>3 DEF find_index
  <2> DEFINE x == forward(w, c, i, closes, fails)
  <2>2. Sound(x) /\ Grows(w, x)
    BY <1>2, <1>3, <2>1, Forward
  <2> HIDE DEF x
  <2>3. Grows(World, x)
    BY <1>3, <2>2, GrowsTrans
  <2>4. Becomes(x)
    BY <1>7 DEF x
  <2> QED BY <1>5, <2>2, <2>3, <2>4, HandlerStep
<1>8. ASSUME find_index(c, id) = {}, NEW k \in FreeConns, NEW t \in VacantTokens,
             LET v == create_connection(w, c, id, k, t)
             IN Becomes(forward(v, c, Len(v.client[c].router), closes, fails))
      PROVE  Live'
  <2> DEFINE v == create_connection(w, c, id, k, t)
             n == Len(v.client[c].router)
             x == forward(v, c, n, closes, fails)
  <2>1. /\ k \in Conns /\ w.conn[k].state = "free" /\ t \in Tokens /\ w.handlers[t] = None
    BY <1>3 DEF FreeConns, VacantTokens
  <2>2. \A j \in Range(w.client[c].router) : w.conn[j].id # id
    BY <1>3, <1>8 DEF find_index, Range
  <2>3. Sound(v) /\ Grows(w, v) /\ n \in DOMAIN v.client[c].router
    BY <1>2, <1>3, <2>1, <2>2, CreateConnection
  <2>4. Becomes(x)
    BY <1>8
  <2> HIDE DEF v, n
  <2>5. Sound(x) /\ Grows(v, x)
    BY <1>2, <2>3, Forward
  <2> HIDE DEF x
  <2>6. Grows(World, x)
    BY <1>3, <2>3, <2>5, GrowsTrans
  <2> QED BY <1>5, <2>4, <2>5, <2>6, HandlerStep
<1> QED BY <1>6, <1>7, <1>8

\* The last packet was pushed.
LEMMA PushEndStep ==
  ASSUME Live, PushEnd
  PROVE  Live'
<1> DEFINE v == [World EXCEPT !.current = None]
           x == update_interests(v, current)
<1>1. Sound(World) /\ current # None /\ current \in Clients /\ phase = "run"
  BY DEF Live, TypeOK, PushEnd
<1>2. Becomes(x)
  BY DEF PushEnd
<1>3. Sound(v) /\ Grows(World, v)
  BY <1>1, SetCurrent
<1> HIDE DEF v
<1>4. Sound(x) /\ Grows(v, x)
  BY <1>1, <1>3, UpdateInterests DEF Keeps
<1> HIDE DEF x
<1>5. Grows(World, x)
  BY <1>3, <1>4, GrowsTrans
<1>6. Rest' /\ batch' \subseteq batch /\ phase' = "run"
  BY <1>1 DEF PushEnd, Rest, Live, TypeOK
<1> QED BY <1>2, <1>4, <1>5, <1>6, HandlerStep

\* Another device waits: its id is the next one.
LEMMA DeviceConnectStep ==
  ASSUME Live, DeviceConnect
  PROVE  Live'
<1> DEFINE w == World
           v == [w EXCEPT !.backlog = backlog + 1]
<1>1. Sound(w) /\ w \in Worlds /\ backlog \in Nat /\ next_client_id \in Nat
  BY DEF Live, TypeOK, Sound
<1>2. /\ w.handlers = handlers /\ w.tokens_to_remove = tokens_to_remove
      /\ w.registered = registered /\ w.backlog = backlog
      /\ w.next_client_id = next_client_id /\ w.clients = clients
      /\ w.client = client /\ w.conn = conn /\ w.idle = idle
      /\ w.current = current /\ w.panic = panic
  BY WorldFields
<1> HIDE DEF w
<1>3. /\ v \in Worlds /\ v.handlers = w.handlers /\ v.tokens_to_remove = w.tokens_to_remove
      /\ v.registered = w.registered /\ v.backlog = backlog + 1
      /\ v.next_client_id = w.next_client_id /\ v.clients = w.clients
      /\ v.client = w.client /\ v.conn = w.conn /\ v.idle = w.idle
      /\ v.current = w.current /\ v.panic = w.panic
  BY <1>1 DEF Worlds
<1> HIDE DEF v
<1>4. Becomes(v)
  BY <1>2, <1>3 DEF Becomes, DeviceConnect
<1>5. Slab(v) /\ Open(v) /\ Routes(v) /\ Watched(v) /\ v.panic = "none"
  BY <1>1, <1>3 DEF Sound, Slab, Open, Routes, Watched
<1>6. Turns(v)
  <2>1. ASSUME NEW n \in Nat, n < v.next_client_id + v.backlog PROVE n \in Clients
    <3>1. n < next_client_id + backlog \/ n = next_client_id + backlog
      BY <1>1, <1>2, <1>3, <2>1
    <3> QED BY <1>1, <1>2, <3>1 DEF Sound, Turns, DeviceConnect
  <2> QED BY <1>1, <1>3, <2>1 DEF Sound, Turns
<1>7. Sound(v) /\ Grows(World, v)
  BY <1>3, <1>5, <1>6 DEF Sound, Grows, w
<1>8. Rest' /\ batch' \subseteq batch
  BY DEF DeviceConnect, Rest, Live, TypeOK
<1>9. phase' # "run" => v.tokens_to_remove = {} /\ v.current = None
  BY <1>2, <1>3 DEF DeviceConnect, Live
<1> QED BY <1>4, <1>7, <1>8, <1>9, HandlerStep

\* A connection gets idle.
LEMMA ExpireStep ==
  ASSUME Live, NEW k \in Conns, Expire(k)
  PROVE  Live'
<1> DEFINE w == World
           v == [w EXCEPT !.idle = idle \cup {k}]
<1>1. Sound(w) /\ w \in Worlds /\ idle \subseteq Conns
  BY DEF Live, TypeOK, Sound
<1>2. /\ w.handlers = handlers /\ w.tokens_to_remove = tokens_to_remove
      /\ w.registered = registered /\ w.backlog = backlog
      /\ w.next_client_id = next_client_id /\ w.clients = clients
      /\ w.client = client /\ w.conn = conn /\ w.idle = idle
      /\ w.current = current /\ w.panic = panic
  BY WorldFields
<1> HIDE DEF w
<1>3. /\ v \in Worlds /\ v.handlers = w.handlers /\ v.tokens_to_remove = w.tokens_to_remove
      /\ v.registered = w.registered /\ v.backlog = w.backlog
      /\ v.next_client_id = w.next_client_id /\ v.clients = w.clients
      /\ v.client = w.client /\ v.conn = w.conn /\ v.idle = idle \cup {k}
      /\ v.current = w.current /\ v.panic = w.panic
  BY <1>1 DEF Worlds
<1> HIDE DEF v
<1>4. Becomes(v)
  BY <1>2, <1>3 DEF Becomes, Expire
<1>5. SameObjects(w, v)
  BY <1>3 DEF SameObjects
<1>6. Watched(v) /\ (v.current # None => v.client[v.current].state = "open")
  BY <1>1, <1>3 DEF Sound, Watched, Turns
<1>7. Sound(v) /\ Grows(w, v)
  BY <1>1, <1>3, <1>5, <1>6, TouchedSound
<1>8. Rest' /\ batch' \subseteq batch
  BY DEF Expire, Rest, Live, TypeOK
<1>9. phase' # "run" => v.tokens_to_remove = {} /\ v.current = None
  BY <1>2, <1>3 DEF Expire, Live
<1>10. Grows(World, v)
  BY <1>7 DEF w
<1> QED BY <1>4, <1>7, <1>8, <1>9, <1>10, HandlerStep

\* An event that is polled carries the token of its object.
LEMMA ReportsOwner ==
  ASSUME Live, NEW o \in registered, NEW e \in Reports(o)
  PROVE  e \in Event /\ handlers[e.token] = e.object
<1>1. /\ Slab(World) /\ Open(World) /\ o \in Object
      /\ client \in [Clients -> ClientState] /\ conn \in [Conns -> ConnState]
  BY DEF Live, Sound, TypeOK
<1>2. e.object = o /\ e.token = TokenOf(o)
  BY DEF Reports
<1>3. e.ready \in SUBSET Interest /\ e = [object |-> o, token |-> TokenOf(o), ready |-> e.ready]
  <2>1. CASE o = server
    BY <2>1, Objects DEF Reports, Interest
  <2>2. ASSUME NEW c \in Clients, o = Client(c)
        PROVE  e.ready \in SUBSET Interest /\ e = [object |-> o, token |-> TokenOf(o), ready |-> e.ready]
    <3>1. o.kind = "client" /\ o.n = c /\ client[c].interests \in SUBSET Interest
      BY <1>1, <2>2, Objects DEF ClientState
    <3> QED BY <3>1 DEF Reports
  <2>3. ASSUME NEW k \in Conns, o = Conn(k)
        PROVE  e.ready \in SUBSET Interest /\ e = [object |-> o, token |-> TokenOf(o), ready |-> e.ready]
    <3>1. o.kind = "connection"
      BY <2>3, Objects
    <3> QED BY <3>1 DEF Reports
  <2> QED BY <1>1, <2>1, <2>2, <2>3, Objects
<1>4. TokenOf(o) \in Tokens /\ handlers[TokenOf(o)] = o
  <2>1. CASE o = server
    <3>1. TokenOf(o) = CHOOSE t \in Tokens : handlers[t] = server
      BY <2>1, Objects DEF TokenOf
    <3>2. \E t \in Tokens : handlers[t] = server
      BY <1>1, WorldFields DEF Slab
    <3> QED BY <2>1, <3>1, <3>2
  <2>2. ASSUME NEW c \in Clients, o = Client(c) PROVE TokenOf(o) \in Tokens /\ handlers[TokenOf(o)] = o
    <3>1. TokenOf(o) = client[c].token
      BY <2>2, Objects DEF TokenOf
    <3>2. client[c].state = "open"
      BY <1>1, <2>2, Objects, WorldFields DEF Open
    <3> QED BY <1>1, <2>2, <3>1, <3>2, WorldFields DEF Slab
  <2>3. ASSUME NEW k \in Conns, o = Conn(k) PROVE TokenOf(o) \in Tokens /\ handlers[TokenOf(o)] = o
    <3>1. TokenOf(o) = conn[k].token
      BY <2>3, Objects DEF TokenOf
    <3>2. conn[k].state = "open"
      BY <1>1, <2>3, Objects, WorldFields DEF Open
    <3> QED BY <1>1, <2>3, <3>1, <3>2, WorldFields DEF Slab
  <2> QED BY <1>1, <2>1, <2>2, <2>3, Objects
<1> QED BY <1>1, <1>2, <1>3, <1>4 DEF Event

\* A poll fills the batch with events of what is registered.
LEMMA PollStep ==
  ASSUME Live, Poll
  PROVE  Live'
<1>1. PICK events \in SUBSET UNION {Reports(o) : o \in registered}, deadline \in BOOLEAN :
        poll(events, deadline)
  BY DEF Poll
<1>2. Sound(World) /\ tokens_to_remove = {} /\ current = None /\ edge \in BOOLEAN
  BY <1>1 DEF Live, TypeOK, poll
<1>3. Becomes(World)
  BY <1>1 DEF Becomes, World, poll
<1>4. \A e \in events : e \in Event /\ handlers[e.token] = e.object
  BY <1>1, ReportsOwner
<1>5. Rest'
  BY <1>1, <1>2, <1>4 DEF Rest, poll
<1>6. DispatchesToOwner'
  BY <1>1, <1>4 DEF DispatchesToOwner, poll
<1>7. World.tokens_to_remove = {} /\ World.current = None
  BY <1>2, WorldFields
<1> QED BY <1>2, <1>3, <1>5, <1>6, <1>7, WorldStep

\* The marked tokens are removed: those of the closed objects, except the connections
\* whose deregister failed.
LEMMA CleanRemovedStep ==
  ASSUME Live, clean_removed_tokens
  PROVE  Live'
<1> DEFINE w == World
           h == [t \in Tokens |-> IF t \in tokens_to_remove THEN None ELSE handlers[t]]
           f == Freed(h)
           v == [w EXCEPT !.handlers = h, !.conn = f, !.tokens_to_remove = {}, !.panic = "none"]
<1>1. Sound(w) /\ w \in Worlds /\ Slab(w) /\ Open(w) /\ Routes(w) /\ Turns(w) /\ Watched(w)
  BY DEF Live, Sound
<1>2. /\ w.handlers = handlers /\ w.tokens_to_remove = tokens_to_remove
      /\ w.registered = registered /\ w.backlog = backlog
      /\ w.next_client_id = next_client_id /\ w.clients = clients
      /\ w.client = client /\ w.conn = conn /\ w.idle = idle
      /\ w.current = current /\ w.panic = panic
  BY WorldFields
<1>3. /\ handlers \in [Tokens -> Object \cup {None}] /\ conn \in [Conns -> ConnState]
      /\ current = None
  BY DEF Live, TypeOK, clean_removed_tokens
<1> HIDE DEF w
<1>4. /\ h \in [Tokens -> Object \cup {None}]
      /\ \A t \in Tokens : h[t] = IF t \in tokens_to_remove THEN None ELSE handlers[t]
  BY <1>3
<1> HIDE DEF h
<1>5. ASSUME NEW k \in Conns
      PROVE  f[k] = IF conn[k].state = "closed" /\ ~conn[k].leaked THEN NoConn ELSE conn[k]
  <2>1. f[k] = IF conn[k].state = "closed" /\ Conn(k) \notin Range(h) THEN NoConn ELSE conn[k]
    BY DEF Freed
  <2>2. ASSUME conn[k].state = "closed" PROVE Conn(k) \in Range(h) <=> conn[k].leaked
    <3> DEFINE t == conn[k].token
    <3>1. t \in Tokens /\ handlers[t] = Conn(k) /\ (t \in tokens_to_remove <=> ~conn[k].leaked)
      BY <1>1, <1>2, <2>2 DEF Slab
    <3>2. \A u \in Tokens : handlers[u] = Conn(k) => u = t
      BY <1>1, <1>2 DEF Slab
    <3>3. Conn(k) # None
      BY Objects
    <3> HIDE DEF t
    <3>4. Conn(k) \in Range(h) <=> \E u \in Tokens : h[u] = Conn(k)
      BY <1>4 DEF Range
    <3> QED BY <1>4, <3>1, <3>2, <3>3, <3>4
  <2> QED BY <2>1, <2>2
<1>6. f \in [Conns -> ConnState]
  <2>1. NoConn \in ConnState
    BY DEF NoConn, ConnState
  <2>2. \A k \in Conns : f[k] \in ConnState
    BY <1>3, <1>5, <2>1
  <2>3. f = [k \in Conns |-> f[k]]
    BY DEF Freed
  <2> QED BY <2>2, <2>3
<1>7. handlers' = h /\ conn' = f
  BY DEF clean_removed_tokens, h
<1>n. NoConn.state = "free" /\ ~NoConn.leaked
  BY DEF NoConn
<1> HIDE DEF f
<1>8. /\ v \in Worlds /\ v.handlers = h /\ v.tokens_to_remove = {}
      /\ v.registered = w.registered /\ v.backlog = w.backlog
      /\ v.next_client_id = w.next_client_id /\ v.clients = w.clients
      /\ v.client = w.client /\ v.conn = f /\ v.idle = w.idle
      /\ v.current = w.current /\ v.panic = "none"
  BY <1>1, <1>4, <1>6 DEF Worlds, Panics
<1> HIDE DEF v
<1>9. \A t \in tokens_to_remove : handlers[t] # None
  BY <1>1, <1>2 DEF Slab, Worlds
<1>10. Becomes(v)
  <2>1. (\E t \in tokens_to_remove : handlers[t] = None) = FALSE
    BY <1>9
  <2>2. panic' = "none"
    BY <2>1 DEF clean_removed_tokens
  <2> QED BY <1>2, <1>7, <1>8, <2>2 DEF Becomes, clean_removed_tokens
<1>11. \A k \in Conns : conn[k].state = "open" => f[k] = conn[k]
  BY <1>5
<1>12. \A k \in Conns : f[k].state = "open" => conn[k].state = "open"
  BY <1>5, <1>n
<1>13. Slab(v)
  <2>1. \E t \in Tokens : v.handlers[t] = server
    BY <1>1, <1>2, <1>4, <1>8 DEF Slab
  <2>2. ASSUME NEW t \in Tokens, NEW c \in Clients, v.handlers[t] = Client(c)
        PROVE  /\ v.client[c].token = t /\ v.client[c].state # "absent"
               /\ t \in v.tokens_to_remove <=> v.client[c].state = "closed"
    <3>1. handlers[t] = Client(c) /\ t \notin tokens_to_remove
      BY <1>4, <1>8, <2>2, Objects
    <3> QED BY <1>1, <1>2, <1>8, <3>1 DEF Slab
  <2>3. ASSUME NEW t \in Tokens, NEW k \in Conns, v.handlers[t] = Conn(k)
        PROVE  /\ v.conn[k].token = t /\ v.conn[k].state # "free"
               /\ t \in v.tokens_to_remove <=> v.conn[k].state = "closed" /\ ~v.conn[k].leaked
    <3>1. handlers[t] = Conn(k) /\ t \notin tokens_to_remove
      BY <1>4, <1>8, <2>3, Objects
    <3>2. /\ conn[k].token = t /\ conn[k].state # "free"
          /\ ~(conn[k].state = "closed" /\ ~conn[k].leaked)
      BY <1>1, <1>2, <3>1 DEF Slab
    <3>3. f[k] = conn[k]
      BY <1>5, <3>2
    <3> QED BY <1>8, <3>2, <3>3
  <2>4. ASSUME NEW c \in Clients, v.client[c].state = "open"
        PROVE  v.client[c].token \in Tokens /\ v.handlers[v.client[c].token] = Client(c)
    <3>1. /\ client[c].token \in Tokens /\ handlers[client[c].token] = Client(c)
          /\ client[c].token \notin tokens_to_remove
      BY <1>1, <1>2, <1>8, <2>4 DEF Slab
    <3> QED BY <1>2, <1>4, <1>8, <3>1
  <2>5. ASSUME NEW k \in Conns, v.conn[k].state # "free"
        PROVE  v.conn[k].token \in Tokens /\ v.handlers[v.conn[k].token] = Conn(k)
    <3>1. f[k] = conn[k] /\ conn[k].state # "free" /\ ~(conn[k].state = "closed" /\ ~conn[k].leaked)
      BY <1>5, <1>8, <1>n, <2>5
    <3>2. /\ conn[k].token \in Tokens /\ handlers[conn[k].token] = Conn(k)
          /\ conn[k].token \notin tokens_to_remove
      BY <1>1, <1>2, <3>1 DEF Slab
    <3> QED BY <1>4, <1>8, <3>1, <3>2
  <2>6. ASSUME NEW k \in Conns, v.conn[k].leaked PROVE v.conn[k].state = "closed"
    <3>1. f[k] = conn[k]
      BY <1>5, <1>8, <1>n, <2>6
    <3> QED BY <1>1, <1>2, <1>8, <2>6, <3>1 DEF Slab
  <2> QED BY <1>8, <2>1, <2>2, <2>3, <2>4, <2>5, <2>6 DEF Slab
<1>14. Open(v)
  BY <1>1, <1>2, <1>8, <1>11, <1>12 DEF Open
<1>15. Routes(v)
  <2>1. \A c \in Clients : \A k \in Range(client[c].router) :
          k \in Conns /\ conn[k].state = "open" /\ conn[k].client = c /\ f[k] = conn[k]
    BY <1>1, <1>2, <1>11, RoutedOpen DEF Routes
  <2>2. ASSUME NEW k \in Conns, f[k].state = "open"
        PROVE  f[k].client \in Clients /\ k \in Range(client[f[k].client].router)
    BY <1>1, <1>2, <1>11, <1>12, <2>2 DEF Routes
  <2> QED BY <1>1, <1>2, <1>8, <2>1, <2>2 DEF Routes
<1>16. Turns(v) /\ Watched(v)
  BY <1>1, <1>8 DEF Turns, Watched
<1>17. Sound(v)
  BY <1>8, <1>13, <1>14, <1>15, <1>16 DEF Sound
<1>18. batch' = {} /\ Rest'
  BY DEF clean_removed_tokens, Rest, Live, TypeOK
<1>19. DispatchesToOwner'
  BY <1>18 DEF DispatchesToOwner
<1>20. v.tokens_to_remove = {} /\ v.current = None
  BY <1>2, <1>3, <1>8
<1> QED BY <1>10, <1>17, <1>18, <1>19, <1>20, WorldStep

\* The relay starts with its listener alone in the slab.
LEMMA InitInv == Init => Live
<1> SUFFICES ASSUME Init PROVE Live
  OBVIOUS
<1> DEFINE w == World
<1>1. PICK t \in Tokens : handlers = [u \in Tokens |-> IF u = t THEN server ELSE None]
  BY DEF Init
<1>2. /\ handlers \in [Tokens -> Object \cup {None}] /\ handlers[t] = server
      /\ \A u \in Tokens : handlers[u] \in {server, None}
  BY <1>1, Objects
<1>3. /\ client \in [Clients -> ClientState]
      /\ \A c \in Clients : /\ client[c].state = "absent" /\ client[c].router = << >>
                            /\ ~client[c].filled
  BY RelayAssumption DEF Init, ClientState
<1>4. conn \in [Conns -> ConnState] /\ \A k \in Conns : conn[k].state = "free" /\ ~conn[k].leaked
  BY DEF Init, NoConn, ConnState
<1>5. TypeOK
  BY <1>2, <1>3, <1>4, Objects DEF TypeOK, Init, Panics
<1>6. DispatchesToOwner /\ tokens_to_remove = {} /\ current = None
  BY DEF DispatchesToOwner, Init
<1>7. /\ w.handlers = handlers /\ w.tokens_to_remove = {}
      /\ w.registered = {server} /\ w.backlog = 0
      /\ w.next_client_id = 0 /\ w.clients = {}
      /\ w.client = client /\ w.conn = conn /\ w.current = None /\ w.panic = "none"
  BY WorldFields DEF Init
<1>8. w \in Worlds
  BY <1>5 DEF World, Worlds, TypeOK
<1> HIDE DEF w
<1>9. Slab(w)
  BY <1>2, <1>3, <1>4, <1>7, Objects DEF Slab
<1>10. Open(w)
  BY <1>3, <1>4, <1>7 DEF Open
<1>11. Routes(w)
  <2>1. \A c \in Clients : Range(client[c].router) = {} /\ DOMAIN client[c].router = {}
    BY <1>3 DEF Range
  <2> QED BY <1>3, <1>4, <1>7, <2>1 DEF Routes, Distinct
<1>12. Turns(w) /\ Watched(w)
  BY <1>3, <1>7 DEF Turns, Watched
<1> QED BY <1>5, <1>6, <1>7, <1>8, <1>9, <1>10, <1>11, <1>12 DEF Live, Sound, w

\* While the relay runs, every step leaves it running or stops it.
LEMMA LiveStep == Live /\ [Next]_vars => IInv'
<1> SUFFICES ASSUME Live, [Next]_vars PROVE Live' \/ Stopped'
  BY DEF IInv
<1>1. CASE DeviceConnect BY <1>1, DeviceConnectStep
<1>2. CASE Poll BY <1>2, PollStep
<1>3. CASE clean_up BY <1>3, CleanUpStep
<1>4. CASE RunHandler BY <1>4, RunHandlerStep
<1>5. CASE Push BY <1>5, PushStep
<1>6. CASE PushEnd BY <1>6, PushEndStep
<1>7. CASE clean_removed_tokens BY <1>7, CleanRemovedStep
<1>8. CASE \E k \in Conns : Expire(k) BY <1>8, ExpireStep
<1>9. CASE UNCHANGED vars
  <2>1. Sound(World) /\ Becomes(World) /\ Grows(World, World)
    BY <1>9 DEF Live, Becomes, World, vars, Grows
  <2>2. Rest' /\ batch' \subseteq batch
    BY <1>9 DEF Live, Rest, TypeOK, vars
  <2>3. phase' # "run" => World.tokens_to_remove = {} /\ World.current = None
    BY <1>9, WorldFields DEF Live, vars
  <2> QED BY <2>1, <2>2, <2>3, HandlerStep
<1> QED BY <1>1, <1>2, <1>3, <1>4, <1>5, <1>6, <1>7, <1>8, <1>9 DEF Next

\* Once it is stopped nothing happens any more.
LEMMA StoppedStep == Stopped /\ [Next]_vars => Stopped'
<1> SUFFICES ASSUME Stopped, [Next]_vars PROVE Stopped'
  OBVIOUS
<1>1. ~Running
  BY UnwrapFails, WorldFields DEF Stopped, Halted, Running
<1>2. UNCHANGED vars
  BY <1>1 DEF Next, DeviceConnect, Poll, poll, clean_up, RunHandler, run_handler, Push,
              push_one_packet_to_network, PushEnd, clean_removed_tokens, Expire
<1>3. World' = World /\ TypeOK' /\ DispatchesToOwner' /\ phase' = "run"
  BY <1>2 DEF vars, World, TypeOK, DispatchesToOwner, Stopped
<1>4. Halted(World')
  BY <1>3 DEF Stopped
<1> QED BY <1>3, <1>4 DEF Stopped

\* The invariant holds throughout.
LEMMA Invariance == Spec => []IInv
<1>1. Init => IInv
  BY InitInv DEF IInv
<1>2. IInv /\ [Next]_vars => IInv'
  BY LiveStep, StoppedStep DEF IInv
<1> QED BY <1>1, <1>2, PTL DEF Spec

-----------------------------------------------------------------------------
(***************************************************************************)
(* What the poll loop promises.                                            *)
(***************************************************************************)
\* Every field of the selector, the server, the clients and the connections keeps its
\* type, whatever the handlers of a batch do to each other.
THEOREM RelayTypeSafe == Spec => []TypeOK
<1>1. IInv => TypeOK BY DEF IInv, Live, Stopped
<1> QED BY <1>1, Invariance, PTL

\* run_handlers() hands an event to the object it was polled for: no handler that ran
\* before it in the batch removed the token or gave it to another object.
THEOREM RelayDispatches == Spec => []DispatchesToOwner
<1>1. IInv => DispatchesToOwner BY DEF IInv, Live, Stopped
<1> QED BY <1>1, Invariance, PTL

\* The selector, the router, the clients and the tunnel server find what they look up, a
\* token, a connection or a client, where an expect() or a panic!() asks for it.  The
\* unwrap() of a failed deregister in Client::close() is not a lookup.
THEOREM RelayLookupsSucceed == Spec => []LookupsSucceed
<1>1. Live => LookupsSucceed
  BY WorldFields DEF Live, Sound, LookupsSucceed
<1>2. Stopped => LookupsSucceed
  BY WorldFields, UnwrapFails DEF Stopped, Halted, LookupsSucceed
<1> QED BY <1>1, <1>2, Invariance, PTL DEF IInv

\* A world that was sound, as far as epoll and the routers are concerned.
LEMMA SoundRouted ==
  ASSUME NEW w, Sound(w), registered = w.registered, clients = w.clients, conn = w.conn,
         \A c \in Clients : client[c].router = w.client[c].router
  PROVE  RegisteredIsRouted
<1>0. /\ registered = w.registered /\ clients = w.clients /\ conn = w.conn
      /\ \A c \in Clients : client[c].router = w.client[c].router
  OBVIOUS
<1>1. /\ Sound(w) /\ Open(w) /\ Routes(w) /\ registered \subseteq Object
      /\ clients \subseteq Clients
  BY <1>0 DEF Sound, Worlds
<1>2. \A c \in Clients : /\ client[c].router \in Seq(Conns)
                         /\ Range(client[c].router) \subseteq Conns
  BY <1>1, RoutedOpen, <1>0
<1>3. {o \in registered : o.kind = "connection"}
        = {Conn(k) : k \in UNION {Routed(c) : c \in clients}}
  <2>1. ASSUME NEW o \in registered, o.kind = "connection"
        PROVE  \E c \in clients : \E k \in Routed(c) : o = Conn(k)
    <3>1. PICK k \in Conns : o = Conn(k) /\ conn[k].state = "open"
      <4>1. o \in Object /\ o # server /\ \A c \in Clients : o # Client(c)
        BY <1>1, <2>1, Objects
      <4> QED BY <1>1, <4>1, <1>0 DEF Open
    <3>2. conn[k].client \in Clients /\ k \in Range(client[conn[k].client].router)
      BY <1>1, <3>1, <1>0 DEF Routes
    <3>3. client[conn[k].client].router # << >>
      BY <1>2, <3>2, EmptyRange
    <3>4. conn[k].client \in clients
      BY <1>1, <3>2, <3>3, <1>0 DEF Routes, Open
    <3> QED BY <3>1, <3>2, <3>4 DEF Routed
  <2>2. ASSUME NEW c \in clients, NEW k \in Routed(c)
        PROVE  Conn(k) \in registered /\ Conn(k).kind = "connection"
    <3>1. c \in Clients /\ k \in Conns /\ conn[k].state = "open"
      BY <1>1, <1>2, <2>2, <1>0 DEF Routes, Routed
    <3>2. Conn(k) \in Object /\ Conn(k).kind = "connection"
      BY <3>1, Objects
    <3> QED BY <1>1, <3>1, <3>2, <1>0 DEF Open
  <2> QED BY <2>1, <2>2
<1>4. ASSUME NEW c \in Clients
      PROVE  /\ c \notin clients => client[c].router = << >>
             /\ \A k \in Routed(c) : conn[k].state = "open" /\ conn[k].client = c
  BY <1>1, <1>0 DEF Routes, Open, Routed
<1>5. ASSUME NEW c \in Clients, NEW i \in DOMAIN client[c].router,
             NEW j \in DOMAIN client[c].router,
             conn[client[c].router[i]].id = conn[client[c].router[j]].id
      PROVE  i = j
  <2>1. client[c].router[i] \in Range(client[c].router) /\ client[c].router[j] \in Range(client[c].router)
    BY <1>5 DEF Range
  <2>2. client[c].router[i] = client[c].router[j]
    BY <1>1, <1>5, <2>1, <1>0 DEF Routes
  <2> QED BY <1>1, <1>5, <2>2, <1>0 DEF Routes, Distinct
<1> QED BY <1>3, <1>4, <1>5 DEF RegisteredIsRouted

\* What epoll watches and what the routers hold are the same connections: none is left
\* registered after its client is gone, none is in a router twice, and an id of a client
\* finds one connection.
THEOREM RelayRegisteredIsRouted == Spec => []RegisteredIsRouted
<1>1. Live => RegisteredIsRouted
  BY WorldFields, SoundRouted DEF Live
<1>2. ASSUME Stopped PROVE RegisteredIsRouted
  <2>1. PICK w \in Worlds, c \in Clients :
          Sound(w) /\ w.client[c].state = "open" /\ World = unwrap_fails(w, c)
    BY <1>2 DEF Stopped, Halted
  <2>2. /\ registered = w.registered /\ clients = w.clients /\ conn = w.conn
        /\ \A d \in Clients : client[d].router = w.client[d].router
    BY <2>1, UnwrapFails, WorldFields
  <2> QED BY <2>1, <2>2, SoundRouted
<1> QED BY <1>1, <1>2, Invariance, PTL DEF IInv

\* Between two batches the slab holds what is registered and the connections whose
\* deregister failed: clean_removed_tokens() leaves no closed object behind, and drops
\* none that is open.
THEOREM RelayKeepsNothing == Spec => []NothingKeptAlive
<1>1. ASSUME Live, phase = "poll"
      PROVE  Range(handlers) \ {None}
               = registered \cup {Conn(k) : k \in {j \in Conns : conn[j].leaked}}
  <2>1. /\ Slab(World) /\ Open(World) /\ registered \subseteq Object /\ tokens_to_remove = {}
        /\ handlers \in [Tokens -> Object \cup {None}]
        /\ client \in [Clients -> ClientState] /\ conn \in [Conns -> ConnState]
    BY <1>1 DEF Live, Sound, TypeOK
  <2>2. \A o : o \in Range(handlers) <=> \E t \in Tokens : handlers[t] = o
    BY <2>1 DEF Range
  <2>3. ASSUME NEW t \in Tokens, handlers[t] # None
        PROVE  \/ handlers[t] \in registered
               \/ \E k \in Conns : conn[k].leaked /\ handlers[t] = Conn(k)
    <3>0. handlers[t] \in Object
      BY <2>1, <2>3
    <3>1. CASE handlers[t] = server
      BY <2>1, <3>1, Objects, WorldFields DEF Open
    <3>2. ASSUME NEW c \in Clients, handlers[t] = Client(c) PROVE handlers[t] \in registered
      <4>1. client[c].state # "absent" /\ client[c].state # "closed"
        BY <2>1, <3>2, WorldFields DEF Slab
      <4>2. client[c].state = "open"
        BY <2>1, <4>1 DEF ClientState
      <4> QED BY <2>1, <3>0, <3>2, <4>2, WorldFields DEF Open
    <3>3. ASSUME NEW k \in Conns, handlers[t] = Conn(k)
          PROVE  handlers[t] \in registered \/ conn[k].leaked
      <4>1. conn[k].state # "free" /\ ~(conn[k].state = "closed" /\ ~conn[k].leaked)
        BY <2>1, <3>3, WorldFields DEF Slab
      <4>2. conn[k].state = "open" \/ conn[k].leaked
        BY <2>1, <4>1 DEF ConnState
      <4> QED BY <2>1, <3>0, <3>3, <4>2, WorldFields DEF Open
    <3> QED BY <3>0, <3>1, <3>2, <3>3, Objects
  <2>4. ASSUME NEW o \in registered PROVE o # None /\ \E t \in Tokens : handlers[t] = o
    <3>1. o \in Object /\ o # None
      BY <2>1, RelayAssumption
    <3>2. \/ o = server
          \/ \E c \in Clients : o = Client(c) /\ client[c].state = "open"
          \/ \E k \in Conns : o = Conn(k) /\ conn[k].state = "open"
      BY <2>1, <3>1, WorldFields DEF Open
    <3>3. \E t \in Tokens : handlers[t] = server
      BY <2>1, WorldFields DEF Slab
    <3>4. \A c \in Clients : client[c].state = "open" => \E t \in Tokens : handlers[t] = Client(c)
      BY <2>1, WorldFields DEF Slab
    <3>5. \A k \in Conns : conn[k].state = "open" => \E t \in Tokens : handlers[t] = Conn(k)
      BY <2>1, WorldFields DEF Slab
    <3> QED BY <3>1, <3>2, <3>3, <3>4, <3>5
  <2>5. ASSUME NEW k \in Conns, conn[k].leaked
        PROVE  Conn(k) # None /\ \E t \in Tokens : handlers[t] = Conn(k)
    <3>1. conn[k].state = "closed"
      BY <2>1, <2>5, WorldFields DEF Slab
    <3>2. conn[k].token \in Tokens /\ handlers[conn[k].token] = Conn(k)
      BY <2>1, <3>1, WorldFields DEF Slab
    <3> QED BY <3>2, Objects
  <2> QED BY <2>2, <2>3, <2>4, <2>5
<1>2. IInv => NothingKeptAlive
  BY <1>1 DEF NothingKeptAlive, IInv, Stopped
<1> QED BY <1>2, Invariance, PTL

\* A client with bytes for its device is registered for writing: no path through
\* process() and send_to_client() leaves bytes that nothing will ever write.
THEOREM RelayWatchesBytes == Spec => []BytesAreWatched
<1>1. Live => BytesAreWatched
  BY WorldFields DEF Live, Sound, Watched, BytesAreWatched, TypeOK
<1>2. ASSUME Stopped PROVE BytesAreWatched
  <2>1. PICK w \in Worlds, c \in Clients :
          Sound(w) /\ w.client[c].state = "open" /\ World = unwrap_fails(w, c)
    BY <1>2 DEF Stopped, Halted
  <2>2. \A d \in Clients : /\ client[d].filled = w.client[d].filled
                           /\ client[d].interests = w.client[d].interests
    BY <2>1, UnwrapFails, WorldFields
  <2> QED BY <1>2, <2>1, <2>2 DEF Sound, Watched, BytesAreWatched, Stopped, TypeOK
<1> QED BY <1>1, <1>2, Invariance, PTL DEF IInv

\* clean_up() closes the idle connections of every client and takes them out of its
\* router, and touches no other: the downward walk with swap_remove() misses none.
THEOREM RelayCleansTheIdle == Spec => CleansTheIdle
<1> DEFINE A == phase = "clean" /\ phase' = "run" =>
                  /\ \A c \in Clients : Range(client'[c].router) = Routed(c) \ idle
                  /\ \A k \in Conns : conn[k].state = "open" =>
                       (conn'[k].state = "closed" <=> k \in idle)
<1>1. ASSUME Live, clean_up PROVE A
  <2>1. PICK failing \in SUBSET idle :
          LET cleaned == [c \in clients |-> clean_expired_connections(client[c].router, idle)]
          IN Becomes([close_all(World, UNION {cleaned[c].closed : c \in clients}, failing) EXCEPT
                        !.client = [c \in Clients |-> IF c \in clients
                                      THEN [client[c] EXCEPT !.router = cleaned[c].left]
                                      ELSE client[c]]])
    BY <1>1 DEF clean_up
  <2> DEFINE cleaned == [c \in clients |-> clean_expired_connections(client[c].router, idle)]
             ks == UNION {cleaned[c].closed : c \in clients}
             v == [close_all(World, ks, failing) EXCEPT
                     !.client = [c \in Clients |-> IF c \in clients
                                   THEN [client[c] EXCEPT !.router = cleaned[c].left]
                                   ELSE client[c]]]
  <2>2. Sound(World)
    BY <1>1 DEF Live
  <2>3. /\ Dropped(World, v, ks, failing)
        /\ \A k \in Conns : k \in ks <=> k \in idle /\ conn[k].state = "open"
    BY <2>2, CleanUp
  <2>4. client' = v.client /\ conn' = v.conn
    BY <2>1 DEF Becomes
  <2> HIDE DEF v, ks
  <2>5. ASSUME NEW c \in Clients PROVE Range(client'[c].router) = Routed(c) \ idle
    <3>1. Thinned(client[c].router, client'[c].router, ks)
      BY <2>3, <2>4, WorldFields DEF Dropped
    <3>2. \A k \in Range(client[c].router) : k \in Conns /\ conn[k].state = "open"
      BY <2>2, RoutedOpen, WorldFields
    <3>3. \A k \in Range(client[c].router) : k \in ks <=> k \in idle
      BY <2>3, <3>2
    <3>4. Range(client'[c].router) \subseteq Conns
      <4>1. client'[c].router \in Seq(Conns)
        BY <3>1 DEF Thinned
      <4> QED BY <4>1 DEF Range
    <3> QED BY <3>1, <3>2, <3>3, <3>4 DEF Thinned, Routed
  <2>6. ASSUME NEW k \in Conns, conn[k].state = "open"
        PROVE  conn'[k].state = "closed" <=> k \in idle
    <3>1. conn'[k].state = IF k \in ks THEN "closed" ELSE conn[k].state
      BY <2>3, <2>4, WorldFields DEF Dropped, CloseFields
    <3> QED BY <2>3, <2>6, <3>1
  <2> QED BY <2>5, <2>6
<1>2. ASSUME Next, phase = "clean", phase' = "run" PROVE clean_up
  BY <1>2 DEF Next, DeviceConnect, Poll, poll, RunHandler, run_handler, Push,
              push_one_packet_to_network, PushEnd, clean_removed_tokens, Expire
<1>3. IInv /\ [Next]_vars => [A]_vars
  BY <1>1, <1>2 DEF IInv, Stopped
<1>4. Spec => [][A]_vars
  BY <1>3, Invariance, PTL DEF Spec
<1> QED BY <1>4 DEF CleansTheIdle
=============================================================================
