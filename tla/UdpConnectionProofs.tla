------------------------ MODULE UdpConnectionProofs -------------------------
(***************************************************************************)
(* A UDP connection keeps the boundaries and the order of its datagrams,   *)
(* for every capacity, every base of the length field and all datagrams.   *)
(***************************************************************************)
EXTENDS UdpConnection, Lemmas

-----------------------------------------------------------------------------
(***************************************************************************)
(* Blocks: the two digits of a length, and where the bytes are.            *)
(***************************************************************************)
\* Two digits are a length below the square of the base.
LEMMA TwoDigits ==
  ASSUME NEW a \in Byte, NEW c \in Byte
  PROVE  a * Radix + c \in 0 .. MAX_DATAGRAM_LENGTH - 1
<1> DEFINE n == Radix
<1>1. n \in Nat /\ n > 1 /\ a \in Nat /\ c \in Nat /\ a <= n - 1 /\ c <= n - 1
  BY DatagramAssumption DEF Byte
<1> HIDE DEF n
<1>2. a * n \in Nat /\ a * n <= (n - 1) * n /\ (n - 1) * n = n * n - n /\ n * n \in Nat
  BY <1>1, Z3
<1>3. a * n + c \in 0 .. n * n - 1
  BY <1>1, <1>2
<1> QED BY <1>3 DEF n, MAX_DATAGRAM_LENGTH

\* The two digits that write_length() stores are those read_length() reads.
LEMMA DigitsOf ==
  ASSUME NEW n \in Nat, n < MAX_DATAGRAM_LENGTH
  PROVE  /\ (n \div Radix) % Radix \in Byte /\ n % Radix \in Byte
         /\ ((n \div Radix) % Radix) * Radix + (n % Radix) = n
<1> DEFINE R == Radix
           q == n \div R
           r == n % R
<1>1. R \in Nat \ {0} /\ R > 1
  BY DatagramAssumption
<1>2. n < R * R
  BY DEF MAX_DATAGRAM_LENGTH
<1> HIDE DEF R
<1>3. n = R * q + r /\ q \in Int /\ r \in 0 .. R - 1
  BY <1>1, Z3
<1> HIDE DEF q, r
<1>4. q >= 0
  <2> SUFFICES ASSUME q <= -1 PROVE FALSE
    BY <1>3
  <2>1. R * q <= -R
    BY <1>1, <1>3, Z3
  <2> QED BY <1>1, <1>3, <2>1
<1>5. q < R
  <2> SUFFICES ASSUME q >= R PROVE FALSE
    BY <1>1, <1>3
  <2>1. R * q >= R * R
    BY <1>1, <1>3, Z3
  <2>2. R * q \in Int /\ R * R \in Int
    BY <1>1, <1>3, Z3
  <2> QED BY <1>2, <1>3, <2>1, <2>2
<1>6. q % R = q
  BY <1>1, <1>3, <1>4, <1>5, ModSmall
<1>7. q * R + r = n
  BY <1>1, <1>3, Z3
<1>8. q % R \in 0 .. R - 1 /\ (q % R) * R + r = n
  BY <1>1, <1>3, <1>4, <1>5, <1>6, <1>7
<1>9. q = n \div Radix /\ r = n % Radix /\ R = Radix
  BY DEF q, r, R
<1>10. q % Radix \in Byte /\ r \in Byte /\ (q % Radix) * Radix + r = n
  BY <1>3, <1>8, Zenon DEF R, Byte
<1> QED BY <1>9, <1>10

\* The unwrapped end of the block at i.
stop(b, i) == i + HEADER_LENGTH + read_length(b, i)

\* A block that starts in the circular part lies within the array.
LEMMA BlockAt ==
  ASSUME NEW b \in Buffer, NEW i \in 0 .. Capacity
  PROVE  /\ i \in Cells /\ i + 1 \in Cells
         /\ read_length(b, i) \in Nat /\ read_length(b, i) < MAX_DATAGRAM_LENGTH
         /\ stop(b, i) \in Nat /\ stop(b, i) >= i + 2
         /\ \A k \in 1 .. read_length(b, i) : i + HEADER_LENGTH + k - 1 \in Cells
         /\ datagram(b, i) \in Seq(Byte) /\ Len(datagram(b, i)) = read_length(b, i)
         /\ block_end(b, i) \in 0 .. Capacity
         /\ block_end(b, i) = IF stop(b, i) > Capacity THEN 0 ELSE stop(b, i)
<1> DEFINE n == read_length(b, i)
           M == MAX_DATAGRAM_LENGTH
<1>0. b.buf \in [Cells -> Byte] /\ Capacity \in Nat /\ i \in Nat /\ i <= Capacity
  BY DatagramAssumption DEF Buffer
<1>1. M \in Nat /\ M >= 4
  <2>1. Radix \in Nat /\ Radix >= 2
    BY DatagramAssumption
  <2>2. Radix * Radix \in Nat /\ Radix * Radix >= 4
    BY <2>1, Z3
  <2> QED BY <2>2 DEF MAX_DATAGRAM_LENGTH
<1> HIDE DEF M
<1>2. \A k \in Nat : k <= Capacity + 2 + M - 1 => k \in Cells
  BY <1>0, <1>1 DEF Cells, MAX_BLOCK_LENGTH, HEADER_LENGTH, M
<1>3. i \in Cells /\ i + 1 \in Cells
  BY <1>0, <1>1, <1>2
<1>4. n \in 0 .. M - 1
  BY <1>0, <1>3, TwoDigits DEF read_length, M
<1> HIDE DEF n
<1>5. n \in Nat /\ n < M
  BY <1>1, <1>4
<1>6. \A k \in 1 .. n : i + HEADER_LENGTH + k - 1 \in Cells
  BY <1>0, <1>1, <1>2, <1>5 DEF HEADER_LENGTH
<1>7. datagram(b, i) \in Seq(Byte) /\ Len(datagram(b, i)) = n
  <2>1. datagram(b, i) = [k \in 1 .. n |-> b.buf[i + HEADER_LENGTH + k - 1]]
    BY DEF datagram, n
  <2>2. \A k \in 1 .. n : b.buf[i + HEADER_LENGTH + k - 1] \in Byte
    BY <1>0, <1>6
  <2>3. datagram(b, i) \in [1 .. n -> Byte]
    BY <2>1, <2>2
  <2> QED BY <1>5, <2>3
<1>8. stop(b, i) = i + 2 + n
  BY DEF stop, n, HEADER_LENGTH
<1>9. block_end(b, i) = IF stop(b, i) > Capacity THEN 0 ELSE stop(b, i)
  BY <1>0, <1>5, <1>8 DEF block_end, wrapped, circular_buffer_length, n, HEADER_LENGTH
<1>10. block_end(b, i) \in 0 .. Capacity
  BY <1>0, <1>5, <1>8, <1>9
<1> QED BY <1>0, <1>3, <1>4, <1>5, <1>6, <1>7, <1>8, <1>9, <1>10 DEF n, M

-----------------------------------------------------------------------------
(***************************************************************************)
(* The walk from tail to head.                                             *)
(***************************************************************************)
\* Following the function g from a, n times.
Follows(s, g, a, n) == s = [k \in 0 .. n |-> IF k = 0 THEN a ELSE g[s[k - 1]]]

\* It is well defined.
LEMMA FollowExists ==
  ASSUME NEW g, NEW a, NEW n \in Nat
  PROVE  \E s : Follows(s, g, a, n)
<1> USE DEF Follows
<1> DEFINE W(s, m) == Follows(s, g, a, m)
           T == {m \in Nat : \E s : W(s, m)}
<1>1. 0 \in T
  <2> DEFINE s == [k \in 0 .. 0 |-> a]
  <2>1. W(s, 0)
    BY \A k \in 0 .. 0 : k = 0
  <2> QED BY <2>1
<1>2. ASSUME NEW m \in Nat, m \in T PROVE m + 1 \in T
  <2>1. PICK s : W(s, m)
    BY <1>2
  <2> DEFINE u == [k \in 0 .. m + 1 |-> IF k \in 0 .. m THEN s[k] ELSE g[s[m]]]
  <2>2. ASSUME NEW k \in 0 .. m + 1
        PROVE  u[k] = IF k = 0 THEN a ELSE g[u[k - 1]]
    <3>1. CASE k = 0
      <4>1. 0 \in 0 .. m
        OBVIOUS
      <4> QED BY <2>1, <3>1, <4>1
    <3>2. CASE k # 0
      <4>1. k - 1 \in 0 .. m /\ k - 1 \in 0 .. m + 1 /\ (k \in 0 .. m \/ k - 1 = m)
        BY <3>2
      <4>2. u[k - 1] = s[k - 1]
        BY <4>1
      <4>3. CASE k \in 0 .. m
        <5>1. u[k] = s[k]
          BY <4>3
        <5>2. s[k] = g[s[k - 1]]
          BY <2>1, <3>2, <4>3
        <5> QED BY <3>2, <4>2, <5>1, <5>2
      <4>4. CASE k \notin 0 .. m
        <5>1. u[k] = g[s[m]]
          BY <4>4
        <5> QED BY <3>2, <4>1, <4>2, <4>4, <5>1
      <4> QED BY <4>3, <4>4
    <3> QED BY <3>1, <3>2
  <2>3. W(u, m + 1)
    <3> HIDE DEF T
    <3>1. u = [k \in 0 .. m + 1 |-> u[k]]
      OBVIOUS
    <3> HIDE DEF u
    <3>2. [k \in 0 .. m + 1 |-> u[k]]
            = [k \in 0 .. m + 1 |-> IF k = 0 THEN a ELSE g[u[k - 1]]]
      BY <2>2, Zenon
    <3> QED BY <3>1, <3>2
  <2> HIDE DEF u, W, Follows
  <2> QED BY <2>3
<1> HIDE DEF T, Follows
<1>3. n \in T
  BY <1>1, <1>2, SetInduction
<1> QED BY <1>3 DEF T

\* p lists where the blocks of b start, from tail to head.
Chain(b, p, n) ==
  /\ n \in Nat /\ p \in [0 .. n -> 0 .. Capacity] /\ p[0] = b.tail /\ p[n] = b.head
  /\ \A j \in 0 .. n : j < n => p[j + 1] = block_end(b, p[j])

\* The datagrams of the blocks that start at p[0], ..., p[n - 1].
Datagram(b, p, n) == [k \in 1 .. n |-> datagram(b, p[k - 1])]

\* The blocks of b are those of the chain, when it meets head at its end only.
LEMMA BlocksAre ==
  ASSUME NEW b \in Buffer, NEW p, NEW n, Chain(b, p, n), n <= circular_buffer_length,
         \A j \in 0 .. n : j < n => p[j] # b.head
  PROVE  blocks(b) = Datagram(b, p, n)
<1> DEFINE N == circular_buffer_length
           next == [i \in Cells |-> block_end(b, i)]
           start == CHOOSE s : Follows(s, next, b.tail, N)
           reaches == {k \in 0 .. N : start[k] = b.head}
           held == CHOOSE k \in reaches \cup {N} : \A m \in reaches : k <= m
           T == {j \in Nat : j <= n => start[j] = p[j]}
<1>0. N \in Nat /\ n \in Nat /\ n <= N /\ Capacity \in Nat
  BY DatagramAssumption DEF circular_buffer_length, Chain
<1> HIDE DEF N
<1>1. Follows(start, next, b.tail, N)
  <2> HIDE DEF next
  <2>1. \E s : Follows(s, next, b.tail, N)
    BY <1>0, FollowExists
  <2> QED BY <2>1, Zenon
<1>2. blocks(b) = [k \in 1 .. held |-> datagram(b, start[k - 1])]
  BY DEF blocks, Follows, N
<1> HIDE DEF start
<1>3. \A i \in 0 .. Capacity : next[i] = block_end(b, i)
  BY BlockAt
<1> HIDE DEF next
<1>4. /\ start[0] = b.tail
      /\ \A j \in Nat : j < n => start[j + 1] = next[start[j]]
  <2>1. 0 \in 0 .. N
    BY <1>0
  <2>2. ASSUME NEW j \in Nat, j < n PROVE start[j + 1] = next[start[j]]
    <3>1. j + 1 \in 0 .. N /\ j + 1 # 0 /\ (j + 1) - 1 = j
      BY <1>0, <2>2
    <3> QED BY <1>1, <3>1 DEF Follows
  <2> QED BY <1>1, <2>1, <2>2 DEF Follows
<1>5. 0 \in T
  BY <1>4 DEF Chain
<1>6. ASSUME NEW j \in Nat, j \in T PROVE j + 1 \in T
  <2> SUFFICES ASSUME j + 1 <= n PROVE start[j + 1] = p[j + 1]
    OBVIOUS
  <2>1. j < n /\ j \in 0 .. n /\ start[j] = p[j]
    BY <1>0, <1>6
  <2>2. p[j] \in 0 .. Capacity /\ p[j + 1] = block_end(b, p[j])
    BY <2>1 DEF Chain
  <2> QED BY <1>3, <1>4, <2>1, <2>2
<1>7. ASSUME NEW j \in 0 .. n PROVE start[j] = p[j]
  <2>1. j \in Nat /\ j <= n
    BY <1>0
  <2> HIDE DEF T
  <2>2. j \in T
    BY <1>5, <1>6, <2>1, SetInduction
  <2> QED BY <2>1, <2>2 DEF T
<1> HIDE DEF T
<1>8. n \in reaches /\ \A m \in reaches : n <= m
  <2>1. n \in 0 .. n /\ n \in 0 .. N
    BY <1>0
  <2>2. start[n] = b.head
    BY <1>7, <2>1 DEF Chain
  <2>3. ASSUME NEW m \in reaches, m < n PROVE FALSE
    <3>1. m \in 0 .. n /\ start[m] = b.head
      BY <1>0, <2>3
    <3> QED BY <1>7, <2>3, <3>1
  <2>4. \A m \in reaches : m \in Nat
    BY <1>0
  <2> QED BY <1>0, <2>1, <2>2, <2>3, <2>4
<1>9. held = n
  <2>1. reaches \cup {N} \subseteq Nat
    BY <1>0
  <2> HIDE DEF reaches
  <2>2. held \in reaches \cup {N} /\ \A m \in reaches : held <= m
    BY <1>8
  <2> HIDE DEF held
  <2>3. held <= n /\ held \in Nat
    BY <1>8, <2>1, <2>2
  <2>4. held >= n
    BY <1>0, <1>8, <2>2
  <2> QED BY <1>0, <2>3, <2>4
<1> HIDE DEF held, reaches
<1>10. \A k \in 1 .. n : start[k - 1] = p[k - 1]
  BY <1>0, <1>7
<1> QED BY <1>2, <1>9, <1>10 DEF Datagram

-----------------------------------------------------------------------------
(***************************************************************************)
(* Where the blocks lie: one after the other, or in two runs, the second   *)
(* from the start of the array and below the first.                        *)
(***************************************************************************)
\* The blocks from lo on lie one after the other, before the one of hi.
Run(b, p, lo, hi) ==
  \A i, j \in lo .. hi : i < j => stop(b, p[i]) <= p[j] /\ p[i] + (j - i) <= p[j]

\* The block m left the circular part.
Split(b, p, n, m) == /\ m < n /\ Run(b, p, 0, m) /\ Run(b, p, m + 1, n)
                     /\ stop(b, p[m]) > Capacity /\ b.head < b.tail

\* The blocks from tail to head lie in one run, or in two with the second below
\* the first.
Laid(b, p, n) == /\ Chain(b, p, n)
                 /\ Run(b, p, 0, n) \/ \E m \in 0 .. n : Split(b, p, n, m)

Layout(b) == b \in Buffer /\ \E n \in Nat : \E p : Laid(b, p, n)

\* Then the blocks are read back from tail to head, and there is none exactly when
\* the two indices are equal.
LEMMA LaidBlocks ==
  ASSUME NEW b \in Buffer, NEW p, NEW n, Laid(b, p, n)
  PROVE  /\ n \in Nat /\ blocks(b) = Datagram(b, p, n)
         /\ n = 0 <=> b.head = b.tail
<1>0. /\ n \in Nat /\ Capacity \in Nat /\ circular_buffer_length = Capacity + 1
      /\ p[0] = b.tail /\ p[n] = b.head /\ Chain(b, p, n)
      /\ \A j \in 0 .. n : p[j] \in Nat /\ p[j] <= Capacity
      /\ b.head \in Nat /\ b.tail \in Nat
  BY DatagramAssumption DEF circular_buffer_length, Laid, Chain, Buffer
<1>1. CASE Run(b, p, 0, n)
  <2>1. ASSUME NEW j \in 0 .. n, j < n PROVE p[j] # b.head
    <3>1. n \in 0 .. n /\ p[j] + (n - j) <= p[n]
      BY <1>0, <1>1, <2>1 DEF Run
    <3> QED BY <1>0, <2>1, <3>1
  <2>2. n <= circular_buffer_length
    <3>1. CASE n = 0
      BY <1>0, <3>1
    <3>2. CASE n # 0
      <4>1. 0 \in 0 .. n /\ n \in 0 .. n /\ 0 < n
        BY <1>0, <3>2
      <4>2. p[0] + (n - 0) <= p[n]
        BY <1>1, <4>1 DEF Run
      <4> QED BY <1>0, <4>1, <4>2
    <3> QED BY <3>1, <3>2
  <2>3. n # 0 => b.head # b.tail
    <3>1. n # 0 => 0 \in 0 .. n /\ 0 < n
      BY <1>0
    <3> QED BY <1>0, <2>1, <3>1
  <2> QED BY <1>0, <2>1, <2>2, <2>3, BlocksAre
<1>2. ASSUME NEW m \in 0 .. n, Split(b, p, n, m)
      PROVE  blocks(b) = Datagram(b, p, n) /\ n # 0 /\ b.head # b.tail
  <2>0. m \in Nat /\ m < n /\ Run(b, p, 0, m) /\ Run(b, p, m + 1, n) /\ b.head < b.tail
    BY <1>2 DEF Split
  <2>1. ASSUME NEW j \in 0 .. n, j < n PROVE p[j] # b.head
    <3>1. CASE j <= m
      <4>1. 0 \in 0 .. m /\ j \in 0 .. m /\ 0 \in 0 .. n
        BY <1>0, <2>0, <3>1
      <4>2. j = 0 \/ p[0] + (j - 0) <= p[j]
        BY <2>0, <4>1 DEF Run
      <4> QED BY <1>0, <2>0, <4>1, <4>2
    <3>2. CASE j > m
      <4>1. j \in m + 1 .. n /\ n \in m + 1 .. n
        BY <1>0, <2>0, <2>1, <3>2
      <4>2. p[j] + (n - j) <= p[n]
        BY <2>0, <2>1, <4>1 DEF Run
      <4> QED BY <1>0, <2>1, <4>2
    <3> QED BY <1>0, <2>0, <3>1, <3>2
  <2>2. n <= circular_buffer_length
    <3>1. p[0] + m <= p[m]
      <4>1. m = 0 \/ (0 \in 0 .. m /\ m \in 0 .. m /\ 0 < m)
        BY <2>0
      <4>2. m # 0 => p[0] + (m - 0) <= p[m]
        BY <2>0, <4>1 DEF Run
      <4>3. 0 \in 0 .. n
        BY <1>0
      <4> QED BY <1>0, <2>0, <4>2, <4>3
    <3>2. p[m + 1] + (n - (m + 1)) <= p[n]
      <4>1. m + 1 \in m + 1 .. n /\ n \in m + 1 .. n /\ m + 1 \in 0 .. n
        BY <1>0, <2>0
      <4>2. m + 1 < n => p[m + 1] + (n - (m + 1)) <= p[n]
        BY <2>0, <4>1 DEF Run
      <4>3. m + 1 = n \/ m + 1 < n
        BY <1>0, <2>0
      <4> QED BY <1>0, <2>0, <4>1, <4>2, <4>3
    <3>3. m \in 0 .. n /\ m + 1 \in 0 .. n
      BY <1>0, <2>0
    <3> QED BY <1>0, <2>0, <3>1, <3>2, <3>3
  <2>3. n # 0
    BY <1>0, <2>0
  <2> QED BY <1>0, <2>0, <2>1, <2>2, <2>3, BlocksAre
<1> QED BY <1>0, <1>1, <1>2 DEF Laid

\* The datagrams of a chain, as a sequence.
LEMMA DatagramSeq ==
  ASSUME NEW b \in Buffer, NEW n \in Nat, NEW p \in [0 .. n -> 0 .. Capacity]
  PROVE  /\ Datagram(b, p, n) \in Seq(Seq(Byte)) /\ Len(Datagram(b, p, n)) = n
         /\ \A k \in 1 .. n : Datagram(b, p, n)[k] = datagram(b, p[k - 1])
<1> DEFINE d == Datagram(b, p, n)
<1>1. d = [k \in 1 .. n |-> datagram(b, p[k - 1])]
  BY DEF Datagram
<1>2. \A k \in 1 .. n : k - 1 \in 0 .. n
  OBVIOUS
<1>3. \A k \in 1 .. n : datagram(b, p[k - 1]) \in Seq(Byte)
  BY <1>2, BlockAt
<1> HIDE DEF d
<1>4. d \in [1 .. n -> Seq(Byte)] /\ \A k \in 1 .. n : d[k] = datagram(b, p[k - 1])
  BY <1>1, <1>3
<1>5. d \in Seq(Seq(Byte)) /\ Len(d) = n
  BY <1>4
<1> QED BY <1>4, <1>5 DEF d

\* A buffer with the same bytes has the same blocks.
LEMMA SameBytes ==
  ASSUME NEW b, NEW v, v.buf = b.buf
  PROVE  \A i : /\ stop(v, i) = stop(b, i) /\ datagram(v, i) = datagram(b, i)
                /\ block_end(v, i) = block_end(b, i)
  BY DEF stop, datagram, block_end, read_length

\* write_to() takes the oldest block.
LEMMA WriteTo ==
  ASSUME NEW b, Layout(b), b.head # b.tail
  PROVE  /\ Layout(write_to(b)) /\ blocks(b) # << >>
         /\ datagram(b, b.tail) = Head(blocks(b))
         /\ blocks(write_to(b)) = Tail(blocks(b))
<1> DEFINE v == write_to(b)
<1>1. PICK n \in Nat : \E p : Laid(b, p, n)
  BY DEF Layout
<1>2. PICK p : Laid(b, p, n)
  BY <1>1
<1>b. b \in Buffer
  BY DEF Layout
<1>3. n # 0 /\ blocks(b) = Datagram(b, p, n)
  BY <1>b, <1>2, LaidBlocks
<1>4. /\ p \in [0 .. n -> 0 .. Capacity] /\ p[0] = b.tail /\ p[n] = b.head
      /\ \A j \in 0 .. n : j < n => p[j + 1] = block_end(b, p[j])
      /\ Capacity \in Nat /\ b.tail \in 0 .. Capacity
  BY <1>2, <1>b, DatagramAssumption DEF Laid, Chain, Buffer
<1>5. /\ v \in Buffer /\ v.buf = b.buf /\ v.head = b.head /\ v.tail = p[1]
  <2>1. block_end(b, b.tail) \in 0 .. Capacity
    BY <1>b, <1>4, BlockAt
  <2>2. 0 \in 0 .. n /\ 0 < n /\ 0 + 1 = 1
    BY <1>3
  <2>3. p[1] = block_end(b, b.tail)
    BY <1>4, <2>2
  <2> QED BY <1>b, <2>1, <2>3 DEF write_to, Buffer
<1> HIDE DEF v
<1> DEFINE m == n - 1
           q == [j \in 0 .. m |-> p[j + 1]]
<1>6. m \in Nat /\ m + 1 = n /\ \A j \in 0 .. m : j + 1 \in 0 .. n /\ j + 1 \in 1 .. n
  BY <1>3
<1>7. q \in [0 .. m -> 0 .. Capacity] /\ \A j \in 0 .. m : q[j] = p[j + 1]
  BY <1>4, <1>6
<1> HIDE DEF q, m
<1>8. \A i : /\ stop(v, i) = stop(b, i) /\ datagram(v, i) = datagram(b, i)
             /\ block_end(v, i) = block_end(b, i)
  BY <1>5, SameBytes
<1>9. Chain(v, q, m)
  <2>1. q[0] = v.tail /\ q[m] = v.head
    <3>1. 0 \in 0 .. m /\ m \in 0 .. m /\ 0 + 1 = 1
      BY <1>6
    <3> QED BY <1>4, <1>5, <1>6, <1>7, <3>1
  <2>2. ASSUME NEW j \in 0 .. m, j < m PROVE q[j + 1] = block_end(v, q[j])
    <3>1. j + 1 \in 0 .. m /\ j + 1 \in 0 .. n /\ j + 1 < n
      BY <1>6, <2>2
    <3> QED BY <1>4, <1>7, <1>8, <3>1
  <2> QED BY <1>6, <1>7, <2>1, <2>2 DEF Chain
<1>10. ASSUME NEW lo \in Nat, NEW hi \in Nat, hi <= m, Run(b, p, lo + 1, hi + 1)
       PROVE  Run(v, q, lo, hi)
  <2> SUFFICES ASSUME NEW i \in lo .. hi, NEW j \in lo .. hi, i < j
               PROVE  stop(v, q[i]) <= q[j] /\ q[i] + (j - i) <= q[j]
    BY DEF Run
  <2>1. /\ i \in 0 .. m /\ j \in 0 .. m /\ i + 1 \in lo + 1 .. hi + 1
        /\ j + 1 \in lo + 1 .. hi + 1 /\ i + 1 < j + 1 /\ (j + 1) - (i + 1) = j - i
    BY <1>6, <1>10
  <2>2. stop(b, p[i + 1]) <= p[j + 1] /\ p[i + 1] + ((j + 1) - (i + 1)) <= p[j + 1]
    BY <1>10, <2>1 DEF Run
  <2> QED BY <1>7, <1>8, <2>1, <2>2
<1>11. ASSUME NEW lo \in Nat, NEW hi \in Nat, NEW l \in Nat, Run(b, p, lo, hi), lo <= l
       PROVE  Run(b, p, l, hi)
  BY <1>11 DEF Run
<1>12. Laid(v, q, m)
  <2>1. CASE Run(b, p, 0, n)
    <3>1. Run(b, p, 0 + 1, m + 1)
      BY <1>6, <1>11, <2>1
    <3>2. Run(v, q, 0, m)
      BY <1>6, <1>10, <3>1
    <3> QED BY <1>9, <3>2 DEF Laid
  <2>2. ASSUME NEW k \in 0 .. n, Split(b, p, n, k) PROVE Laid(v, q, m)
    <3>1. /\ k \in Nat /\ k < n /\ Run(b, p, 0, k) /\ Run(b, p, k + 1, n)
          /\ stop(b, p[k]) > Capacity /\ b.head < b.tail
      BY <2>2 DEF Split
    <3>2. CASE k = 0
      <4>1. Run(v, q, 0, m)
        BY <1>6, <1>10, <3>1, <3>2
      <4> QED BY <1>9, <4>1 DEF Laid
    <3>3. CASE k # 0
      <4> DEFINE h == k - 1
      <4>1. h \in Nat /\ h + 1 = k /\ h < m /\ h <= m /\ h \in 0 .. m
        BY <1>6, <3>1, <3>3
      <4> HIDE DEF h
      <4>2. Run(v, q, 0, h)
        <5>1. Run(b, p, 0 + 1, h + 1)
          BY <1>11, <3>1, <4>1
        <5> QED BY <1>10, <4>1, <5>1
      <4>3. Run(v, q, h + 1, m)
        <5>1. h + 1 \in Nat /\ m <= m /\ Run(b, p, (h + 1) + 1, m + 1)
          BY <1>6, <3>1, <4>1
        <5> QED BY <1>6, <1>10, <5>1
      <4>4. stop(v, q[h]) > Capacity
        BY <1>7, <1>8, <3>1, <4>1
      <4>5. v.head < v.tail
        <5>1. 0 \in 0 .. k /\ 1 \in 0 .. k /\ 0 < 1 /\ 1 \in 0 .. n
          BY <1>6, <3>1, <3>3
        <5>2. p[0] + (1 - 0) <= p[1]
          BY <3>1, <5>1 DEF Run
        <5>3. p[0] \in Nat /\ p[1] \in Nat /\ b.head \in Nat
          BY <1>b, <1>4, <5>1 DEF Buffer
        <5> QED BY <1>4, <1>5, <3>1, <5>2, <5>3
      <4>6. Split(v, q, m, h)
        BY <4>1, <4>2, <4>3, <4>4, <4>5 DEF Split
      <4> QED BY <1>9, <4>1, <4>6 DEF Laid
    <3> QED BY <3>2, <3>3
  <2> QED BY <1>2, <2>1, <2>2 DEF Laid
<1>13. Layout(v) /\ blocks(v) = Datagram(v, q, m)
  BY <1>5, <1>6, <1>12, LaidBlocks DEF Layout
<1>14. /\ Datagram(b, p, n) # << >> /\ Head(Datagram(b, p, n)) = datagram(b, b.tail)
       /\ Datagram(v, q, m) = Tail(Datagram(b, p, n))
  <2> DEFINE d == Datagram(b, p, n)
             e == Datagram(v, q, m)
  <2>1. d \in Seq(Seq(Byte)) /\ Len(d) = n /\ \A k \in 1 .. n : d[k] = datagram(b, p[k - 1])
    BY <1>b, <1>4, DatagramSeq
  <2>2. e \in Seq(Seq(Byte)) /\ Len(e) = m /\ \A k \in 1 .. m : e[k] = datagram(v, q[k - 1])
    BY <1>5, <1>6, <1>7, DatagramSeq
  <2> HIDE DEF d, e
  <2>3. 1 \in 1 .. n /\ 1 - 1 = 0
    BY <1>3
  <2>4. d # << >> /\ Head(d) = datagram(b, b.tail)
    BY <1>3, <1>4, <2>1, <2>3
  <2>5. \A k \in 1 .. m : k - 1 \in 0 .. m /\ k + 1 \in 1 .. n /\ (k + 1) - 1 = (k - 1) + 1
    BY <1>6
  <2>6. ASSUME NEW k \in 1 .. m PROVE e[k] = d[k + 1]
    <3>1. q[k - 1] = p[(k + 1) - 1]
      BY <1>7, <2>5
    <3>2. e[k] = datagram(b, q[k - 1])
      BY <1>8, <2>2
    <3>3. d[k + 1] = datagram(b, p[(k + 1) - 1])
      BY <2>1, <2>5
    <3> QED BY <3>1, <3>2, <3>3
  <2>7. /\ Tail(d) \in Seq(Seq(Byte)) /\ Len(Tail(d)) = Len(d) - 1
        /\ \A i \in 1 .. Len(Tail(d)) : Tail(d)[i] = d[i + 1]
    BY <2>1, <2>4, HeadTailProperties
  <2>8. Len(Tail(d)) = m
    BY <1>6, <2>1, <2>7
  <2>9. e = Tail(d)
    <3> DEFINE t == Tail(d)
    <3>1. t \in Seq(Seq(Byte)) /\ Len(t) = Len(e) /\ \A i \in 1 .. m : t[i] = d[i + 1]
      BY <2>2, <2>7, <2>8
    <3> HIDE DEF t
    <3>2. \A i \in 1 .. Len(e) : e[i] = t[i]
      BY <2>2, <2>6, <3>1
    <3>3. e = t
      BY <2>2, <3>1, <3>2, SeqEqual
    <3> QED BY <3>3 DEF t
  <2> QED BY <2>4, <2>9 DEF d, e
<1> QED BY <1>3, <1>13, <1>14 DEF v

-----------------------------------------------------------------------------
(***************************************************************************)
(* read_from() stores a block at head.                                     *)
(***************************************************************************)
\* The block is read back as it was stored, and a block that ends before it or starts
\* after it is untouched.
LEMMA Stored ==
  ASSUME NEW b \in Buffer, NEW s \in Seq(Byte), Len(s) < MAX_DATAGRAM_LENGTH
  PROVE  LET v == read_from(b, s)
             e == b.head + 2 + Len(s)
         IN /\ v \in Buffer /\ v.tail = b.tail
            /\ v.head = IF e > Capacity THEN 0 ELSE e
            /\ stop(v, b.head) = e /\ datagram(v, b.head) = s
            /\ \A i \in 0 .. Capacity : stop(b, i) <= b.head \/ e <= i =>
                 /\ stop(v, i) = stop(b, i) /\ datagram(v, i) = datagram(b, i)
                 /\ block_end(v, i) = block_end(b, i)
<1> DEFINE v == read_from(b, s)
           n == Len(s)
           h == b.head
           e == h + 2 + n
           block == header(s) \o s
           buf == [i \in Cells |-> IF i - h \in 0 .. Len(block) - 1
                                   THEN block[i - h + 1] ELSE b.buf[i]]
<1>0. /\ n \in Nat /\ n < MAX_DATAGRAM_LENGTH /\ h \in Nat /\ h \in 0 .. Capacity /\ Capacity \in Nat
      /\ b.buf \in [Cells -> Byte] /\ b.tail \in 0 .. Capacity /\ DOMAIN s = 1 .. n
      /\ \A k \in 1 .. n : s[k] \in Byte
  BY DatagramAssumption DEF Buffer
<1>1. /\ header(s) \in Seq(Byte) /\ Len(header(s)) = 2
      /\ header(s)[1] * Radix + header(s)[2] = n
  BY <1>0, DigitsOf DEF header
<1>2. /\ block \in Seq(Byte) /\ Len(block) = n + 2
      /\ block[1] * Radix + block[2] = n
      /\ \A k \in 1 .. n : block[k + 2] = s[k]
  <2> DEFINE g == header(s)
  <2>1. g \in Seq(Byte) /\ Len(g) = 2 /\ g[1] * Radix + g[2] = n
    BY <1>1
  <2> HIDE DEF g
  <2> DEFINE c == g \o s
  <2>2. /\ c \in Seq(Byte) /\ Len(c) = Len(g) + Len(s)
        /\ \A i \in 1 .. Len(g) + Len(s) : c[i] = IF i <= Len(g) THEN g[i] ELSE s[i - Len(g)]
    BY <2>1, ConcatProperties
  <2> HIDE DEF c
  <2>3. /\ 1 \in 1 .. Len(g) + Len(s) /\ 2 \in 1 .. Len(g) + Len(s) /\ 1 <= Len(g) /\ 2 <= Len(g)
        /\ \A k \in 1 .. n : /\ k + 2 \in 1 .. Len(g) + Len(s) /\ ~(k + 2 <= Len(g))
                             /\ (k + 2) - Len(g) = k
    BY <1>0, <2>1
  <2>4. c[1] = g[1] /\ c[2] = g[2] /\ \A k \in 1 .. n : c[k + 2] = s[k]
    BY <2>2, <2>3
  <2>5. Len(c) = n + 2
    BY <1>0, <2>1, <2>2
  <2> QED BY <2>1, <2>2, <2>4, <2>5 DEF c, g
<1>3. v = [b EXCEPT !.buf = buf, !.head = wrapped(h + Len(block))]
  BY DEF read_from
<1> HIDE DEF block
<1>4. /\ buf \in [Cells -> Byte]
      /\ \A i \in Cells : i < h \/ i >= e => buf[i] = b.buf[i]
      /\ \A k \in 1 .. n + 2 : h + k - 1 \in Cells => buf[h + k - 1] = block[k]
  <2>0. Cells \subseteq Int
    BY DEF Cells
  <2>1. ASSUME NEW i \in Cells PROVE buf[i] \in Byte
    <3>1. i - h \in 0 .. Len(block) - 1 => i - h + 1 \in 1 .. Len(block)
      BY <1>0, <1>2, <2>0
    <3> QED BY <1>0, <1>2, <3>1
  <2>2. ASSUME NEW i \in Cells, i < h \/ i >= e PROVE buf[i] = b.buf[i]
    <3>1. ~(i - h \in 0 .. Len(block) - 1)
      BY <1>0, <1>2, <2>0, <2>2
    <3> QED BY <3>1
  <2>3. ASSUME NEW k \in 1 .. n + 2, h + k - 1 \in Cells PROVE buf[h + k - 1] = block[k]
    <3>1. (h + k - 1) - h \in 0 .. Len(block) - 1 /\ (h + k - 1) - h + 1 = k
      BY <1>0, <1>2
    <3> QED BY <2>3, <3>1
  <2> QED BY <2>1, <2>2, <2>3
<1> HIDE DEF buf
<1>5. wrapped(h + Len(block)) = IF e > Capacity THEN 0 ELSE e
  <2>0. Len(block) = n + 2 /\ n \in Nat /\ h \in Nat
    BY <1>0, <1>2
  <2>e. e = h + 2 + n
    OBVIOUS
  <2> HIDE DEF n, h, e
  <2>1. Len(block) = n + 2 /\ h + (n + 2) = e /\ e \in Nat
    BY <2>0, <2>e
  <2>2. e >= Capacity + 1 <=> e > Capacity
    BY <1>0, <2>1
  <2> QED BY <2>1, <2>2 DEF wrapped, circular_buffer_length
<1>6. /\ v \in Buffer /\ v.tail = b.tail /\ v.buf = buf
      /\ v.head = IF e > Capacity THEN 0 ELSE e
  <2>1. wrapped(h + Len(block)) \in 0 .. Capacity
    BY <1>0, <1>5
  <2> QED BY <1>3, <1>4, <1>5, <2>1 DEF Buffer
<1> HIDE DEF v
<1>7. /\ h \in Cells /\ h + 1 \in Cells
      /\ \A k \in 1 .. n : h + HEADER_LENGTH + k - 1 \in Cells
  <2>1. h \in Cells /\ h + 1 \in Cells
    BY <1>0, BlockAt
  <2>2. MAX_DATAGRAM_LENGTH \in Nat
    <3>1. Radix * Radix \in Nat
      BY DatagramAssumption
    <3> QED BY <3>1 DEF MAX_DATAGRAM_LENGTH
  <2>3. \A k \in 1 .. n : h + HEADER_LENGTH + k - 1 \in Cells
    BY <1>0, <2>2 DEF Cells, MAX_BLOCK_LENGTH, HEADER_LENGTH
  <2> QED BY <2>1, <2>3
<1>8. read_length(v, h) = n
  <2>1. 1 \in 1 .. n + 2 /\ 2 \in 1 .. n + 2 /\ h + 1 - 1 = h /\ h + 2 - 1 = h + 1
    BY <1>0
  <2>2. buf[h] = block[1] /\ buf[h + 1] = block[2]
    BY <1>4, <1>7, <2>1
  <2> QED BY <1>2, <1>6, <2>2 DEF read_length
<1>9. stop(v, h) = e
  BY <1>8 DEF stop, HEADER_LENGTH
<1>10. datagram(v, h) = s
  <2>1. ASSUME NEW k \in 1 .. n PROVE v.buf[h + HEADER_LENGTH + k - 1] = s[k]
    <3>1. k + 2 \in 1 .. n + 2 /\ h + (k + 2) - 1 = h + HEADER_LENGTH + k - 1
      BY <1>0 DEF HEADER_LENGTH
    <3> QED BY <1>2, <1>4, <1>6, <1>7, <3>1
  <2>2. datagram(v, h) = [k \in 1 .. n |-> s[k]]
    BY <1>8, <2>1 DEF datagram
  <2> QED BY <2>2
<1>11. ASSUME NEW i \in 0 .. Capacity, stop(b, i) <= h \/ e <= i
       PROVE  /\ stop(v, i) = stop(b, i) /\ datagram(v, i) = datagram(b, i)
              /\ block_end(v, i) = block_end(b, i)
  <2> DEFINE l == read_length(b, i)
  <2>1. /\ i \in Nat /\ i \in Cells /\ i + 1 \in Cells /\ l \in Nat /\ stop(b, i) = i + 2 + l
        /\ \A k \in 1 .. l : i + HEADER_LENGTH + k - 1 \in Cells
    BY BlockAt DEF stop, HEADER_LENGTH
  <2> HIDE DEF l
  <2>2. (i < h \/ i >= e) /\ (i + 1 < h \/ i + 1 >= e)
    BY <1>0, <1>11, <2>1
  <2>3. v.buf[i] = b.buf[i] /\ v.buf[i + 1] = b.buf[i + 1]
    BY <1>4, <1>6, <2>1, <2>2
  <2>4. read_length(v, i) = l
    BY <2>3 DEF read_length, l
  <2>5. ASSUME NEW k \in 1 .. l
        PROVE  v.buf[i + HEADER_LENGTH + k - 1] = b.buf[i + HEADER_LENGTH + k - 1]
    <3>1. i + HEADER_LENGTH + k - 1 < h \/ i + HEADER_LENGTH + k - 1 >= e
      BY <1>0, <1>11, <2>1 DEF HEADER_LENGTH
    <3> QED BY <1>4, <1>6, <2>1, <3>1
  <2>6. datagram(v, i) = datagram(b, i)
    BY <2>4, <2>5 DEF datagram, l
  <2> QED BY <2>4, <2>6 DEF stop, block_end, l
<1> QED BY <1>6, <1>9, <1>10, <1>11 DEF v, e, h, n

\* v is b with the block of s at head, and q is the chain p that it continues.
Continues(b, p, n, v, q, s) ==
  /\ \A j \in 0 .. n : j < n => /\ block_end(v, p[j]) = block_end(b, p[j])
                                /\ datagram(v, p[j]) = datagram(b, p[j])
  /\ datagram(v, b.head) = s /\ block_end(v, b.head) = v.head /\ v.tail = b.tail
  /\ q \in [0 .. n + 1 -> 0 .. Capacity] /\ q[n + 1] = v.head
  /\ \A j \in 0 .. n : q[j] = p[j]

\* Then it is the chain of v, with one datagram more.
LEMMA Extend ==
  ASSUME NEW b \in Buffer, NEW v \in Buffer, NEW n, NEW p, Chain(b, p, n), NEW s \in Seq(Byte),
         NEW q, Continues(b, p, n, v, q, s)
  PROVE  Chain(v, q, n + 1) /\ Datagram(v, q, n + 1) = Append(Datagram(b, p, n), s)
<1>0. /\ n \in Nat /\ p \in [0 .. n -> 0 .. Capacity] /\ p[0] = b.tail /\ p[n] = b.head
      /\ \A j \in 0 .. n : j < n => p[j + 1] = block_end(b, p[j])
      /\ v.head \in 0 .. Capacity
  BY DEF Chain, Buffer
<1>1. /\ q \in [0 .. n + 1 -> 0 .. Capacity]
      /\ \A j \in 0 .. n : q[j] = p[j]
      /\ q[n + 1] = v.head
      /\ \A j \in 0 .. n : j < n => /\ block_end(v, p[j]) = block_end(b, p[j])
                                    /\ datagram(v, p[j]) = datagram(b, p[j])
      /\ datagram(v, b.head) = s /\ block_end(v, b.head) = v.head /\ v.tail = b.tail
  BY DEF Continues
<1>2. Chain(v, q, n + 1)
  <2>1. ASSUME NEW j \in 0 .. n + 1, j < n + 1 PROVE q[j + 1] = block_end(v, q[j])
    <3>1. j \in 0 .. n /\ (j = n \/ (j < n /\ j + 1 \in 0 .. n))
      BY <1>0, <2>1
    <3> QED BY <1>0, <1>1, <3>1
  <2>2. 0 \in 0 .. n /\ n + 1 \in Nat
    BY <1>0
  <2>3. q[0] = v.tail
    BY <1>0, <1>1, <2>2
  <2> QED BY <1>1, <2>1, <2>2, <2>3 DEF Chain
<1> DEFINE d == Datagram(b, p, n)
           e == Datagram(v, q, n + 1)
           a == Append(d, s)
<1>3. d \in Seq(Seq(Byte)) /\ Len(d) = n /\ \A k \in 1 .. n : d[k] = datagram(b, p[k - 1])
  BY <1>0, DatagramSeq
<1>4. /\ e \in Seq(Seq(Byte)) /\ Len(e) = n + 1
      /\ \A k \in 1 .. n + 1 : e[k] = datagram(v, q[k - 1])
  <2>1. n + 1 \in Nat
    BY <1>0
  <2> QED BY <1>1, <2>1, DatagramSeq
<1> HIDE DEF d, e
<1>5. /\ a \in Seq(Seq(Byte)) /\ Len(a) = n + 1 /\ a[n + 1] = s
      /\ \A k \in 1 .. n : a[k] = d[k]
  BY <1>0, <1>3
<1> HIDE DEF a
<1>6. ASSUME NEW k \in 1 .. n + 1 PROVE e[k] = a[k]
  <2>1. k - 1 \in 0 .. n /\ q[k - 1] = p[k - 1]
    BY <1>0, <1>1
  <2>2. CASE k = n + 1
    <3>1. k - 1 = n
      BY <1>0, <2>2
    <3>2. e[k] = datagram(v, p[n])
      BY <1>4, <2>1, <3>1
    <3> QED BY <1>0, <1>1, <1>5, <2>2, <3>2
  <2>3. CASE k # n + 1
    <3>1. k \in 1 .. n /\ k - 1 < n
      BY <1>0, <2>3
    <3>2. e[k] = datagram(v, p[k - 1]) /\ datagram(v, p[k - 1]) = datagram(b, p[k - 1])
      BY <1>1, <1>4, <2>1, <3>1
    <3>3. a[k] = datagram(b, p[k - 1])
      BY <1>3, <1>5, <3>1
    <3> QED BY <3>2, <3>3
  <2> QED BY <2>2, <2>3
<1>7. e = a
  BY <1>4, <1>5, <1>6, SeqEqual
<1> QED BY <1>2, <1>7 DEF a, e, d

\* P tells where the blocks of the queue d start when they are not wrapped.
Places(P, d) == \A j \in Nat : j < Len(d) => P[j + 1] = P[j] + 2 + Len(d[j + 1])

\* The bytes that a queue takes, when P tells where each of its blocks starts.
LEMMA BytesAre ==
  ASSUME NEW d \in Seq(Seq(Byte)), NEW P \in [0 .. Len(d) -> Nat],
         Places(P, d)
  PROVE  Channel!Bytes(d) = P[Len(d)] - P[0]
<1> DEFINE N == Len(d)
<1>0. N \in Nat /\ \A k \in 0 .. N : P[k] \in Nat
  OBVIOUS
<1>l. \A k \in 1 .. N : Len(d[k]) \in Nat
  <2>1. \A k \in 1 .. N : d[k] \in Seq(Byte)
    OBVIOUS
  <2> QED BY <2>1
<1> DEFINE S(f) == f = [k \in 0 .. N |-> IF k = 0 THEN 0 ELSE f[k - 1] + HEADER_LENGTH + Len(d[k])]
           sum == CHOOSE f : S(f)
           w == [k \in 0 .. N |-> P[k] - P[0]]
           T == {j \in Nat : j <= N => sum[j] = P[j] - P[0]}
<1>1. S(w)
  <2> HIDE DEF sum, T
  <2>1. ASSUME NEW k \in 0 .. N
        PROVE  w[k] = IF k = 0 THEN 0 ELSE w[k - 1] + HEADER_LENGTH + Len(d[k])
    <3>1. CASE k = 0
      BY <1>0, <3>1
    <3>2. CASE k # 0
      <4>1. k - 1 \in Nat /\ k - 1 \in 0 .. N /\ k - 1 < Len(d) /\ (k - 1) + 1 = k /\ 0 \in 0 .. N /\ k \in 1 .. N
        BY <1>0, <3>2
      <4>2. P[k] = P[k - 1] + 2 + Len(d[k])
        BY <4>1 DEF Places
      <4>3. w[k] = P[k] - P[0] /\ w[k - 1] = P[k - 1] - P[0]
        BY <4>1
      <4>4. P[k] \in Nat /\ P[k - 1] \in Nat /\ P[0] \in Nat /\ Len(d[k]) \in Nat
        BY <1>0, <1>l, <4>1
      <4> HIDE DEF w
      <4>5. w[k] = w[k - 1] + HEADER_LENGTH + Len(d[k])
        <5>1. P[k] - P[0] = (P[k - 1] - P[0]) + 2 + Len(d[k])
          <6> DEFINE x == P[k]
                     y == P[k - 1]
                     z == P[0]
                     l == Len(d[k])
          <6>1. x \in Nat /\ y \in Nat /\ z \in Nat /\ l \in Nat /\ x = y + 2 + l
            BY <4>2, <4>4
          <6> HIDE DEF x, y, z, l
          <6>2. x - z = (y - z) + 2 + l
            BY <6>1
          <6> QED BY <6>2 DEF x, y, z, l
        <5> QED BY <4>3, <5>1, Zenon DEF HEADER_LENGTH
      <4> QED BY <3>2, <4>5
    <3> QED BY <3>1, <3>2
  <2>2. w = [k \in 0 .. N |-> w[k]]
    OBVIOUS
  <2> HIDE DEF w
  <2>3. [k \in 0 .. N |-> w[k]]
          = [k \in 0 .. N |-> IF k = 0 THEN 0 ELSE w[k - 1] + HEADER_LENGTH + Len(d[k])]
    BY <2>1, Zenon
  <2> QED BY <2>2, <2>3, Zenon
<1> HIDE DEF w
<1>2. S(sum)
  <2> HIDE DEF S
  <2> QED BY <1>1, Zenon
<1>3. Channel!Bytes(d) = sum[N]
  BY DEF Channel!Bytes
<1> HIDE DEF sum
<1>4. /\ sum[0] = 0
      /\ \A j \in Nat : j < N => sum[j + 1] = sum[j] + 2 + Len(d[j + 1])
  <2>1. 0 \in 0 .. N
    BY <1>0
  <2>2. ASSUME NEW j \in Nat, j < N PROVE sum[j + 1] = sum[j] + 2 + Len(d[j + 1])
    <3>1. j + 1 \in 0 .. N /\ j + 1 # 0 /\ (j + 1) - 1 = j
      BY <1>0, <2>2
    <3> QED BY <1>2, <3>1 DEF HEADER_LENGTH
  <2> QED BY <1>2, <2>1, <2>2
<1> HIDE DEF S
<1>5. 0 \in T
  BY <1>0, <1>4
<1>6. ASSUME NEW j \in Nat, j \in T PROVE j + 1 \in T
  <2> SUFFICES ASSUME j + 1 <= N PROVE sum[j + 1] = P[j + 1] - P[0]
    OBVIOUS
  <2>1. j < N /\ j <= N /\ j \in 0 .. N /\ j + 1 \in 1 .. N /\ 0 \in 0 .. N
    BY <1>0
  <2>2. sum[j] = P[j] - P[0] /\ sum[j + 1] = sum[j] + 2 + Len(d[j + 1])
    BY <1>4, <1>6, <2>1
  <2>3. P[j + 1] = P[j] + 2 + Len(d[j + 1])
    BY <2>1 DEF Places
  <2>4. P[j] \in Nat /\ P[0] \in Nat /\ Len(d[j + 1]) \in Nat
    BY <1>0, <1>l, <2>1
  <2>5. P[j + 1] \in Nat
    BY <2>3, <2>4
  <2>6. P[j + 1] - P[0] = (P[j] - P[0]) + 2 + Len(d[j + 1])
    <3> DEFINE x == P[j + 1]
               y == P[j]
               z == P[0]
               l == Len(d[j + 1])
    <3>1. x \in Nat /\ y \in Nat /\ z \in Nat /\ l \in Nat /\ x = y + 2 + l
      BY <2>3, <2>4, <2>5
    <3> HIDE DEF x, y, z, l
    <3>2. x - z = (y - z) + 2 + l
      BY <3>1
    <3> QED BY <3>2 DEF x, y, z, l
  <2> QED BY <2>2, <2>6, Zenon
<1>7. N \in T
  <2> HIDE DEF T
  <2> QED BY <1>0, <1>5, <1>6, SetInduction
<1>8. sum[N] = P[N] - P[0]
  BY <1>0, <1>7
<1> QED BY <1>3, <1>8

\* In a run that starts the array, a queue takes the bytes below its end.
LEMMA RunBytes ==
  ASSUME NEW b \in Buffer, NEW n, NEW p, Chain(b, p, n), Run(b, p, 0, n), b.tail = 0,
         NEW s \in Seq(Byte)
  PROVE  Channel!Bytes(Append(Datagram(b, p, n), s)) = b.head + 2 + Len(s)
<1> DEFINE d == Datagram(b, p, n)
           a == Append(d, s)
           e == b.head + 2 + Len(s)
           P == [j \in 0 .. n + 1 |-> IF j <= n THEN p[j] ELSE e]
<1>0. /\ n \in Nat /\ p \in [0 .. n -> 0 .. Capacity] /\ p[0] = 0 /\ p[n] = b.head
      /\ \A j \in 0 .. n : j < n => p[j + 1] = block_end(b, p[j])
      /\ b.head \in Nat /\ Len(s) \in Nat
  BY DEF Chain, Buffer
<1>1. e \in Nat
  BY <1>0
<1>2. d \in Seq(Seq(Byte)) /\ Len(d) = n /\ \A k \in 1 .. n : d[k] = datagram(b, p[k - 1])
  BY <1>0, DatagramSeq
<1> HIDE DEF d
<1>3. /\ a \in Seq(Seq(Byte)) /\ Len(a) = n + 1 /\ a[n + 1] = s
      /\ \A k \in 1 .. n : a[k] = d[k]
  BY <1>0, <1>2
<1> HIDE DEF a
<1>4. /\ P \in [0 .. n + 1 -> Nat] /\ P[n + 1] = e
      /\ \A j \in 0 .. n : P[j] = p[j]
  <2>1. \A j \in 0 .. n + 1 : j <= n => j \in 0 .. n
    BY <1>0
  <2>2. n + 1 \in 0 .. n + 1 /\ ~(n + 1 <= n) /\ \A j \in 0 .. n : j \in 0 .. n + 1 /\ j <= n
    BY <1>0
  <2>3. \A j \in 0 .. n : p[j] \in Nat
    BY <1>0
  <2> HIDE DEF e
  <2> QED BY <1>0, <1>1, <2>1, <2>2, <2>3
<1> HIDE DEF P
<1>5. ASSUME NEW j \in Nat, j < Len(a) PROVE P[j + 1] = P[j] + 2 + Len(a[j + 1])
  <2>0. j \in 0 .. n /\ (j = n \/ j < n)
    BY <1>0, <1>3, <1>5
  <2>1. CASE j = n
    BY <1>0, <1>3, <1>4, <2>0, <2>1
  <2>2. CASE j < n
    <3>1. j + 1 \in 0 .. n /\ j + 1 \in 1 .. n /\ (j + 1) - 1 = j /\ j < j + 1
      BY <1>0, <2>0, <2>2
    <3>2. a[j + 1] = datagram(b, p[j])
      BY <1>2, <1>3, <3>1
    <3>3. p[j] \in 0 .. Capacity /\ p[j] \in Nat
      BY <1>0, <2>0
    <3>4. /\ Len(datagram(b, p[j])) = read_length(b, p[j])
          /\ stop(b, p[j]) \in Nat /\ stop(b, p[j]) >= p[j] + 2
          /\ block_end(b, p[j]) = IF stop(b, p[j]) > Capacity THEN 0 ELSE stop(b, p[j])
      BY <3>3, BlockAt
    <3>5. stop(b, p[j]) <= p[j + 1]
      BY <2>0, <3>1 DEF Run
    <3>6. p[j + 1] = block_end(b, p[j])
      BY <1>0, <2>0, <2>2
    <3>7. p[j + 1] = stop(b, p[j])
      BY <3>3, <3>4, <3>5, <3>6
    <3>8. stop(b, p[j]) = p[j] + 2 + Len(a[j + 1])
      BY <3>2, <3>4 DEF stop, HEADER_LENGTH
    <3>9. P[j] = p[j] /\ P[j + 1] = p[j + 1]
      BY <1>4, <2>0, <3>1
    <3> QED BY <3>7, <3>8, <3>9, Zenon
  <2> QED BY <2>0, <2>1, <2>2
<1>6. Channel!Bytes(a) = P[n + 1] - P[0]
  <2>1. Places(P, a)
    BY <1>5 DEF Places
  <2> QED BY <1>3, <1>4, <2>1, BytesAre
<1>7. P[0] = 0 /\ e - 0 = e
  <2>1. 0 \in 0 .. n
    BY <1>0
  <2> QED BY <1>0, <1>1, <1>4, <2>1
<1>8. Channel!Bytes(a) = e
  BY <1>4, <1>6, <1>7
<1> QED BY <1>8 DEF a, d, e

\* read_from() appends a datagram that has_enough_space_for() lets in, or forgets
\* everything when the queue outgrew the capacity.
LEMMA ReadFrom ==
  ASSUME NEW b, Layout(b), NEW s \in Seq(Byte), Len(s) < MAX_DATAGRAM_LENGTH,
         has_enough_space_for(b, Len(s))
  PROVE  /\ Layout(read_from(b, s))
         /\ \/ blocks(read_from(b, s)) = Append(blocks(b), s)
            \/ /\ blocks(read_from(b, s)) = << >>
               /\ Channel!Bytes(Append(blocks(b), s)) > Capacity
<1> DEFINE v == read_from(b, s)
           e == b.head + 2 + Len(s)
<1>b. b \in Buffer
  BY DEF Layout
<1>1. PICK n \in Nat : \E p : Laid(b, p, n)
  BY DEF Layout
<1>2. PICK p : Laid(b, p, n)
  BY <1>1
<1>3. /\ Chain(b, p, n) /\ p \in [0 .. n -> 0 .. Capacity] /\ p[0] = b.tail /\ p[n] = b.head
      /\ Capacity \in Nat /\ b.head \in Nat /\ b.tail \in Nat /\ b.tail <= Capacity
      /\ b.head \in 0 .. Capacity /\ Len(s) \in Nat
  BY <1>b, <1>2, DatagramAssumption DEF Laid, Chain, Buffer
<1>4. /\ v \in Buffer /\ v.tail = b.tail
      /\ v.head = IF e > Capacity THEN 0 ELSE e
      /\ stop(v, b.head) = e /\ datagram(v, b.head) = s
      /\ \A i \in 0 .. Capacity : stop(b, i) <= b.head \/ e <= i =>
           /\ stop(v, i) = stop(b, i) /\ datagram(v, i) = datagram(b, i)
           /\ block_end(v, i) = block_end(b, i)
  BY <1>b, Stored
<1>5. e \in Nat /\ e = b.head + 2 + Len(s)
  BY <1>3
<1>6. blocks(b) = Datagram(b, p, n)
  BY <1>b, <1>2, LaidBlocks
<1> HIDE DEF v, e
<1>7. block_end(v, b.head) = v.head
  BY <1>3, <1>4, BlockAt
<1> DEFINE q == [j \in 0 .. n + 1 |-> IF j <= n THEN p[j] ELSE v.head]
<1>8. /\ n + 1 \in Nat /\ q \in [0 .. n + 1 -> 0 .. Capacity]
      /\ q[n + 1] = v.head /\ \A j \in 0 .. n : q[j] = p[j]
  <2>1. n + 1 \in 0 .. n + 1 /\ ~(n + 1 <= n) /\ \A j \in 0 .. n : j \in 0 .. n + 1 /\ j <= n
    OBVIOUS
  <2>2. \A j \in 0 .. n + 1 : j <= n => j \in 0 .. n
    OBVIOUS
  <2>3. v.head \in 0 .. Capacity
    BY <1>4 DEF Buffer
  <2> QED BY <1>3, <2>1, <2>2, <2>3
<1>9. ASSUME \A j \in 0 .. n : j < n => stop(b, p[j]) <= b.head \/ e <= p[j]
      PROVE  /\ Chain(v, q, n + 1) /\ Datagram(v, q, n + 1) = Append(blocks(b), s)
             /\ \A j \in 0 .. n : j < n => stop(v, q[j]) = stop(b, p[j])
  <2>1. \A j \in 0 .. n : j < n => /\ block_end(v, p[j]) = block_end(b, p[j])
                                   /\ datagram(v, p[j]) = datagram(b, p[j])
                                   /\ stop(v, p[j]) = stop(b, p[j])
    BY <1>3, <1>4, <1>9
  <2> HIDE DEF q
  <2>3. Chain(v, q, n + 1) /\ Datagram(v, q, n + 1) = Append(Datagram(b, p, n), s)
    <3>1. v \in Buffer /\ Chain(b, p, n) /\ datagram(v, b.head) = s /\ v.tail = b.tail
      BY <1>3, <1>4
    <3>2. \A j \in 0 .. n : j < n => /\ block_end(v, p[j]) = block_end(b, p[j])
                                     /\ datagram(v, p[j]) = datagram(b, p[j])
      BY <2>1
    <3>3. Continues(b, p, n, v, q, s)
      BY <1>7, <1>8, <3>1, <3>2 DEF Continues
    <3> QED BY <1>b, <3>1, <3>3, Extend
  <2> QED BY <1>6, <1>8, <2>1, <2>3
<1> HIDE DEF q
<1>10. ASSUME NEW lo \in Nat, NEW hi \in Nat, hi <= n, Run(b, p, lo, hi),
              \A j \in 0 .. n : j < n => stop(v, q[j]) = stop(b, p[j])
       PROVE  Run(v, q, lo, hi)
  <2> SUFFICES ASSUME NEW i \in lo .. hi, NEW j \in lo .. hi, i < j
               PROVE  stop(v, q[i]) <= q[j] /\ q[i] + (j - i) <= q[j]
    BY DEF Run
  <2>1. i \in 0 .. n /\ j \in 0 .. n /\ i < n
    BY <1>10
  <2>2. stop(b, p[i]) <= p[j] /\ p[i] + (j - i) <= p[j]
    BY <1>10 DEF Run
  <2> QED BY <1>8, <1>10, <2>1, <2>2
<1>11. ASSUME NEW lo \in Nat, lo <= n, Run(b, p, lo, n), e <= Capacity,
              \A j \in 0 .. n : j < n => stop(v, q[j]) = stop(b, p[j])
       PROVE  Run(v, q, lo, n + 1)
  <2> SUFFICES ASSUME NEW i \in lo .. n + 1, NEW j \in lo .. n + 1, i < j
               PROVE  stop(v, q[i]) <= q[j] /\ q[i] + (j - i) <= q[j]
    BY DEF Run
  <2>0. v.head = e /\ n \in lo .. n
    BY <1>3, <1>4, <1>5, <1>11
  <2>1. CASE j <= n
    <3>1. i \in lo .. n /\ j \in lo .. n /\ Run(v, q, lo, n)
      BY <1>10, <1>11, <2>1
    <3> QED BY <3>1 DEF Run
  <2>2. CASE j = n + 1 /\ i = n
    <3>1. n \in 0 .. n /\ (n + 1) - n = 1
      OBVIOUS
    <3>2. q[i] = b.head /\ q[j] = e
      BY <1>3, <1>8, <2>0, <2>2, <3>1
    <3>3. stop(v, q[i]) = e
      BY <1>4, <3>2
    <3> QED BY <1>3, <1>5, <2>2, <3>1, <3>2, <3>3
  <2>3. CASE j = n + 1 /\ i < n
    <3>1. i \in 0 .. n /\ i \in lo .. n /\ n \in 0 .. n
      BY <1>11, <2>3
    <3>2. stop(b, p[i]) <= p[n] /\ p[i] + (n - i) <= p[n]
      BY <1>11, <2>0, <2>3, <3>1 DEF Run
    <3>3. stop(v, q[i]) = stop(b, p[i]) /\ q[i] = p[i] /\ q[j] = e
      BY <1>8, <1>11, <2>0, <2>3, <3>1
    <3>4. p[i] \in 0 .. Capacity /\ p[i] \in Nat
      BY <1>3, <3>1
    <3>5. stop(b, p[i]) \in Nat
      BY <1>b, <3>4, BlockAt
    <3>6. stop(b, p[i]) <= e
      BY <1>3, <1>5, <3>2, <3>5
    <3>7. p[i] + (j - i) <= e
      BY <1>3, <1>5, <2>3, <3>1, <3>2, <3>4
    <3> QED BY <3>3, <3>6, <3>7
  <2>4. j <= n \/ (j = n + 1 /\ i = n) \/ (j = n + 1 /\ i < n)
    OBVIOUS
  <2> QED BY <2>1, <2>2, <2>3, <2>4
<1>12. ASSUME Laid(v, q, n + 1), Datagram(v, q, n + 1) = Append(blocks(b), s)
       PROVE  Layout(v) /\ blocks(v) = Append(blocks(b), s)
  BY <1>4, <1>8, <1>12, LaidBlocks DEF Layout
<1>13. CASE Run(b, p, 0, n)
  <2>1. ASSUME NEW j \in 0 .. n, j < n PROVE stop(b, p[j]) <= b.head
    <3>1. n \in 0 .. n
      OBVIOUS
    <3> QED BY <1>3, <1>13, <2>1, <3>1 DEF Run
  <2>2. /\ Chain(v, q, n + 1) /\ Datagram(v, q, n + 1) = Append(blocks(b), s)
        /\ \A j \in 0 .. n : j < n => stop(v, q[j]) = stop(b, p[j])
    BY <1>9, <2>1
  <2>3. CASE e <= Capacity
    <3>1. Run(v, q, 0, n + 1)
      BY <1>11, <1>13, <2>2, <2>3
    <3>2. Laid(v, q, n + 1)
      BY <2>2, <3>1 DEF Laid
    <3> QED BY <1>12, <2>2, <3>2 DEF v
  <2>4. CASE e > Capacity /\ b.tail # 0
    <3>0. v.head = 0
      BY <1>4, <2>4
    <3>1. Run(v, q, 0, n)
      BY <1>10, <1>13, <2>2
    <3>2. Run(v, q, n + 1, n + 1)
      BY <1>8 DEF Run
    <3>3. n \in 0 .. n /\ n \in 0 .. n + 1 /\ n < n + 1
      OBVIOUS
    <3>4. stop(v, q[n]) > Capacity
      BY <1>3, <1>4, <1>8, <2>4, <3>3
    <3>5. v.head < v.tail
      BY <1>3, <1>4, <2>4, <3>0
    <3>6. Split(v, q, n + 1, n)
      BY <3>1, <3>2, <3>3, <3>4, <3>5 DEF Split
    <3>7. Laid(v, q, n + 1)
      BY <2>2, <3>3, <3>6 DEF Laid
    <3> QED BY <1>12, <2>2, <3>7 DEF v
  <2>5. CASE e > Capacity /\ b.tail = 0
    <3> DEFINE z == [j \in 0 .. 0 |-> 0]
    <3>1. v.head = 0 /\ v.tail = 0
      BY <1>4, <2>5
    <3>2. z[0] = 0 /\ z \in [0 .. 0 -> 0 .. Capacity] /\ \A j \in 0 .. 0 : j = 0
      BY <1>3
    <3> HIDE DEF z
    <3>3. Laid(v, z, 0)
      BY <3>1, <3>2 DEF Laid, Chain, Run
    <3>4. Layout(v) /\ blocks(v) = Datagram(v, z, 0)
      BY <1>4, <3>3, LaidBlocks DEF Layout
    <3>5. blocks(v) = << >>
      <4>1. Datagram(v, z, 0) \in Seq(Seq(Byte)) /\ Len(Datagram(v, z, 0)) = 0
        BY <1>4, <3>2, DatagramSeq
      <4> QED BY <3>4, <4>1, EmptySeq
    <3>6. Channel!Bytes(Append(blocks(b), s)) = e
      BY <1>b, <1>3, <1>5, <1>6, <1>13, <2>5, RunBytes
    <3> QED BY <2>5, <3>4, <3>5, <3>6 DEF v
  <2> QED BY <1>3, <1>5, <2>3, <2>4, <2>5
<1>14. ASSUME NEW m \in 0 .. n, Split(b, p, n, m)
       PROVE  Layout(v) /\ blocks(v) = Append(blocks(b), s)
  <2>0. /\ m \in Nat /\ m < n /\ Run(b, p, 0, m) /\ Run(b, p, m + 1, n)
        /\ stop(b, p[m]) > Capacity /\ b.head < b.tail
    BY <1>14 DEF Split
  <2>1. e < b.tail /\ e <= Capacity
    <3>1. 2 + Len(s) <= b.tail - b.head - 1
      BY <1>3, <2>0 DEF has_enough_space_for, HEADER_LENGTH
    <3> QED BY <1>3, <1>5, <3>1
  <2>2. ASSUME NEW j \in 0 .. n, j < n PROVE stop(b, p[j]) <= b.head \/ e <= p[j]
    <3>1. CASE j <= m
      <4>1. 0 \in 0 .. m /\ j \in 0 .. m /\ p[j] \in Nat /\ j \in Nat
        BY <1>3, <2>0, <3>1
      <4>2. j = 0 \/ p[0] + (j - 0) <= p[j]
        BY <2>0, <4>1 DEF Run
      <4>3. b.tail <= p[j]
        BY <1>3, <4>1, <4>2
      <4> QED BY <1>3, <1>5, <2>1, <4>1, <4>3
    <3>2. CASE j > m
      <4>1. j \in m + 1 .. n /\ n \in m + 1 .. n
        BY <2>0, <2>2, <3>2
      <4> QED BY <1>3, <2>0, <2>2, <4>1 DEF Run
    <3> QED BY <2>0, <3>1, <3>2
  <2>3. /\ Chain(v, q, n + 1) /\ Datagram(v, q, n + 1) = Append(blocks(b), s)
        /\ \A j \in 0 .. n : j < n => stop(v, q[j]) = stop(b, p[j])
    BY <1>9, <2>2
  <2>4. Run(v, q, 0, m)
    <3>1. m <= n
      BY <2>0
    <3> QED BY <1>10, <2>0, <2>3, <3>1
  <2>5. Run(v, q, m + 1, n + 1)
    <3>1. m + 1 \in Nat /\ m + 1 <= n
      BY <2>0
    <3> QED BY <1>11, <2>0, <2>1, <2>3, <3>1
  <2>6. stop(v, q[m]) > Capacity
    BY <1>8, <2>0, <2>3
  <2>7. v.head < v.tail
    BY <1>3, <1>4, <1>5, <2>1
  <2>8. m \in 0 .. n + 1 /\ m < n + 1
    BY <2>0
  <2>9. Split(v, q, n + 1, m)
    BY <2>4, <2>5, <2>6, <2>7, <2>8 DEF Split
  <2>10. Laid(v, q, n + 1)
    BY <2>3, <2>8, <2>9 DEF Laid
  <2> QED BY <1>12, <2>3, <2>10
<1> QED BY <1>2, <1>13, <1>14 DEF Laid, v

-----------------------------------------------------------------------------
(***************************************************************************)
(* The connection.                                                         *)
(***************************************************************************)
IInv == TypeOK /\ Layout(client_to_network)

queue == blocks(client_to_network)

\* A new buffer holds nothing.
LEMMA NewLayout == Layout(new) /\ blocks(new) = << >>
<1> DEFINE z == [j \in 0 .. 0 |-> 0]
<1>1. new \in Buffer /\ new.head = 0 /\ new.tail = 0
  BY DatagramAssumption DEF new, Buffer, Byte
<1>2. z[0] = 0 /\ z \in [0 .. 0 -> 0 .. Capacity] /\ \A j \in 0 .. 0 : j = 0
  BY DatagramAssumption
<1> HIDE DEF z
<1>3. Laid(new, z, 0)
  BY <1>1, <1>2 DEF Laid, Chain, Run
<1>4. Datagram(new, z, 0) \in Seq(Seq(Byte)) /\ Len(Datagram(new, z, 0)) = 0
  BY <1>1, <1>2, DatagramSeq
<1>5. blocks(new) = Datagram(new, z, 0)
  BY <1>1, <1>3, LaidBlocks
<1> QED BY <1>1, <1>3, <1>4, <1>5, EmptySeq DEF Layout

\* The connection starts with an empty buffer.
LEMMA InitInv == Init => IInv /\ queue = << >>
<1> SUFFICES ASSUME Init PROVE IInv /\ queue = << >>
  OBVIOUS
<1>1. client_to_network = new /\ Layout(new) /\ queue = << >>
  BY NewLayout DEF Init, queue
<1>2. client_to_network \in Buffer
  BY <1>1 DEF Layout
<1>3. pushed \in 0 .. Pushes
  <2>1. pushed = 0 /\ Pushes \in Nat
    BY UdpAssumption DEF Init
  <2> QED BY <2>1
<1>4. /\ interests \subseteq Interest /\ ready \subseteq Interest \cup {"hup"}
      /\ closed \in BOOLEAN /\ panic \in BOOLEAN
  BY DEF Init, Interest
<1>5. sent \in Seq(Byte)
  <2>1. sent = << >>
    BY DEF Init
  <2> QED BY <2>1
<1>6. TypeOK
  BY <1>2, <1>3, <1>4, <1>5 DEF TypeOK
<1> QED BY <1>1, <1>6 DEF IInv

\* wanted() is a set of interests.
LEMMA WantedType == ASSUME NEW b PROVE wanted(b) \subseteq Interest
  BY DEF wanted, Interest

\* A datagram of the client is queued, dropped, or overruns the buffer.
LEMMA SendStep ==
  ASSUME IInv, NEW s \in Datagrams, send_to_network(s)
  PROVE  IInv' /\ (Channel!Next \/ UNCHANGED <<queue, sent>>)
<1> DEFINE b == client_to_network
           v == client_to_network'
<1>1. TypeOK /\ Layout(b) /\ s \in Seq(Byte) /\ Len(s) < MAX_DATAGRAM_LENGTH
  BY UdpAssumption DEF IInv
<1>2. pushed' \in 0 .. Pushes /\ UNCHANGED <<closed, ready, panic, sent>>
  BY <1>1, UdpAssumption DEF send_to_network, TypeOK
<1>3. CASE has_enough_space_for(b, Len(s))
  <2>1. v = read_from(b, s) /\ interests' = wanted(v)
    BY <1>3 DEF send_to_network
  <2>2. /\ Layout(v)
        /\ \/ blocks(v) = Append(blocks(b), s)
           \/ blocks(v) = << >> /\ Channel!Bytes(Append(blocks(b), s)) > Capacity
    BY <1>1, <1>3, <2>1, ReadFrom
  <2>3. TypeOK'
    BY <1>1, <1>2, <2>1, <2>2, WantedType DEF TypeOK, Layout
  <2>4. Channel!Next
    BY <1>2, <2>2 DEF Channel!Next, Channel!Accept, Channel!Overrun
  <2> QED BY <2>2, <2>3, <2>4 DEF IInv
<1>4. CASE ~has_enough_space_for(b, Len(s))
  <2>1. UNCHANGED <<client_to_network, interests>>
    BY <1>4 DEF send_to_network
  <2> QED BY <1>1, <1>2, <2>1 DEF IInv, TypeOK, queue
<1> QED BY <1>3, <1>4

\* The handler sends or loses the oldest datagram, or leaves the queue alone.
LEMMA OnReadyStep ==
  ASSUME IInv, NEW w \in Outcome, NEW r \in Outcome, on_ready(w, r)
  PROVE  IInv' /\ (Channel!Next \/ UNCHANGED <<queue, sent>>)
<1> DEFINE b == client_to_network
           v == client_to_network'
<1>1. TypeOK /\ Layout(b) /\ b \in Buffer /\ ready' = {} /\ pushed' = pushed
  BY DEF IInv, Layout, on_ready
<1>2. ASSUME UNCHANGED <<client_to_network, sent>>, interests' \subseteq Interest,
             closed' \in BOOLEAN, panic' \in BOOLEAN
      PROVE  IInv' /\ UNCHANGED <<queue, sent>>
  BY <1>1, <1>2 DEF IInv, TypeOK, queue
<1>3. CASE closed
  BY <1>1, <1>2, <1>3 DEF on_ready, TypeOK
<1>4. CASE ~closed /\ ready \cap Interest = {}
  <2>1. process_hup
    BY <1>4 DEF on_ready
  <2> QED BY <1>1, <1>2, <2>1 DEF process_hup, TypeOK
<1>5. CASE ~closed /\ ready \cap Interest # {}
  <2>1. process(w, r)
    BY <1>5 DEF on_ready
  <2>2. closed' \in BOOLEAN
    BY <2>1 DEF process
  <2>3. interests' \subseteq Interest
    <3>1. interests' \in {{}, interests, wanted(client_to_network')}
      BY <2>1 DEF process
    <3> QED BY <1>1, <3>1, WantedType DEF TypeOK
  <2>4. CASE "writable" \notin ready
    <3>1. UNCHANGED <<client_to_network, panic, sent>>
      BY <2>1, <2>4 DEF process
    <3> QED BY <1>1, <1>2, <2>2, <2>3, <3>1 DEF TypeOK
  <2>5. CASE "writable" \in ready
    <3>1. process_send(w)
      BY <2>1, <2>5 DEF process
    <3>2. CASE is_empty(b)
      <4>1. panic' = TRUE /\ UNCHANGED <<client_to_network, sent>>
        BY <3>1, <3>2 DEF process_send
      <4> QED BY <1>2, <2>2, <2>3, <4>1
    <3>3. CASE ~is_empty(b)
      <4>1. /\ v = write_to(b) /\ panic' = FALSE
            /\ sent' = IF w = "ok" THEN datagram(b, b.tail) ELSE sent
        BY <3>1, <3>3 DEF process_send
      <4>2. b.head # b.tail /\ b.tail \in 0 .. Capacity
        BY <1>1, <3>3 DEF is_empty, Buffer
      <4>3. /\ Layout(v) /\ blocks(b) # << >>
            /\ datagram(b, b.tail) = Head(blocks(b)) /\ blocks(v) = Tail(blocks(b))
        BY <1>1, <4>1, <4>2, WriteTo
      <4>4. datagram(b, b.tail) \in Seq(Byte)
        BY <1>1, <4>2, BlockAt
      <4>5. TypeOK'
        <5>1. sent' \in Seq(Byte) /\ v \in Buffer
          BY <1>1, <4>1, <4>3, <4>4 DEF TypeOK, Layout
        <5> QED BY <1>1, <2>2, <2>3, <4>1, <5>1 DEF TypeOK
      <4>6. Channel!Next
        BY <4>1, <4>3 DEF Channel!Next, Channel!Send, Channel!Lose
      <4> QED BY <4>3, <4>5, <4>6 DEF IInv
    <3> QED BY <3>2, <3>3
  <2> QED BY <2>4, <2>5
<1> QED BY <1>3, <1>4, <1>5

\* Every step keeps the invariant, and is a step of the channel or leaves it alone.
LEMMA Steps ==
  ASSUME IInv, [Next]_vars
  PROVE  IInv' /\ [Channel!Next]_<<queue, sent>>
<1>1. ASSUME NEW events \in SUBSET (Interest \cup {"hup"}), poll(events)
      PROVE  IInv' /\ UNCHANGED <<queue, sent>>
  BY <1>1 DEF poll, IInv, TypeOK, queue
<1>2. CASE close
  BY <1>2 DEF close, IInv, TypeOK, queue
<1>3. CASE UNCHANGED vars
  BY <1>3 DEF vars, IInv, TypeOK, queue
<1> QED BY <1>1, <1>2, <1>3, SendStep, OnReadyStep DEF Next, Poll, OnReady

\* The buffer and its indices keep their types: no block is stored or read outside the
\* array, wherever it starts and however long it is.
THEOREM UdpTypeSafe == Spec => []TypeOK
<1>1. IInv => TypeOK
  BY DEF IInv
<1>2. IInv /\ [Next]_vars => IInv'
  BY Steps
<1> QED BY <1>1, <1>2, InitInv, PTL DEF Spec

\* A datagram is sent whole, in order and at most once, through every wrap of the
\* circular buffer: the connection implements the lossy channel, in which only a failed
\* send, or a queue above the capacity, loses datagrams.
THEOREM UdpKeepsBoundaries == Spec => PreservesBoundaries
<1>1. Init => Channel!Init
  BY InitInv DEF Channel!Init, Init, queue
<1>2. IInv /\ [Next]_vars => IInv' /\ [Channel!Next]_<<queue, sent>>
  BY Steps
<1>3. Init => IInv
  BY InitInv
<1>4. Spec => Channel!Init /\ [][Channel!Next]_<<queue, sent>>
  BY <1>1, <1>2, <1>3, PTL DEF Spec
<1> QED BY <1>4 DEF PreservesBoundaries, Channel!Spec, queue
=============================================================================
