--------------------------- MODULE DatagramBuffer ---------------------------
(***************************************************************************)
(* relay/datagram_buffer.rs: the circular buffer that holds the datagrams  *)
(* of a UDP connection until its socket can be written.  A block is a two  *)
(* byte big-endian length and the datagram.  Extra room after the circular *)
(* part lets the last block be contiguous; an index that passed the        *)
(* circular part restarts from 0.                                          *)
(***************************************************************************)
EXTENDS Integers, Sequences

CONSTANTS Radix,      \* 256: the number of byte values
          Capacity    \* the capacity given to DatagramBuffer::new()

ASSUME DatagramAssumption == Radix \in Nat \ {0, 1} /\ Capacity \in Nat

Byte == 0 .. Radix - 1
HEADER_LENGTH == 2
MAX_DATAGRAM_LENGTH == Radix * Radix
MAX_BLOCK_LENGTH == HEADER_LENGTH + MAX_DATAGRAM_LENGTH

circular_buffer_length == Capacity + 1
Cells == 0 .. Capacity + MAX_BLOCK_LENGTH - 1

Buffer == [buf : [Cells -> Byte], head : 0 .. Capacity, tail : 0 .. Capacity]

new == [buf |-> [i \in Cells |-> 0], head |-> 0, tail |-> 0]

is_empty(b) == b.head = b.tail

\* MUTANT: a buffer that wrapped is not distinguished.
has_enough_space_for_always(b, n) == TRUE
has_enough_space_for(b, n) ==
  b.head >= b.tail \/ HEADER_LENGTH + n <= b.tail - b.head - 1

\* The end of a block, brought back to 0 once it left the circular part.
\* MUTANT: an index exactly at the end of the circular part is kept.
wrapped_late(i) == IF i > circular_buffer_length THEN 0 ELSE i
wrapped(i) == IF i >= circular_buffer_length THEN 0 ELSE i

read_length(b, i) == b.buf[i] * Radix + b.buf[i + 1]

\* The datagram of the block at i, and the block after it.
datagram(b, i) == [k \in 1 .. read_length(b, i) |-> b.buf[i + HEADER_LENGTH + k - 1]]
block_end(b, i) == wrapped(i + HEADER_LENGTH + read_length(b, i))

\* write_to(): the block has left the buffer before the datagram is sent, so a
\* send that fails loses it.
write_to(b) == [b EXCEPT !.tail = block_end(b, @)]

\* write_length() keeps 16 bits of the length.
header(s) == <<(Len(s) \div Radix) % Radix, Len(s) % Radix>>

read_from(b, s) ==
  LET block == header(s) \o s
  IN [b EXCEPT !.buf = [i \in Cells |-> IF i - b.head \in 0 .. Len(block) - 1
                                        THEN block[i - b.head + 1] ELSE b.buf[i]],
               !.head = wrapped(b.head + Len(block))]

(***************************************************************************)
(* The datagrams held, oldest first: the blocks met from tail to head.     *)
(***************************************************************************)
blocks(b) ==
  LET next == [i \in Cells |-> block_end(b, i)]
      start[n \in 0 .. circular_buffer_length] ==
        IF n = 0 THEN b.tail ELSE next[start[n - 1]]
      reaches == {n \in 0 .. circular_buffer_length : start[n] = b.head}
      held == CHOOSE n \in reaches \cup {circular_buffer_length} : \A m \in reaches : n <= m
  IN [k \in 1 .. held |-> datagram(b, start[k - 1])]
=============================================================================
