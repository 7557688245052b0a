---------------------------- MODULE StreamBuffer ----------------------------
(***************************************************************************)
(* relay/stream_buffer.rs: the circular buffer that carries a TCP stream   *)
(* from the client to the network socket, and the packets of all the       *)
(* connections of a client to the tunnel socket.                           *)
(*                                                                         *)
(* One slot is never used, so that head = tail only when the buffer is     *)
(* empty.  write_to() hands over one contiguous run of slots, at most up   *)
(* to the end of the array, and the destination may take any part of it.   *)
(***************************************************************************)
EXTENDS Integers, Sequences

CONSTANTS Byte,       \* the byte values
          Chunks,     \* the slices given to read_from()
          Capacity    \* the capacity given to StreamBuffer::new()

ASSUME BufferAssumption == /\ Capacity \in Nat \ {0}
                           /\ Byte # {}
                           /\ Chunks \subseteq Seq(Byte)

VARIABLES buf,        \* the slots
          head,       \* where the next byte is stored
          tail,       \* where the next byte is taken from
          sent        \* what the last write_to() wrote to its destination

bufferVars == <<buf, head, tail, sent>>

\* self.buf.len(): the requested capacity and the slot that stays unused.
BufLen == Capacity + 1
Slots == 0 .. Capacity

BufferTypeOK == /\ buf \in [Slots -> Byte]
                /\ head \in Slots
                /\ tail \in Slots
                /\ sent \in Seq(Byte)

is_empty == head = tail

size == IF head < tail THEN head + BufLen - tail ELSE head - tail

remaining == Capacity - size

-----------------------------------------------------------------------------
BufferInit == /\ buf \in [Slots -> {CHOOSE b \in Byte : TRUE}]
              /\ head = 0
              /\ tail = 0
              /\ sent = << >>

(***************************************************************************)
(* write_to(): w bytes, any part of the contiguous run that starts at      *)
(* tail, leave the buffer; optimize() then rewinds an empty buffer.        *)
(***************************************************************************)
RunLength == IF head > tail THEN head - tail ELSE BufLen - tail

\* MUTANT: an empty buffer is not rewound.
AdvanceTail_unoptimized(w) == tail' = (tail + w) % BufLen /\ head' = head
AdvanceTail(w) ==
  LET t == IF head > tail THEN tail + w ELSE (tail + w) % BufLen
  IN IF t = head THEN head' = 0 /\ tail' = 0        \* optimize()
                 ELSE tail' = t /\ head' = head

write_to(w) == /\ ~is_empty
               /\ w \in 0 .. RunLength
               /\ sent' = [i \in 1 .. w |-> buf[tail + i - 1]]
               /\ AdvanceTail(w)
               /\ buf' = buf

(***************************************************************************)
(* read_from(): every caller checks remaining() first, as the assertion    *)
(* demands; the slice is copied up to the right end of the array and the   *)
(* rest from its left end.                                                 *)
(***************************************************************************)
\* MUTANT: the part after the wrap restarts from the beginning of the slice.
Stored_restart(s) ==
  [i \in Slots |->
     IF i >= head /\ i < head + Len(s) THEN s[i - head + 1]
     ELSE IF i < head + Len(s) - BufLen THEN s[i + 1]
     ELSE buf[i]]
Stored(s) ==
  [i \in Slots |->
     IF i >= head /\ i < head + Len(s) THEN s[i - head + 1]
     ELSE IF i < head + Len(s) - BufLen THEN s[i + BufLen - head + 1]
     ELSE buf[i]]

read_from(s) == /\ Len(s) <= remaining
                /\ buf' = Stored(s)
                /\ head' = (head + Len(s)) % BufLen
                /\ UNCHANGED <<tail, sent>>

BufferNext == \/ \E w \in 0 .. BufLen : write_to(w)
              \/ \E s \in Chunks : read_from(s)

BufferSpec == BufferInit /\ [][BufferNext]_bufferVars

-----------------------------------------------------------------------------
(***************************************************************************)
(* The bytes held, oldest first: the slots from tail, wrapping.            *)
(***************************************************************************)
SlotAt(i) == IF tail + i - 1 < BufLen THEN tail + i - 1 ELSE tail + i - 1 - BufLen
contents == [i \in 1 .. size |-> buf[SlotAt(i)]]

\* An empty buffer is always rewound: whenever the last byte has left, by
\* whatever partial writes and wraps, head and tail are back at 0 (optimize()),
\* so a packet stored in an empty buffer is contiguous and leaves in one write.
EmptyIsRewound == is_empty => head = 0 /\ tail = 0

\* The circular buffer is a bounded FIFO of bytes: nothing is lost, repeated
\* or reordered by wrapping, partial writes or the rewind of optimize().
Fifo == INSTANCE ByteFifo WITH queue <- contents
ImplementsFifo == Fifo!Spec
=============================================================================
