------------------------------ MODULE ByteFifo ------------------------------
(***************************************************************************)
(* What a stream buffer promises: a bounded first-in first-out queue of    *)
(* bytes.  A producer appends a chunk that fits, a consumer takes any      *)
(* non-empty prefix; how the chunks were cut is not preserved.             *)
(***************************************************************************)
EXTENDS Naturals, Sequences

CONSTANTS Chunks,     \* the chunks a producer may append
          Capacity    \* the most bytes the queue may hold

VARIABLES queue,      \* the bytes appended and not yet taken, oldest first
          sent        \* the bytes handed over by the last Take

Init == queue = << >> /\ sent = << >>

Put(s) == /\ Len(queue) + Len(s) <= Capacity
          /\ queue' = queue \o s
          /\ sent' = sent

Take(n) == /\ sent' = SubSeq(queue, 1, n)
           /\ queue' = SubSeq(queue, n + 1, Len(queue))

Next == \/ \E s \in Chunks : Put(s)
        \/ \E n \in 0 .. Len(queue) : Take(n)

Spec == Init /\ [][Next]_<<queue, sent>>
=============================================================================
