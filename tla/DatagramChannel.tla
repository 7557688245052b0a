-------------------------- MODULE DatagramChannel ---------------------------
(***************************************************************************)
(* What the relay promises for the datagrams of a UDP connection: they are *)
(* sent whole, in order and at most once.  UDP may lose datagrams: here    *)
(* one at a time when a send fails, or all those held when the queue       *)
(* outgrows its capacity.                                                  *)
(***************************************************************************)
EXTENDS Naturals, Sequences

CONSTANTS Datagrams,  \* the datagrams of the client
          Overhead,   \* the bytes a queued datagram takes besides its own
          Capacity    \* the bytes up to which nothing is lost

VARIABLES queue,      \* the datagrams held, oldest first
          sent        \* the last datagram sent

Bytes(q) == LET sum[n \in 0 .. Len(q)] ==
                  IF n = 0 THEN 0 ELSE sum[n - 1] + Overhead + Len(q[n])
            IN sum[Len(q)]

Init == queue = << >> /\ sent = << >>

Accept(d) == queue' = Append(queue, d) /\ sent' = sent

Overrun(d) == /\ Bytes(Append(queue, d)) > Capacity
              /\ queue' = << >> /\ sent' = sent

Send == /\ queue # << >>
        /\ sent' = Head(queue) /\ queue' = Tail(queue)

Lose == /\ queue # << >>
        /\ sent' = sent /\ queue' = Tail(queue)

Next == Send \/ Lose \/ \E d \in Datagrams : Accept(d) \/ Overrun(d)

Spec == Init /\ [][Next]_<<queue, sent>>
=============================================================================
