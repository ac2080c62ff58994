---------------------------- MODULE RequestQueue ----------------------------
(* What the byte-stream code of a connection promises: the requests a peer  *)
(* writes are delivered to the request handler one by one, each exactly     *)
(* once, in the order in which they were written.                           *)
EXTENDS Naturals, Sequences

CONSTANT Total       \* number of requests the peer writes

VARIABLE delivered   \* the numbers of the requests delivered so far

Init == delivered = <<>>

Deliver ==
  /\ Len(delivered) < Total
  /\ delivered' = Append(delivered, Len(delivered) + 1)

Next == Deliver

Spec == Init /\ [][Next]_delivered

=============================================================================
