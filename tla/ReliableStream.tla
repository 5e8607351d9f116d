--------------------------- MODULE ReliableStream ---------------------------
(***************************************************************************)
(* What a KCP channel promises the code above it: the messages accepted by *)
(* send() come out of the peer's recv() whole, once and in order.          *)
(***************************************************************************)
EXTENDS Naturals, Sequences

CONSTANT Messages

VARIABLES
  sent,   \* the messages send() accepted, in order
  got     \* the messages recv() returned, in order

vars == <<sent, got>>

Init == sent = <<>> /\ got = <<>>

Accept ==
  /\ \E m \in Messages : sent' = Append(sent, m)
  /\ UNCHANGED got

Deliver ==
  /\ Len(got) < Len(sent)
  /\ got' = Append(got, sent[Len(got) + 1])
  /\ UNCHANGED sent

Next == Accept \/ Deliver

Spec == Init /\ [][Next]_vars

FairSpec == Spec /\ WF_vars(Deliver)
=============================================================================
